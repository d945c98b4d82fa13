---------------------------- MODULE OneScan_proofs ----------------------------
(***************************************************************************)
(* Proofs about the two components of the panel that are built on one scan *)
(* at a time, which ScanCoordination provides: the configs table           *)
(* (ConfigPool), for any settings and any number of rows and uris, and the *)
(* scheduler (Scheduler), for any intervals and scan durations.  They share *)
(* no state; neither proof uses the other.                                 *)
(***************************************************************************)
EXTENDS ConfigPool, Scheduler, FiniteSetTheorems, WellFoundedInduction, TLAPS

USE DEF Reports, Displaceable, Active, Enabled, ActiveUris, Unused

LEMMA LeastId ==
    ASSUME NEW S \in SUBSET Nat, S # {}
    PROVE  \E i \in S : \A j \in S : i <= j
<1>1. \E i \in S : \A j \in S : ~ (<<j, i>> \in OpToRel(<, Nat))
  BY NatLessThanWellFounded, WFMin
<1>2. PICK i \in S : \A j \in S : ~ (<<j, i>> \in OpToRel(<, Nat))
  BY <1>1
<1>3. \A j \in S : ~ (j < i)
  BY <1>2 DEF OpToRel
<1> QED  BY <1>3

LEMMA RowOfActive ==
    ASSUME TypeOK, NEW u \in ActiveUris
    PROVE  RowOf(u) \in Active /\ pool[RowOf(u)].uri = u
<1> DEFINE S == {i \in Active : pool[i].uri = u}
<1>1. S \in SUBSET Nat /\ S # {}
  BY PoolAssumption
<1>2. \E i \in S : \A j \in S : i <= j
  BY <1>1, LeastId
<1> QED  BY <1>2 DEF RowOf

(* Inserting under distinct ids gives each of these ids its config.        *)
LEMMA InsertedRows ==
    ASSUME NEW p, NEW W \in SUBSET Uris, NEW U \in SUBSET W, NEW f \in Numbering(W), NEW i \in Ids
    PROVE  \/ \E u \in U : f[u] = i /\ Inserted(p, U, f)[i] = NewRow(u)
           \/ (\A u \in U : f[u] # i) /\ Inserted(p, U, f)[i] = p[i]
<1>1. CASE \E u \in U : f[u] = i
  <2>1. (CHOOSE u \in U : f[u] = i) \in U /\ f[CHOOSE u \in U : f[u] = i] = i
    BY <1>1
  <2> QED  BY <1>1, <2>1 DEF Inserted
<1>2. CASE ~ \E u \in U : f[u] = i
  BY <1>2 DEF Inserted
<1> QED  BY <1>1, <1>2

(* What the replacement pass makes of a row.                               *)
LEMMA SwappedRows ==
    ASSUME NEW p, NEW W \in SUBSET Uris, NEW In \in SUBSET W, NEW Out,
           NEW f \in Numbering(W), NEW i \in Ids
    PROVE  \/ \E u \in In : f[u] = i /\ Swapped(p, In, Out, f)[i] = NewRow(u)
           \/ /\ \A u \in In : f[u] # i
              /\ \/ Swapped(p, In, Out, f)[i] = p[i]
                 \/ Swapped(p, In, Out, f)[i] = Retired(p[i])
<1> DEFINE q == [j \in Ids |-> IF j \in Out THEN Retired(p[j]) ELSE p[j]]
<1>1. \/ \E u \in In : f[u] = i /\ Inserted(q, In, f)[i] = NewRow(u)
      \/ (\A u \in In : f[u] # i) /\ Inserted(q, In, f)[i] = q[i]
  <2> HIDE DEF q
  <2> QED  BY InsertedRows
<1>2. Swapped(p, In, Out, f) = Inserted(q, In, f)
  BY DEF Swapped
<1>3. q[i] = p[i] \/ q[i] = Retired(p[i])
  OBVIOUS
<1> HIDE DEF q
<1> QED  BY <1>1, <1>2, <1>3

LEMMA RowTypes ==
    ASSUME TypeOK
    PROVE  /\ NoRow \in Rows
           /\ \A u \in Uris : NewRow(u) \in Rows
           /\ \A r \in Rows : Retired(r) \in Rows
           /\ \A r \in Rows, n \in Nat, l \in Reports : Checked(r, n, l) \in Rows
<1>1. NoRow \in Rows
  BY DEF NoRow, Rows
<1>2. \A u \in Uris : NewRow(u) \in Rows
  BY DEF NewRow, Rows, TypeOK
<1>3. \A r \in Rows : Retired(r) \in Rows
  BY DEF Retired, Rows
<1>4. ASSUME NEW r \in Rows, NEW n \in Nat, NEW l \in Reports
      PROVE  Checked(r, n, l) \in Rows
  <2>1. CASE l # NoLatency
    BY <2>1 DEF Checked, Rows
  <2>2. CASE l = NoLatency
    <3>1. n + 1 \in Nat /\ (n + 1 < Threshold \/ Policy # "disable") \in BOOLEAN
      OBVIOUS
    <3>2. Checked(r, n, l) = [r EXCEPT !.fails = n + 1,
                                !.enabled = n + 1 < Threshold \/ Policy # "disable",
                                !.status = IF n + 1 >= Threshold /\ Policy = "delete"
                                           THEN "deleted" ELSE "active"]
      BY <2>2 DEF Checked
    <3> QED  BY <3>1, <3>2 DEF Rows
  <2> QED  BY <2>1, <2>2
<1> QED  BY <1>1, <1>2, <1>3, <1>4

(***************************************************************************)
(* An import leaves every row as it was, retired or taken by a new config, *)
(* and gives no two rows the same new config.                              *)
(***************************************************************************)
Imported(W, f) ==
    /\ pool' = [i \in Ids |-> pool'[i]]
    /\ \A i \in Ids :
         \/ pool'[i] = pool[i] \/ pool'[i] = Retired(pool[i])
         \/ \E u \in W : f[u] = i /\ (pool'[i] = NewRow(u) \/ pool'[i] = Retired(NewRow(u)))

LEMMA AddNewRows ==
    ASSUME TypeOK, AddNew
    PROVE  \E W \in SUBSET Fresh :
              /\ \E f \in Numbering(W) : Imported(W, f)
              /\ raced' = raced \cup (W \cap UNION {adding[a] : a \in Admins})
<1>1. PICK A \in SUBSET Fresh, In \in SUBSET Fresh : \E f \in Numbering(A \cup In) :
         /\ \E Out : pool' = Swapped(Inserted(pool, A, f), In, Out, f)
         /\ raced' = raced \cup ((A \cup In) \cap UNION {adding[a] : a \in Admins})
  BY DEF AddNew
<1>2. PICK f \in Numbering(A \cup In) :
         /\ \E Out : pool' = Swapped(Inserted(pool, A, f), In, Out, f)
         /\ raced' = raced \cup ((A \cup In) \cap UNION {adding[a] : a \in Admins})
  BY <1>1
<1>3. PICK Out : pool' = Swapped(Inserted(pool, A, f), In, Out, f)
  BY <1>2
<1> DEFINE W == A \cup In
           p == Inserted(pool, A, f)
<1>4. /\ W \in SUBSET Uris /\ W \in SUBSET Fresh /\ A \in SUBSET W /\ In \in SUBSET W
      /\ f \in Numbering(W)
      /\ raced' = raced \cup (W \cap UNION {adding[a] : a \in Admins})
  BY <1>2 DEF Fresh
<1> HIDE DEF W
<1>5. ASSUME NEW i \in Ids
      PROVE  \/ pool'[i] = pool[i] \/ pool'[i] = Retired(pool[i])
             \/ \E u \in W : f[u] = i /\ (pool'[i] = NewRow(u) \/ pool'[i] = Retired(NewRow(u)))
  <2>1. \/ \E u \in A : f[u] = i /\ p[i] = NewRow(u)
        \/ (\A u \in A : f[u] # i) /\ p[i] = pool[i]
    BY <1>4, InsertedRows
  <2> HIDE DEF p
  <2>2. \/ \E u \in In : f[u] = i /\ Swapped(p, In, Out, f)[i] = NewRow(u)
        \/ /\ \A u \in In : f[u] # i
           /\ \/ Swapped(p, In, Out, f)[i] = p[i]
              \/ Swapped(p, In, Out, f)[i] = Retired(p[i])
    BY <1>4, SwappedRows
  <2> QED  BY <1>3, <1>4, <2>1, <2>2 DEF p
<1>6. pool' = [i \in Ids |-> pool'[i]]
  BY <1>3 DEF Swapped, Inserted
<1> QED  BY <1>4, <1>5, <1>6 DEF Imported

LEMMA ReplaceWorstRows ==
    ASSUME TypeOK, ReplaceWorst
    PROVE  \E W \in SUBSET Fresh :
              /\ \E f \in Numbering(W) : Imported(W, f)
              /\ raced' = raced \cup (W \cap UNION {adding[a] : a \in Admins})
<1>1. PICK In \in SUBSET Fresh :
         /\ \E Out : \E f \in Numbering(In) : pool' = Swapped(pool, In, Out, f)
         /\ raced' = raced \cup (In \cap UNION {adding[a] : a \in Admins})
  BY DEF ReplaceWorst
<1>2. PICK Out : \E f \in Numbering(In) : pool' = Swapped(pool, In, Out, f)
  BY <1>1
<1>3. PICK f \in Numbering(In) : pool' = Swapped(pool, In, Out, f)
  BY <1>2
<1>4. In \in SUBSET Uris /\ In \in SUBSET In
  BY DEF Fresh
<1>5. ASSUME NEW i \in Ids
      PROVE  \/ pool'[i] = pool[i] \/ pool'[i] = Retired(pool[i])
             \/ \E u \in In : f[u] = i /\ pool'[i] = NewRow(u)
  <2>1. \/ \E u \in In : f[u] = i /\ Swapped(pool, In, Out, f)[i] = NewRow(u)
        \/ /\ \A u \in In : f[u] # i
           /\ \/ Swapped(pool, In, Out, f)[i] = pool[i]
              \/ Swapped(pool, In, Out, f)[i] = Retired(pool[i])
    BY <1>4, SwappedRows
  <2> QED  BY <1>3, <2>1
<1>6. pool' = [i \in Ids |-> pool'[i]]
  BY <1>3 DEF Swapped, Inserted
<1> QED  BY <1>1, <1>5, <1>6 DEF Imported

(***************************************************************************)
(* Types.                                                                  *)
(***************************************************************************)
(* A health check has read its first row and nobody else writes counters.  *)
FirstKept == \A r \in first : /\ pool[r.id].status # "absent"
                             /\ pool[r.id].uri \in Uris
                             /\ r.fails = pool[r.id].fails
Named     == \A i \in Active : pool[i].uri \in Uris
Typed     == TypeOK /\ FirstKept /\ Named

LEMMA ActiveCounted ==
    TypeOK => Cardinality(Enabled) \in Nat
<1>1. IsFiniteSet(Enabled)
  BY PoolAssumption, FS_Subset
<1> QED  BY <1>1, FS_CardinalityType

LEMMA ImportTyped ==
    ASSUME Typed, AddNew \/ ReplaceWorst
    PROVE  Typed'
<1>1. PICK W \in SUBSET Fresh : /\ \E f \in Numbering(W) : Imported(W, f)
                               /\ raced' = raced \cup (W \cap UNION {adding[a] : a \in Admins})
  BY AddNewRows, ReplaceWorstRows DEF Typed
<1>2. PICK f \in Numbering(W) : Imported(W, f)
  BY <1>1
<1>3. ASSUME NEW i \in Ids
      PROVE  pool'[i] \in Rows /\ (pool'[i].status = "active" => pool'[i].uri \in Uris)
  <2>1. pool[i] \in Rows
    BY DEF Typed, TypeOK
  <2>2. CASE pool'[i] = pool[i] \/ pool'[i] = Retired(pool[i])
    <3>1. pool'[i].status = "active" => pool[i].status = "active" /\ pool'[i].uri = pool[i].uri
      BY <2>1, <2>2 DEF Retired, Rows
    <3> QED  BY <2>1, <2>2, <3>1, RowTypes DEF Typed, Named
  <2>3. ASSUME NEW u \in W, pool'[i] = NewRow(u) \/ pool'[i] = Retired(NewRow(u))
        PROVE  pool'[i] \in Rows /\ (pool'[i].status = "active" => pool'[i].uri \in Uris)
    <3>1. u \in Uris
      BY DEF Fresh
    <3>2. pool'[i] \in Rows
      BY <2>3, <3>1, RowTypes DEF Typed
    <3>3. pool'[i].uri = u
      BY <2>3, <3>1 DEF NewRow, Retired
    <3> QED  BY <3>1, <3>2, <3>3
  <2> QED  BY <1>2, <2>2, <2>3 DEF Imported
<1>4. pool' \in [Ids -> Rows] /\ Named'
  BY <1>2, <1>3 DEF Imported, Named
<1>5. raced' \in SUBSET Uris
  BY <1>1 DEF Fresh, Typed, TypeOK
<1> QED  BY <1>4, <1>5 DEF AddNew, ReplaceWorst, Finish, Nothing, Typed, TypeOK, FirstKept, Pcs

LEMMA ApplyHealthTyped ==
    ASSUME TypeOK, FirstKept, ApplyHealth
    PROVE  pool' \in [Ids -> Rows] /\ streak' \in [Ids -> Nat]
<1>1. ASSUME NEW i \in Ids PROVE pool'[i] \in Rows
  <2>1. pool[i] \in Rows /\ pool[i].fails \in Nat
    BY DEF TypeOK, Rows
  <2>2. CASE i \in FirstIds
    <3>1. (CHOOSE r \in first : r.id = i) \in first /\ (CHOOSE r \in first : r.id = i).id = i
      BY <2>2 DEF FirstIds
    <3>2. (CHOOSE r \in first : r.id = i).fails \in Nat /\ results[pool[i].uri] \in Reports
      BY <2>1, <3>1 DEF FirstKept, TypeOK
    <3>3. pool'[i] = Checked(pool[i], (CHOOSE r \in first : r.id = i).fails, results[pool[i].uri])
      BY <2>2 DEF ApplyHealth
    <3> QED  BY <2>1, <3>2, <3>3, RowTypes
  <2>3. CASE i \in Others /\ i \notin FirstIds
    <3>1. PICK u \in seen \cap ActiveUris : i = RowOf(u)
      BY <2>3 DEF Others
    <3>2. results[pool[i].uri] \in Reports
      BY <3>1, RowOfActive DEF TypeOK
    <3>3. pool'[i] = Checked(pool[i], pool[i].fails, results[pool[i].uri])
      BY <2>3 DEF ApplyHealth
    <3> QED  BY <2>1, <3>2, <3>3, RowTypes
  <2>4. CASE i \notin Others /\ i \notin FirstIds
    BY <2>1, <2>4 DEF ApplyHealth
  <2> QED  BY <2>2, <2>3, <2>4
<1>2. streak' \in [Ids -> Nat]
  BY DEF ApplyHealth, TypeOK
<1> QED  BY <1>1, <1>2 DEF ApplyHealth

LEMMA InsertConfigTyped ==
    ASSUME TypeOK, NEW a \in Admins, InsertConfig(a)
    PROVE  /\ pool' \in [Ids -> Rows]
           /\ \A i \in Ids \ Unused : pool'[i] = pool[i]
           /\ \A i \in Unused : pool'[i] = pool[i] \/ pool'[i].uri \in Uris
<1>1. PICK f \in Numbering(adding[a]) :
        pool' = [i \in Ids |-> IF \E u \in adding[a] : f[u] = i
                               THEN [NoRow EXCEPT !.status = "active", !.enabled = TRUE,
                                                  !.uri = CHOOSE u \in adding[a] : f[u] = i]
                               ELSE pool[i]]
  BY DEF InsertConfig
<1>2. ASSUME NEW i \in Ids 
      PROVE  pool'[i] \in Rows /\ (pool'[i] = pool[i] \/ (i \in Unused /\ pool'[i].uri \in Uris))
  <2>1. CASE \E u \in adding[a] : f[u] = i
    <3>1. (CHOOSE u \in adding[a] : f[u] = i) \in Uris
      BY <2>1 DEF TypeOK
    <3>2. i \in Unused
      BY <2>1 DEF Numbering, NextIds
    <3> QED  BY <1>1, <2>1, <3>1, <3>2 DEF NoRow, Rows
  <2>2. CASE ~ \E u \in adding[a] : f[u] = i
    <3>1. pool'[i] = pool[i] /\ pool[i] \in Rows
      BY <1>1, <2>2 DEF TypeOK
    <3> QED  BY <3>1
  <2> QED  BY <2>1, <2>2
<1> QED  BY <1>1, <1>2

LEMMA ReadsTyped ==
    ASSUME Typed, ReadPool \/ ReadWorst \/ ReadTargets \/ NothingLeft \/ ScanFails
    PROVE  Typed'
<1>1. CASE ReadPool
  <2>1. limit' \in Nat
    BY <1>1, ActiveCounted, PoolAssumption DEF ReadPool, Smaller, Room, Typed
  <2>2. seen' \in SUBSET Uris
    BY <1>1 DEF ReadPool, Typed, Named
  <2> QED  BY <1>1, <2>1, <2>2 DEF ReadPool, Typed, TypeOK, FirstKept, Named, Pcs
<1>2. CASE ReadWorst
  BY <1>2 DEF ReadWorst, Typed, TypeOK, FirstKept, Named, Pcs
<1>3. CASE ReadTargets
  <2>1. seen' \in SUBSET Uris
    BY <1>3 DEF ReadTargets, Typed, Named
  <2> QED  BY <1>3, <2>1 DEF ReadTargets, Typed, TypeOK, FirstKept, Named, Pcs
<1>4. CASE NothingLeft \/ ScanFails
  BY <1>4 DEF NothingLeft, ScanFails, Finish, Nothing, Typed, TypeOK, FirstKept, Named, Pcs
<1> QED  BY <1>1, <1>2, <1>3, <1>4

LEMMA ReadFirstTyped ==
    ASSUME Typed, ReadFirst
    PROVE  Typed'
<1>1. PICK u \in seen' \cap ActiveUris : first' = {[id |-> RowOf(u), fails |-> pool[RowOf(u)].fails]}
  BY DEF ReadFirst
<1>2. RowOf(u) \in Active /\ pool[RowOf(u)].uri = u /\ u \in Uris
  BY <1>1, RowOfActive DEF ReadFirst, Typed, TypeOK
<1>3. pool[RowOf(u)].fails \in Nat
  BY <1>2 DEF Typed, TypeOK, Rows
<1>4. first' \in SUBSET [id : Ids, fails : Nat]
  BY <1>1, <1>2, <1>3
<1>5. FirstKept'
  BY <1>1, <1>2 DEF FirstKept, ReadFirst
<1>6. results' \in [Uris -> Reports] /\ seen' \in SUBSET Uris
  BY DEF ReadFirst, Typed, TypeOK
<1> QED  BY <1>4, <1>5, <1>6 DEF ReadFirst, Typed, TypeOK, Named, Pcs

LEMMA AdminTyped ==
    ASSUME Typed, Admin
    PROVE  Typed'
<1>0. Edit => edits' \in 0 .. MaxEdits
  BY PoolAssumption DEF Edit, Typed, TypeOK
<1>1. ASSUME NEW a \in Admins, InsertConfig(a) PROVE Typed'
  <2>1. pool' \in [Ids -> Rows] /\ Named' /\ FirstKept'
    BY <1>1, InsertConfigTyped DEF Typed, Named, FirstKept, InsertConfig, scan, TypeOK
  <2>2. grown' \in SUBSET Ids /\ raced' \in SUBSET Uris
    BY <1>1 DEF InsertConfig, Grow, Typed, TypeOK
  <2> QED  BY <1>0, <1>1, <2>1, <2>2 DEF InsertConfig, scan, Typed, TypeOK
<1>2. ASSUME NEW a \in Admins, NEW T \in SUBSET Uris, CheckDuplicate(a, T) PROVE Typed'
  BY <1>0, <1>2 DEF CheckDuplicate, scan, Typed, TypeOK, Named, FirstKept
<1>3. ASSUME NEW i \in Ids, NEW b \in BOOLEAN, SetEnabled(i, b) PROVE Typed'
  <2>1. pool' = [pool EXCEPT ![i].enabled = b]
    BY <1>3 DEF SetEnabled
  <2>0. \A j \in Ids : /\ pool'[j] \in Rows /\ pool'[j].status = pool[j].status
                       /\ pool'[j].uri = pool[j].uri /\ pool'[j].fails = pool[j].fails
    BY <2>1 DEF Typed, TypeOK, Rows
  <2>2. pool' \in [Ids -> Rows] /\ Named' /\ FirstKept'
    BY <1>3, <2>0, <2>1 DEF SetEnabled, scan, Typed, TypeOK, Named, FirstKept
  <2>3. grown' \in SUBSET Ids
    BY <1>3 DEF SetEnabled, Grow, Typed, TypeOK
  <2> QED  BY <1>0, <1>3, <2>2, <2>3 DEF SetEnabled, scan, Typed, TypeOK
<1>4. ASSUME NEW S \in SUBSET Ids, DeleteConfigs(S) PROVE Typed'
  <2>1. pool' \in [Ids -> Rows]
    <3>1. \A i \in Ids : [pool[i] EXCEPT !.status = "deleted"] \in Rows /\ pool[i] \in Rows
      BY DEF Typed, TypeOK, Rows
    <3> QED  BY <1>4, <3>1 DEF DeleteConfigs
  <2>2. Named' /\ FirstKept'
    BY <1>4 DEF DeleteConfigs, scan, Typed, TypeOK, Rows, Named, FirstKept
  <2> QED  BY <1>0, <1>4, <2>1, <2>2 DEF DeleteConfigs, scan, Typed, TypeOK
<1> QED  BY <1>1, <1>2, <1>3, <1>4 DEF Admin

LEMMA TestTyped ==
    ASSUME Typed, (\E S \in SUBSET Ids : ReadTested(S)) \/ ApplyTest
    PROVE  Typed'
<1>1. CASE \E S \in SUBSET Ids : ReadTested(S)
  BY <1>1 DEF ReadTested, Typed, TypeOK, Named, FirstKept, Pcs
<1>2. CASE ApplyTest
  <2>1. PICK up \in SUBSET tested : \E lat \in [up -> Latencies] :
         pool' = [i \in Ids |-> IF i \in up THEN [pool[i] EXCEPT !.latency = lat[i], !.fails = 0]
                                ELSE pool[i]]
    BY <1>2 DEF ApplyTest
  <2>2. PICK lat \in [up -> Latencies] :
         pool' = [i \in Ids |-> IF i \in up THEN [pool[i] EXCEPT !.latency = lat[i], !.fails = 0]
                                ELSE pool[i]]
    BY <2>1
  <2>3. ASSUME NEW i \in Ids
        PROVE  /\ pool'[i] \in Rows /\ pool'[i].status = pool[i].status
               /\ pool'[i].uri = pool[i].uri
    <3>1. pool[i] \in Rows
      BY DEF Typed, TypeOK
    <3> HIDE DEF Active, Enabled, ActiveUris, Unused, Reports
    <3>2. CASE i \in up
      <4>1. lat[i] \in Reports /\ 0 \in Nat
        BY <3>2 DEF Reports
      <4>2. pool'[i] = [pool[i] EXCEPT !.latency = lat[i], !.fails = 0]
        BY <2>2, <3>2
      <4> QED  BY <3>1, <4>1, <4>2 DEF Rows
    <3>3. CASE i \notin up
      BY <2>2, <3>1, <3>3
    <3> QED  BY <3>2, <3>3
  <2>4. streak' \in [Ids -> Nat]
    <3>1. PICK up2 : streak' = [i \in Ids |-> IF i \in up2 THEN 0 ELSE streak[i]]
      BY <1>2 DEF ApplyTest
    <3> QED  BY <3>1 DEF Typed, TypeOK
  <2> QED  BY <1>2, <2>2, <2>3, <2>4 DEF ApplyTest, Finish, Nothing, Typed, TypeOK, Named,
              FirstKept, Pcs
<1> QED  BY <1>1, <1>2

LEMMA ApplyHealthKeeps ==
    ASSUME Typed, ApplyHealth
    PROVE  Typed'
<1>1. pool' \in [Ids -> Rows] /\ streak' \in [Ids -> Nat]
  BY ApplyHealthTyped DEF Typed
<1>2. ASSUME NEW i \in Ids, pool'[i].status = "active" PROVE pool'[i].uri \in Uris
  <2>1. pool[i] \in Rows
    BY DEF Typed, TypeOK
  <2>2. CASE i \in FirstIds
    <3>1. PICK n, l : pool'[i] = Checked(pool[i], n, l)
      BY <2>2 DEF ApplyHealth
    <3>2. pool'[i].uri = pool[i].uri
      BY <2>1, <3>1 DEF Checked, Rows
    <3> QED  BY <2>2, <3>2 DEF FirstIds, Typed, FirstKept
  <2>3. CASE i \in Others /\ i \notin FirstIds
    <3>1. PICK u \in seen \cap ActiveUris : i = RowOf(u)
      BY <2>3 DEF Others
    <3>2. PICK n, l : pool'[i] = Checked(pool[i], n, l)
      BY <2>3 DEF ApplyHealth
    <3>3. pool'[i].uri = pool[i].uri
      BY <2>1, <3>2 DEF Checked, Rows
    <3> QED  BY <3>1, <3>3, RowOfActive DEF Typed, TypeOK
  <2>4. CASE i \notin Others /\ i \notin FirstIds
    BY <1>2, <2>4 DEF ApplyHealth, Typed, Named
  <2> QED  BY <2>2, <2>3, <2>4
<1>3. raced' \in SUBSET Uris
  BY DEF ApplyHealth, FirstIds, Typed, TypeOK, FirstKept
<1> QED  BY <1>1, <1>2, <1>3 DEF ApplyHealth, Finish, Nothing, Typed, TypeOK, Named, FirstKept, Pcs

LEMMA TypedKept ==
    Typed /\ [Next]_vars => Typed'
<1> SUFFICES ASSUME Typed, [Next]_vars PROVE Typed'
  OBVIOUS
<1>1. CASE Scan
  BY <1>1, ImportTyped, ReadsTyped, ReadFirstTyped, ApplyHealthKeeps, TestTyped DEF Scan
<1>2. CASE Admin
  BY <1>2, AdminTyped
<1>3. CASE UNCHANGED vars
  BY <1>3 DEF vars, Typed, TypeOK, Named, FirstKept
<1> QED  BY <1>1, <1>2, <1>3 DEF Next

LEMMA TypedInit ==
    Init => Typed
BY PoolAssumption DEF Init, Nothing, NoRow, Rows, Typed, TypeOK, Named, FirstKept, Pcs

(* The configs table keeps its types whatever a scan and the admins do to  *)
(* it at the same time; admins delete the row a health check has read and  *)
(* the check still writes a row it can write (services/                    *)
(* automation_service.py, HealthManager).                                  *)
THEOREM TypeCorrect == Spec => []TypeOK
<1>1. Typed => TypeOK
  BY DEF Typed
<1> QED  BY <1>1, TypedInit, TypedKept, PTL DEF Spec

(***************************************************************************)
(* A config is checked by counting: what a row counts is how often it has  *)
(* failed since it last answered.                                          *)
(***************************************************************************)
Counted == /\ \A i \in Ids : pool[i].fails = streak[i]
           /\ \A i \in Unused : streak[i] = 0

LEMMA HealthRows ==
    ASSUME Typed, ApplyHealth, NEW i \in Ids, i \in FirstIds \cup Others
    PROVE  /\ pool'[i] = Checked(pool[i], pool[i].fails, results[pool[i].uri])
           /\ i \notin Unused
<1>1. CASE i \in FirstIds
  <2>1. (CHOOSE r \in first : r.id = i) \in first /\ (CHOOSE r \in first : r.id = i).id = i
    BY <1>1 DEF FirstIds
  <2>2. (CHOOSE r \in first : r.id = i).fails = pool[i].fails /\ i \notin Unused
    BY <2>1 DEF Typed, FirstKept
  <2> QED  BY <1>1, <2>2 DEF ApplyHealth
<1>2. CASE i \in Others /\ i \notin FirstIds
  <2>1. PICK u \in seen \cap ActiveUris : i = RowOf(u)
    BY <1>2 DEF Others
  <2>2. i \notin Unused
    BY <2>1, RowOfActive DEF Typed
  <2> QED  BY <1>2, <2>2 DEF ApplyHealth
<1> QED  BY <1>1, <1>2

LEMMA CheckedCounts ==
    ASSUME NEW r \in Rows, NEW l
    PROVE  /\ Checked(r, r.fails, l).fails = IF l # NoLatency THEN 0 ELSE r.fails + 1
           /\ Checked(r, r.fails, l).status # "absent" \/ r.status = "absent"
BY DEF Checked, Rows

LEMMA CountedKept ==
    Typed /\ Counted /\ [Next]_vars => Counted'
<1> SUFFICES ASSUME Typed, Counted, [Next]_vars PROVE Counted'
  OBVIOUS
<1>0. \A i \in Ids : pool[i] \in Rows
  BY DEF Typed, TypeOK
<1>1. CASE AddNew \/ ReplaceWorst
  <2>1. PICK W \in SUBSET Fresh : \E f \in Numbering(W) : Imported(W, f)
    BY <1>1, AddNewRows, ReplaceWorstRows DEF Typed
  <2>2. PICK f \in Numbering(W) : Imported(W, f)
    BY <2>1
  <2>3. ASSUME NEW i \in Ids
        PROVE  pool'[i].fails = streak[i] /\ (pool'[i].status = "absent" => streak[i] = 0)
    <3>1. CASE pool'[i] = pool[i] \/ pool'[i] = Retired(pool[i])
      BY <1>0, <3>1 DEF Retired, Rows, Counted
    <3>2. ASSUME NEW u \in W, f[u] = i, pool'[i] = NewRow(u) \/ pool'[i] = Retired(NewRow(u))
          PROVE  pool'[i].fails = streak[i] /\ (pool'[i].status = "absent" => streak[i] = 0)
      <4>1. i \in Unused
        BY <3>2 DEF Numbering, NextIds
      <4> QED  BY <3>2, <4>1 DEF NewRow, Retired, Counted
    <3> QED  BY <2>2, <3>1, <3>2 DEF Imported
  <2> QED  BY <1>1, <2>3 DEF AddNew, ReplaceWorst, Counted
<1>2. CASE ApplyHealth
  <2>1. ASSUME NEW i \in Ids
        PROVE  pool'[i].fails = streak'[i] /\ (pool'[i].status = "absent" => streak'[i] = 0)
    <3>1. CASE i \in FirstIds \cup Others
      <4>1. pool'[i] = Checked(pool[i], pool[i].fails, results[pool[i].uri]) /\ i \notin Unused
        BY <1>2, <3>1, HealthRows
      <4>2. streak'[i] = IF results[pool[i].uri] # NoLatency THEN 0 ELSE streak[i] + 1
        BY <1>2, <3>1 DEF ApplyHealth
      <4> QED  BY <1>0, <4>1, <4>2, CheckedCounts DEF Counted
    <3>2. CASE i \notin FirstIds \cup Others
      BY <1>2, <3>2 DEF ApplyHealth, Counted
    <3> QED  BY <3>1, <3>2
  <2> QED  BY <2>1 DEF Counted
<1>3. CASE ApplyTest
  <2>1. PICK up \in SUBSET tested : \E lat \in [up -> Latencies] :
         /\ pool' = [i \in Ids |-> IF i \in up THEN [pool[i] EXCEPT !.latency = lat[i], !.fails = 0]
                                   ELSE pool[i]]
         /\ streak' = [i \in Ids |-> IF i \in up THEN 0 ELSE streak[i]]
    BY <1>3 DEF ApplyTest
  <2>2. \A i \in Ids : /\ pool'[i].fails = streak'[i] /\ pool'[i].status = pool[i].status
                       /\ streak'[i] \in {0, streak[i]}
    BY <1>0, <2>1, ZenonT(60) DEF Rows, Counted
  <2> QED  BY <2>2 DEF Counted
<1>4. CASE \E a \in Admins : InsertConfig(a)
  <2>1. PICK a \in Admins : InsertConfig(a)
    BY <1>4
  <2>2. PICK f \in Numbering(adding[a]) :
        pool' = [i \in Ids |-> IF \E u \in adding[a] : f[u] = i
                               THEN [NoRow EXCEPT !.status = "active", !.enabled = TRUE,
                                                  !.uri = CHOOSE u \in adding[a] : f[u] = i]
                               ELSE pool[i]]
    BY <2>1 DEF InsertConfig
  <2>3. \A i \in Ids : \/ pool'[i] = pool[i]
                       \/ i \in Unused /\ pool'[i].fails = 0 /\ pool'[i].status = "active"
    BY <2>2 DEF Numbering, NextIds, NoRow
  <2> QED  BY <2>1, <2>3 DEF InsertConfig, Counted
<1>5. CASE \E i \in Ids, b \in BOOLEAN : SetEnabled(i, b)
  BY <1>0, <1>5 DEF SetEnabled, Counted, Rows, Typed, TypeOK
<1>6. CASE \E S \in SUBSET Ids : DeleteConfigs(S)
  BY <1>0, <1>6 DEF DeleteConfigs, Counted, Rows
<1>7. CASE UNCHANGED <<pool, streak>>
  BY <1>7 DEF Counted
<1>8. CASE ReadPool \/ ReadWorst \/ ReadTargets \/ ReadFirst \/ NothingLeft \/ ScanFails
  BY <1>7, <1>8 DEF ReadPool, ReadWorst, ReadTargets, ReadFirst, NothingLeft, ScanFails
<1>9. CASE \E S \in SUBSET Ids : ReadTested(S)
  BY <1>7, <1>9 DEF ReadTested
<1>10. CASE \E a \in Admins, T \in SUBSET Uris : CheckDuplicate(a, T)
  BY <1>7, <1>10 DEF CheckDuplicate
<1> QED  BY <1>1, <1>2, <1>3, <1>4, <1>5, <1>6, <1>7, <1>8, <1>9, <1>10 DEF Next, Scan, Admin, vars

LEMMA CheckedRetires ==
    ASSUME NEW r \in Rows, NEW l, r.status = "active",
           (r.enabled /\ ~ Checked(r, r.fails, l).enabled) \/ Checked(r, r.fails, l).status = "deleted"
    PROVE  l = NoLatency /\ r.fails + 1 >= Threshold
<1>1. r.fails \in Nat
  BY DEF Rows
<1>2. CASE l # NoLatency
  BY <1>2 DEF Checked, Rows
<1>3. CASE l = NoLatency
  <2>1. Checked(r, r.fails, l).enabled = (r.fails + 1 < Threshold \/ Policy # "disable")
    BY <1>3 DEF Checked, Rows
  <2>2. Checked(r, r.fails, l).status = IF r.fails + 1 >= Threshold /\ Policy = "delete"
                                        THEN "deleted" ELSE "active"
    BY <1>3 DEF Checked, Rows
  <2>3. r.fails + 1 < Threshold \/ r.fails + 1 >= Threshold
    BY <1>1, PoolAssumption
  <2> QED  BY <1>3, <2>1, <2>2, <2>3
<1> QED  BY <1>2, <1>3

(* A health check takes a config out of the pool only when its last        *)
(* Threshold checks failed in a row, for any threshold and policy and with *)
(* admins editing the table meanwhile (HealthManager.process_health_results).*)
THEOREM RetiredOnlyAfterThreshold == Spec => RetiredAfterThreshold
<1> DEFINE Retires(i) == /\ HealthEnds /\ pool[i].status = "active"
                         /\ \/ pool[i].enabled /\ ~ pool'[i].enabled
                            \/ pool'[i].status = "deleted"
           Step == \A i \in Ids : Retires(i) => streak'[i] >= Threshold
<1>1. Init => Counted
  BY DEF Init, Counted, NoRow
<1>2. Typed /\ Counted /\ [Next]_vars => [Step]_vars
  <2> SUFFICES ASSUME Typed, Counted, Next, NEW i \in Ids, Retires(i)
               PROVE  streak'[i] >= Threshold
    OBVIOUS
  <2>1. pool[i] \in Rows
    BY DEF Typed, TypeOK
  <2>2. pool'[i] # pool[i]
    <3>1. pool[i].enabled \in BOOLEAN /\ pool[i].status # "deleted"
      BY <2>1 DEF Rows
    <3> QED  BY <3>1
  <2>3. ApplyHealth
    BY <2>2 DEF HealthEnds, Next, Scan, Admin, ReadPool, AddNew, ReadWorst, ReplaceWorst,
       ReadTargets,
       ReadFirst, NothingLeft, ReadTested, ApplyTest, ScanFails, InsertConfig, CheckDuplicate,
       SetEnabled, DeleteConfigs
  <2>4. i \in FirstIds \cup Others
    BY <2>2, <2>3 DEF ApplyHealth, Typed, TypeOK
  <2>5. pool'[i] = Checked(pool[i], pool[i].fails, results[pool[i].uri])
    BY <2>3, <2>4, HealthRows
  <2>6. results[pool[i].uri] = NoLatency /\ pool[i].fails + 1 >= Threshold
    BY <2>1, <2>5, CheckedRetires
  <2>7. streak'[i] = streak[i] + 1
    BY <2>3, <2>4, <2>6 DEF ApplyHealth
  <2> QED  BY <2>6, <2>7 DEF Counted
<1>3. RetiredAfterThreshold <=> [][Step]_vars
  BY DEF RetiredAfterThreshold
<1> QED  BY <1>1, <1>2, <1>3, TypedInit, TypedKept, CountedKept, PTL DEF Spec

(***************************************************************************)
(* Deduplication.  Whoever holds a config to be new holds one that is not  *)
(* active, or one that somebody has inserted under its hands (raced).      *)
(***************************************************************************)
Known  == Importing => Fresh \cap ActiveUris \subseteq raced
Fenced == \A a \in Admins : adding[a] \cap ActiveUris \subseteq raced
Deduplicated == Typed /\ NoDuplicates /\ Known /\ Fenced

(* The configs U were inserted in rows of their own, and those of them that *)
(* are awaited by others are remembered.                                   *)
LEMMA InsertedOnce ==
    ASSUME Deduplicated, NEW U \in SUBSET Uris, NEW f, \A u, v \in U : f[u] = f[v] => u = v,
           \A i \in Active' : \/ i \in Active /\ pool'[i].uri = pool[i].uri
                             \/ \E u \in U : f[u] = i /\ pool'[i].uri = u,
           raced \subseteq raced', U \cap ActiveUris \subseteq raced
    PROVE  NoDuplicates' /\ ActiveUris' \subseteq ActiveUris \cup U
<1>1. ActiveUris' \subseteq ActiveUris \cup U
  OBVIOUS
<1>2. ASSUME NEW i \in Active', NEW j \in Active', pool'[i].uri = pool'[j].uri,
             pool'[i].uri \notin raced'
      PROVE  i = j
  <2>1. CASE pool'[i].uri \in U
    <3>1. pool'[i].uri \notin ActiveUris
      BY <1>2, <2>1
    <3> QED  BY <1>2, <3>1
  <2>2. CASE pool'[i].uri \notin U
    <3>1. /\ i \in Active /\ pool'[i].uri = pool[i].uri
          /\ j \in Active /\ pool'[j].uri = pool[j].uri
      BY <1>2, <2>2
    <3> QED  BY <1>2, <3>1 DEF Deduplicated, NoDuplicates
  <2> QED  BY <2>1, <2>2
<1> QED  BY <1>1, <1>2 DEF NoDuplicates

(* Rows that are active were so, with the same config.                     *)
LEMMA FewerActive ==
    ASSUME Deduplicated, raced \subseteq raced',
           \A i \in Active' : pool'[i].uri \notin raced' =>
                              i \in Active /\ pool'[i].uri = pool[i].uri
    PROVE  NoDuplicates' /\ ActiveUris' \subseteq ActiveUris \cup raced'
BY DEF Deduplicated, NoDuplicates

LEMMA ImportDeduplicated ==
    ASSUME Deduplicated, AddNew \/ ReplaceWorst
    PROVE  Deduplicated'
<1>1. PICK W \in SUBSET Fresh : /\ \E f \in Numbering(W) : Imported(W, f)
                               /\ raced' = raced \cup (W \cap UNION {adding[a] : a \in Admins})
  BY AddNewRows, ReplaceWorstRows DEF Deduplicated, Typed
<1>2. PICK f \in Numbering(W) : Imported(W, f)
  BY <1>1
<1>3. ASSUME NEW i \in Active'
      PROVE  \/ i \in Active /\ pool'[i].uri = pool[i].uri
             \/ \E u \in W : f[u] = i /\ pool'[i].uri = u
  <2>1. pool[i] \in Rows
    BY DEF Deduplicated, Typed, TypeOK
  <2>2. CASE pool'[i] = pool[i] \/ pool'[i] = Retired(pool[i])
    BY <2>1, <2>2 DEF Retired, Rows
  <2>3. ASSUME NEW u \in W, pool'[i] = NewRow(u) \/ pool'[i] = Retired(NewRow(u))
        PROVE  pool'[i].uri = u
    BY <2>3 DEF NewRow, Retired
  <2> QED  BY <1>2, <2>2, <2>3 DEF Imported
<1>4. W \in SUBSET Uris /\ W \cap ActiveUris \subseteq raced /\ raced \subseteq raced'
  BY <1>1 DEF Fresh, Deduplicated, Known, Importing, AddNew, ReplaceWorst
<1>5. \A u, v \in W : f[u] = f[v] => u = v
  BY DEF Numbering
<1>6. NoDuplicates' /\ ActiveUris' \subseteq ActiveUris \cup W
  <2> HIDE DEF Active, ActiveUris
  <2> QED  BY <1>3, <1>4, <1>5, InsertedOnce
<1>7. Fenced'
  <2>1. adding' = adding
    BY DEF AddNew, ReplaceWorst
  <2> HIDE DEF Active, ActiveUris
  <2> QED  BY <1>1, <1>4, <1>6, <2>1 DEF Fenced, Deduplicated
<1>8. Known'
  BY DEF Known, Importing, AddNew, ReplaceWorst, Finish
<1> QED  BY <1>6, <1>7, <1>8, ImportTyped DEF Deduplicated

(* A check may write its first row back after an admin has removed it.     *)
LEMMA HealthDeduplicated ==
    ASSUME Deduplicated, ApplyHealth
    PROVE  Deduplicated'
<1>1. raced' = raced \cup {pool[i].uri : i \in FirstIds \ Active} /\ adding' = adding
      /\ pc' = "idle"
  BY DEF ApplyHealth, Finish
<1>2. ASSUME NEW i \in Active', pool'[i].uri \notin raced'
      PROVE  i \in Active /\ pool'[i].uri = pool[i].uri
  <2>1. pool[i] \in Rows
    BY DEF Deduplicated, Typed, TypeOK
  <2>2. CASE i \in FirstIds \cup Others
    <3>1. pool'[i] = Checked(pool[i], pool[i].fails, results[pool[i].uri])
      BY <2>2, HealthRows DEF Deduplicated
    <3>2. pool'[i].uri = pool[i].uri
      BY <2>1, <3>1 DEF Checked, Rows
    <3>3. CASE i \in FirstIds
      BY <1>1, <1>2, <3>2, <3>3
    <3>4. CASE i \in Others
      BY <3>2, <3>4, RowOfActive DEF Deduplicated, Others, Typed
    <3> QED  BY <2>2, <3>3, <3>4
  <2>3. CASE i \notin FirstIds \cup Others
    BY <2>3 DEF ApplyHealth
  <2> QED  BY <2>2, <2>3
<1> HIDE DEF Active, ActiveUris
<1>3. NoDuplicates' /\ ActiveUris' \subseteq ActiveUris \cup raced'
  BY <1>1, <1>2, FewerActive
<1>4. Known' /\ Fenced'
  BY <1>1, <1>3 DEF Known, Importing, Fenced, Deduplicated
<1> QED  BY <1>3, <1>4, ApplyHealthKeeps DEF Deduplicated

LEMMA InsertDeduplicated ==
    ASSUME Deduplicated, NEW a \in Admins, InsertConfig(a)
    PROVE  NoDuplicates' /\ Known' /\ Fenced'
<1>1. PICK f \in Numbering(adding[a]) :
        pool' = [i \in Ids |-> IF \E u \in adding[a] : f[u] = i
                               THEN [NoRow EXCEPT !.status = "active", !.enabled = TRUE,
                                                  !.uri = CHOOSE u \in adding[a] : f[u] = i]
                               ELSE pool[i]]
  BY DEF InsertConfig
<1>2. ASSUME NEW i \in Active'
      PROVE  \/ i \in Active /\ pool'[i].uri = pool[i].uri
             \/ \E u \in adding[a] : f[u] = i /\ pool'[i].uri = u
  <2>1. CASE \E u \in adding[a] : f[u] = i
    <3> DEFINE v == CHOOSE u \in adding[a] : f[u] = i
    <3>1. v \in adding[a] /\ f[v] = i
      BY <2>1
    <3>2. pool'[i].uri = v
      BY <1>1, <2>1 DEF NoRow
    <3> QED  BY <3>1, <3>2
  <2>2. CASE ~ \E u \in adding[a] : f[u] = i
    BY <1>1, <2>2
  <2> QED  BY <2>1, <2>2
<1>3. adding[a] \in SUBSET Uris /\ adding[a] \cap ActiveUris \subseteq raced
  BY DEF Deduplicated, Fenced, Typed, TypeOK
<1>4. \A u, v \in adding[a] : f[u] = f[v] => u = v
  BY DEF Numbering
<1>5. /\ raced' = raced \cup (adding[a] \cap Awaited(a)) /\ adding' = [adding EXCEPT ![a] = {}]
      /\ UNCHANGED <<pc, results, seen>>
  BY DEF InsertConfig, scan
<1> HIDE DEF Active, ActiveUris
<1>6. NoDuplicates' /\ ActiveUris' \subseteq ActiveUris \cup adding[a]
  BY <1>2, <1>3, <1>4, <1>5, InsertedOnce
<1>7. Known'
  <2>1. Fresh' = Fresh /\ Importing' = Importing
    BY <1>5 DEF Fresh, Importing
  <2> QED  BY <1>5, <1>6, <2>1 DEF Known, Awaited, Deduplicated
<1>8. Fenced'
  <2> SUFFICES ASSUME NEW b \in Admins PROVE adding'[b] \cap ActiveUris' \subseteq raced'
    BY DEF Fenced
  <2>1. CASE b = a
    BY <1>5, <2>1 DEF Deduplicated, Typed, TypeOK
  <2>2. CASE b # a
    BY <1>5, <1>6, <2>2 DEF Deduplicated, Typed, TypeOK, Fenced, Awaited
  <2> QED  BY <2>1, <2>2
<1> QED  BY <1>6, <1>7, <1>8

(* Steps that insert nothing and write no row that is not active.          *)
LEMMA NothingInserted ==
    ASSUME Deduplicated, Typed', raced' = raced,
           \A i \in Active' : i \in Active /\ pool'[i].uri = pool[i].uri,
           \A a \in Admins : adding'[a] \subseteq adding[a] \/ adding'[a] \cap ActiveUris = {},
           Importing' => \/ Importing /\ Fresh' = Fresh
                         \/ Fresh' \cap ActiveUris = {}
    PROVE  Deduplicated'
<1>1. NoDuplicates'
  BY DEF Deduplicated, NoDuplicates
<1>2. ActiveUris' \subseteq ActiveUris
  OBVIOUS
<1> HIDE DEF Active, ActiveUris
<1>3. Known' /\ Fenced'
  BY <1>2 DEF Deduplicated, Known, Fenced
<1> QED  BY <1>1, <1>3 DEF Deduplicated

(* Whatever scans and any number of admins do at once, a config is active  *)
(* twice only if somebody inserted it while another held it to be new, or  *)
(* a check wrote a removed row back (ConfigImporter: "Deduplicates healthy *)
(* configs"; add_configs: "Parse, deduplicate, and insert configs").       *)
THEOREM NeverTwice == Spec => []NoDuplicates
<1>1. Init => Deduplicated
  BY TypedInit DEF Init, NoRow, NoDuplicates, Known, Importing, Fenced, Deduplicated
<1>2. Deduplicated /\ [Next]_vars => Deduplicated'
  <2> SUFFICES ASSUME Deduplicated, [Next]_vars PROVE Deduplicated'
    OBVIOUS
  <2>0. Typed'
    BY TypedKept DEF Deduplicated
  <2>1. CASE AddNew \/ ReplaceWorst
    BY <2>1, ImportDeduplicated
  <2>2. CASE ApplyHealth
    BY <2>2, HealthDeduplicated
  <2>3. CASE \/ ReadPool \/ ReadWorst \/ ReadTargets \/ ReadFirst \/ NothingLeft \/ ScanFails
             \/ \E S \in SUBSET Ids : ReadTested(S)
    <3>1. UNCHANGED <<pool, adding, raced>>
      BY <2>3 DEF ReadPool, ReadWorst, ReadTargets, ReadFirst, NothingLeft, ScanFails, ReadTested
    <3>2. Importing' => \/ Importing /\ Fresh' = Fresh
                        \/ Fresh' \cap ActiveUris = {}
      BY <2>3 DEF ReadPool, ReadWorst, ReadTargets, ReadFirst, NothingLeft, ScanFails, ReadTested,
         Finish, Importing, Fresh
    <3> QED  BY <2>0, <3>1, <3>2, NothingInserted
  <2>4. CASE ApplyTest
    <3>1. \A i \in Ids : pool'[i].status = pool[i].status /\ pool'[i].uri = pool[i].uri
      <4>0. PICK up \in SUBSET tested : \E lat \in [up -> Latencies] :
              pool' = [i \in Ids |-> IF i \in up
                                     THEN [pool[i] EXCEPT !.latency = lat[i], !.fails = 0]
                                     ELSE pool[i]]
        BY <2>4 DEF ApplyTest
      <4>1. PICK lat : pool' = [i \in Ids |-> IF i \in up
                                   THEN [pool[i] EXCEPT !.latency = lat[i], !.fails = 0]
                                   ELSE pool[i]]
        BY <4>0
      <4>2. \A i \in Ids : pool[i] \in Rows
        BY DEF Deduplicated, Typed, TypeOK
      <4> QED  BY <4>1, <4>2 DEF Rows
    <3>2. pc' = "idle" /\ UNCHANGED <<adding, raced>>
      BY <2>4 DEF ApplyTest, Finish
    <3> QED  BY <2>0, <3>1, <3>2, NothingInserted DEF Importing
  <2>5. CASE \E a \in Admins : InsertConfig(a)
    BY <2>0, <2>5, InsertDeduplicated DEF Deduplicated
  <2>6. CASE \E a \in Admins, T \in SUBSET Uris : CheckDuplicate(a, T)
    <3>1. PICK a \in Admins, T \in SUBSET Uris : CheckDuplicate(a, T)
      BY <2>6
    <3>2. /\ UNCHANGED <<pool, pc, results, seen, raced>>
          /\ adding' = [adding EXCEPT ![a] = T \ ActiveUris]
      BY <3>1 DEF CheckDuplicate, scan
    <3>3. \A b \in Admins : adding'[b] \subseteq adding[b] \/ adding'[b] \cap ActiveUris = {}
      BY <3>2 DEF Deduplicated, Typed, TypeOK
    <3>4. Importing' = Importing /\ Fresh' = Fresh
      BY <3>2 DEF Importing, Fresh
    <3> QED  BY <2>0, <3>2, <3>3, <3>4, NothingInserted
  <2>7. CASE \/ \E i \in Ids, b \in BOOLEAN : SetEnabled(i, b)
             \/ \E S \in SUBSET Ids : DeleteConfigs(S)
    <3>1. \A i \in Active' : i \in Active /\ pool'[i].uri = pool[i].uri
      BY <2>7 DEF SetEnabled, DeleteConfigs, Deduplicated, Typed, TypeOK, Rows
    <3>2. UNCHANGED <<adding, pc, results, seen, raced>>
      BY <2>7 DEF SetEnabled, DeleteConfigs, scan
    <3>3. Importing' = Importing /\ Fresh' = Fresh
      BY <3>2 DEF Importing, Fresh
    <3> QED  BY <2>0, <3>1, <3>2, <3>3, NothingInserted
  <2>8. CASE UNCHANGED vars
    <3>1. UNCHANGED <<pool, adding, pc, results, seen, raced>>
      BY <2>8 DEF vars
    <3>2. Importing' = Importing /\ Fresh' = Fresh
      BY <3>1 DEF Importing, Fresh
    <3> QED  BY <2>0, <3>1, <3>2, NothingInserted
  <2> QED  BY <2>1, <2>2, <2>3, <2>4, <2>5, <2>6, <2>7, <2>8 DEF Next, Scan, Admin
<1>3. Deduplicated => NoDuplicates
  BY DEF Deduplicated
<1> QED  BY <1>1, <1>2, <1>3, PTL DEF Spec

(***************************************************************************)
(* Capacity.  While an import runs, the rows enabled are among those it    *)
(* found and those others have enabled since, and so are those it may      *)
(* displace.                                                               *)
(***************************************************************************)
EnabledOf(p) == {i \in Ids : p[i].status = "active" /\ p[i].enabled}

Counting == Importing => /\ EnabledOf(pool) \subseteq found \cup grown
                         /\ limit <= Room(Cardinality(found))
                         /\ pc = "swap" => worst \subseteq found \cup grown

(* As many rows are taken as there are configs to insert.                  *)
Taken(U, f) == {f[u] : u \in U}

LEMMA NumberedCount ==
    ASSUME NEW W, NEW f \in Numbering(W), NEW U \in SUBSET W
    PROVE  /\ IsFiniteSet(U) /\ Cardinality(U) \in Nat
           /\ Taken(U, f) \subseteq Unused
           /\ IsFiniteSet(Taken(U, f))
           /\ Cardinality(Taken(U, f)) = Cardinality(U)
<1> DEFINE g == [u \in U |-> f[u]]
           T == {f[u] : u \in U}
<1>1. /\ \A u \in U : f[u] \in Unused
      /\ \A u, v \in U : f[u] = f[v] => u = v
  BY DEF Numbering, NextIds
<1>2. T \subseteq Unused /\ T \subseteq Ids
  BY <1>1
<1>3. g \in Bijection(U, T)
  BY <1>1 DEF Bijection, Injection, Surjection, IsInjective
<1>4. IsFiniteSet(T)
  BY <1>2, PoolAssumption, FS_Subset
<1>5. g \in Injection(U, T)
  BY <1>3 DEF Bijection
<1>6. IsFiniteSet(U)
  BY <1>4, <1>5, FS_Injection
<1>7. Cardinality(T) = Cardinality(U)
  BY <1>3, <1>6, FS_Bijection DEF ExistsBijection
<1> QED  BY <1>2, <1>4, <1>6, <1>7, FS_CardinalityType DEF Taken

(* Inserting U adds that many enabled rows.                                *)
LEMMA InsertCount ==
    ASSUME NEW p, NEW W \in SUBSET Uris, NEW U \in SUBSET W, NEW f \in Numbering(W),
           \A u \in U : f[u] \notin EnabledOf(p)
    PROVE  Cardinality(EnabledOf(Inserted(p, U, f))) = Cardinality(EnabledOf(p)) + Cardinality(U)
<1> DEFINE T == Taken(U, f)
           E == EnabledOf(p)
<1>1. ASSUME NEW i \in Ids
      PROVE  i \in EnabledOf(Inserted(p, U, f)) <=> i \in E \/ i \in T
  <2>1. \/ \E u \in U : f[u] = i /\ Inserted(p, U, f)[i] = NewRow(u)
        \/ (\A u \in U : f[u] # i) /\ Inserted(p, U, f)[i] = p[i]
    BY InsertedRows
  <2>2. \A u \in U : NewRow(u).status = "active" /\ NewRow(u).enabled = TRUE
    BY DEF NewRow
  <2> QED  BY <2>1, <2>2 DEF EnabledOf, Taken
<1>2. T \subseteq Ids /\ IsFiniteSet(T) /\ Cardinality(T) = Cardinality(U) /\ Cardinality(U) \in Nat
  BY NumberedCount
<1>3. IsFiniteSet(E) /\ E \subseteq Ids
  BY PoolAssumption, FS_Subset DEF EnabledOf
<1>4. EnabledOf(Inserted(p, U, f)) = E \cup T
  BY <1>1, <1>2, <1>3 DEF EnabledOf
<1>5. E \cap T = {}
  BY DEF Taken
<1>6. Cardinality(E \cup T) = Cardinality(E) + Cardinality(T) - Cardinality(E \cap T)
  BY <1>2, <1>3, FS_Union
<1>7. Cardinality(E \cap T) = 0 /\ Cardinality(E) \in Nat
  BY <1>3, <1>5, FS_EmptySet, FS_CardinalityType
<1> HIDE DEF E, T
<1> QED  BY <1>2, <1>4, <1>6, <1>7 DEF E

(* Retiring Out takes that many away, whatever the policy.                 *)
LEMMA RetireCount ==
    ASSUME NEW p \in [Ids -> Rows], NEW Out \in SUBSET EnabledOf(p), NEW q,
           q = [i \in Ids |-> IF i \in Out THEN Retired(p[i]) ELSE p[i]]
    PROVE  /\ EnabledOf(q) = EnabledOf(p) \ Out
           /\ Cardinality(EnabledOf(q)) = Cardinality(EnabledOf(p)) - Cardinality(Out)
           /\ Cardinality(Out) \in Nat
<1>1. \A r \in Rows : ~ (Retired(r).status = "active" /\ Retired(r).enabled)
  BY DEF Retired, Rows
<1>2. EnabledOf(q) = EnabledOf(p) \ Out
  BY <1>1 DEF EnabledOf
<1>3. IsFiniteSet(EnabledOf(p))
  BY PoolAssumption, FS_Subset DEF EnabledOf
<1>4. EnabledOf(p) \cap Out = Out /\ IsFiniteSet(Out)
  BY <1>3, FS_Subset
<1> QED  BY <1>2, <1>3, <1>4, FS_Difference, FS_CardinalityType

(* A swap leaves no more enabled rows than there were in any set B of rows *)
(* that holds those enabled and those displaced.                           *)
LEMMA SwapCount ==
    ASSUME NEW p \in [Ids -> Rows], NEW W \in SUBSET Uris, NEW In \in SUBSET W,
           NEW f \in Numbering(W), NEW B \in SUBSET Ids, NEW Out \in SUBSET B,
           EnabledOf(p) \subseteq B, Cardinality(In) = Cardinality(Out),
           \A u \in In : f[u] \notin EnabledOf(p)
    PROVE  Cardinality(EnabledOf(Swapped(p, In, Out, f))) <= Cardinality(B)
<1> DEFINE q == [i \in Ids |-> IF i \in Out THEN Retired(p[i]) ELSE p[i]]
<1>1. EnabledOf(q) = EnabledOf(p) \ Out
  <2>1. \A r \in Rows : ~ (Retired(r).status = "active" /\ Retired(r).enabled)
    BY DEF Retired, Rows
  <2> QED  BY <2>1 DEF EnabledOf
<1>2. /\ IsFiniteSet(B) /\ IsFiniteSet(Out) /\ IsFiniteSet(B \ Out)
      /\ Cardinality(B \ Out) = Cardinality(B) - Cardinality(Out)
      /\ Cardinality(B) \in Nat /\ Cardinality(Out) \in Nat
  <2>1. IsFiniteSet(B)
    BY PoolAssumption, FS_Subset
  <2>2. B \cap Out = Out /\ IsFiniteSet(Out) /\ IsFiniteSet(B \ Out)
    BY <2>1, FS_Subset
  <2> QED  BY <2>1, <2>2, FS_Difference, FS_CardinalityType
<1>3. Cardinality(EnabledOf(q)) \in Nat /\ Cardinality(EnabledOf(q)) <= Cardinality(B \ Out)
  <2>1. EnabledOf(q) \subseteq B \ Out
    BY <1>1
  <2> HIDE DEF q
  <2> QED  BY <1>2, <2>1, FS_Subset, FS_CardinalityType
<1>4. Swapped(p, In, Out, f) = Inserted(q, In, f)
  BY DEF Swapped
<1>5. \A u \in In : f[u] \notin EnabledOf(q)
  BY <1>1
<1> HIDE DEF q
<1>6. Cardinality(EnabledOf(Inserted(q, In, f))) = Cardinality(EnabledOf(q)) + Cardinality(In)
  BY <1>5, InsertCount
<1> QED  BY <1>2, <1>3, <1>4, <1>6

(* What is enabled is bounded by what was found and what has grown.        *)
LEMMA EnabledBound ==
    ASSUME TypeOK, Counting, Importing
    PROVE  /\ Cardinality(EnabledOf(pool)) \in Nat
           /\ Cardinality(found) \in Nat /\ Cardinality(grown) \in Nat
           /\ Cardinality(found \cup grown) \in Nat
           /\ Cardinality(EnabledOf(pool)) <= Cardinality(found \cup grown)
           /\ Cardinality(found \cup grown) <= Cardinality(found) + Cardinality(grown)
<1>1. found \subseteq Ids /\ grown \subseteq Ids
  BY DEF TypeOK
<1>2. IsFiniteSet(found) /\ IsFiniteSet(grown) /\ IsFiniteSet(found \cap grown)
  BY <1>1, PoolAssumption, FS_Subset
<1>3. /\ IsFiniteSet(found \cup grown)
      /\ Cardinality(found \cup grown) =
            Cardinality(found) + Cardinality(grown) - Cardinality(found \cap grown)
  BY <1>2, FS_Union
<1>4. EnabledOf(pool) \subseteq found \cup grown
  BY DEF Counting
<1>5. /\ Cardinality(EnabledOf(pool)) \in Nat
      /\ Cardinality(EnabledOf(pool)) <= Cardinality(found \cup grown)
  BY <1>3, <1>4, FS_Subset, FS_CardinalityType
<1>6. /\ Cardinality(found) \in Nat /\ Cardinality(grown) \in Nat
      /\ Cardinality(found \cap grown) \in Nat /\ Cardinality(found \cup grown) \in Nat
  BY <1>2, <1>3, FS_CardinalityType
<1> QED  BY <1>3, <1>5, <1>6

Bound == Larger(MaxActive, Cardinality(found)) + Cardinality(grown)

LEMMA AddNewCapacity ==
    ASSUME TypeOK, Counting, AddNew
    PROVE  Cardinality(Enabled') <= Bound
<1>1. PICK A \in SUBSET Fresh, In \in SUBSET Fresh : \E f \in Numbering(A \cup In) :
         /\ Fastest(A, Fresh) /\ Cardinality(A) = Smaller(limit, Cardinality(Fresh))
         /\ LET p == Inserted(pool, A, f)
                V == [i \in Displaceable(p) |-> p[i].latency]
            IN \E Out \in SUBSET Displaceable(p) :
                 /\ Swap(In, Out, Fresh \ A, V, Budget(Cardinality(A)))
                 /\ pool' = Swapped(p, In, Out, f)
  BY DEF AddNew
<1>2. PICK f \in Numbering(A \cup In) :
         LET p == Inserted(pool, A, f)
             V == [i \in Displaceable(p) |-> p[i].latency]
         IN \E Out \in SUBSET Displaceable(p) :
              /\ Swap(In, Out, Fresh \ A, V, Budget(Cardinality(A)))
              /\ pool' = Swapped(p, In, Out, f)
  BY <1>1
<1> DEFINE p == Inserted(pool, A, f)
           V == [i \in Displaceable(p) |-> p[i].latency]
           W == A \cup In
<1>3. PICK Out \in SUBSET Displaceable(p) :
         /\ Swap(In, Out, Fresh \ A, V, Budget(Cardinality(A)))
         /\ pool' = Swapped(p, In, Out, f)
  BY <1>2
<1>4. In \subseteq Fresh \ A /\ Cardinality(In) = Cardinality(Out)
  BY <1>3 DEF Swap, Fastest
<1>5. W \in SUBSET Uris /\ A \in SUBSET W /\ In \in SUBSET W /\ f \in Numbering(W)
  BY DEF Fresh
<1>6. \A u \in W : f[u] \in Unused
  BY <1>5, NumberedCount DEF Numbering, NextIds
<1>7. \A u, v \in W : f[u] = f[v] => u = v
  BY <1>5 DEF Numbering
<1> HIDE DEF W, V
<1>8. Cardinality(EnabledOf(p)) = Cardinality(EnabledOf(pool)) + Cardinality(A)
  <2>1. \A u \in A : f[u] \notin EnabledOf(pool)
    BY <1>5, <1>6 DEF EnabledOf
  <2> QED  BY <1>5, <2>1, InsertCount
<1>9. p \in [Ids -> Rows]
  <2>1. ASSUME NEW i \in Ids PROVE p[i] \in Rows
    <3>1. (\E u \in A : p[i] = NewRow(u)) \/ p[i] = pool[i]
      BY <1>5, InsertedRows
    <3>2. A \subseteq Uris /\ pool[i] \in Rows
      BY DEF TypeOK, Fresh
    <3> HIDE DEF p
    <3> QED  BY <3>1, <3>2, RowTypes
  <2>2. p = [i \in Ids |-> p[i]]
    BY DEF Inserted
  <2> HIDE DEF p
  <2> QED  BY <2>1, <2>2
<1>10. \A u \in In : f[u] \notin EnabledOf(p)
  <2> SUFFICES ASSUME NEW u \in In PROVE f[u] \notin EnabledOf(p)
    OBVIOUS
  <2>1. f[u] \in Ids /\ pool[f[u]].status = "absent" /\ \A v \in A : f[v] # f[u]
    BY <1>4, <1>5, <1>6, <1>7
  <2>2. p[f[u]] = pool[f[u]]
    <3> DEFINE i == f[u]
    <3>1. i \in Ids /\ \A v \in A : f[v] # i
      BY <2>1
    <3> HIDE DEF i
    <3>2. \/ \E v \in A : f[v] = i /\ Inserted(pool, A, f)[i] = NewRow(v)
          \/ (\A v \in A : f[v] # i) /\ Inserted(pool, A, f)[i] = pool[i]
      BY <1>5, <3>1, InsertedRows
    <3> QED  BY <3>1, <3>2 DEF i
  <2> HIDE DEF p
  <2> QED  BY <2>1, <2>2 DEF EnabledOf
<1> HIDE DEF p
<1>11. Cardinality(EnabledOf(pool')) <= Cardinality(EnabledOf(pool)) + Cardinality(A)
  <2>1. Out \in SUBSET EnabledOf(p) /\ EnabledOf(p) \in SUBSET Ids
    BY <1>3 DEF EnabledOf
  <2>2. Cardinality(EnabledOf(Swapped(p, In, Out, f))) <= Cardinality(EnabledOf(p))
    BY <1>4, <1>5, <1>9, <1>10, <2>1, SwapCount
  <2> QED  BY <1>3, <1>8, <2>2
<1>12. Importing
  BY DEF AddNew, Importing
<1>13. /\ Cardinality(A) \in Nat /\ Cardinality(EnabledOf(pool)) \in Nat
       /\ Cardinality(found) \in Nat /\ Cardinality(grown) \in Nat
       /\ Cardinality(EnabledOf(pool)) <= Cardinality(found) + Cardinality(grown)
  BY <1>5, <1>12, NumberedCount, EnabledBound
<1>14. Cardinality(A) <= limit /\ limit \in Nat
  BY <1>1, <1>13 DEF Smaller, TypeOK
<1>15. limit > 0 /\ limit <= Room(Cardinality(found))
  BY <1>12 DEF AddNew, Counting
<1>16. Cardinality(found) + limit <= MaxActive
  BY <1>13, <1>14, <1>15, PoolAssumption DEF Room
<1>18. IsFiniteSet(EnabledOf(pool')) /\ Cardinality(EnabledOf(pool')) \in Nat
  BY PoolAssumption, FS_Subset, FS_CardinalityType DEF EnabledOf
<1>17. Enabled' = EnabledOf(pool')
  BY DEF EnabledOf
<1> HIDE DEF Enabled
<1> QED  BY <1>11, <1>13, <1>14, <1>16, <1>17, <1>18, PoolAssumption DEF Bound, Larger

LEMMA ReplaceWorstCapacity ==
    ASSUME TypeOK, Counting, ReplaceWorst
    PROVE  Cardinality(Enabled') <= Bound
<1>1. PICK In \in SUBSET Fresh, Out \in SUBSET worst :
         /\ Cardinality(In) = Cardinality(Out)
         /\ \E f \in Numbering(In) : pool' = Swapped(pool, In, Out, f)
  BY DEF ReplaceWorst, Swap
<1>2. PICK f \in Numbering(In) : pool' = Swapped(pool, In, Out, f)
  BY <1>1
<1>0. Importing
  BY DEF Importing, ReplaceWorst
<1>3. /\ In \in SUBSET Uris /\ In \in SUBSET In /\ Out \in SUBSET (found \cup grown)
      /\ found \cup grown \in SUBSET Ids /\ EnabledOf(pool) \subseteq found \cup grown
  BY <1>0 DEF Fresh, Counting, ReplaceWorst, TypeOK
<1>4. \A u \in In : f[u] \notin EnabledOf(pool)
  BY <1>2 DEF Numbering, NextIds, EnabledOf
<1>5. pool \in [Ids -> Rows]
  BY DEF TypeOK
<1>6. Cardinality(EnabledOf(pool')) <= Cardinality(found \cup grown)
  BY <1>1, <1>2, <1>3, <1>4, <1>5, SwapCount
<1>7. Enabled' = EnabledOf(pool')
  BY DEF EnabledOf
<1>8. Cardinality(EnabledOf(pool')) \in Nat
  BY PoolAssumption, FS_Subset, FS_CardinalityType DEF EnabledOf
<1> HIDE DEF Enabled
<1>9. /\ Cardinality(found \cup grown) \in Nat /\ Cardinality(found) \in Nat
      /\ Cardinality(grown) \in Nat
      /\ Cardinality(found \cup grown) <= Cardinality(found) + Cardinality(grown)
  BY <1>0, EnabledBound
<1> QED  BY <1>6, <1>7, <1>8, <1>9, PoolAssumption DEF Bound, Larger

(* What others enable while an import runs is remembered.                  *)
LEMMA GrownKept ==
    ASSUME TypeOK, Counting, Admin
    PROVE  Counting'
<1>1. /\ UNCHANGED <<pc, limit, worst, found>>
      /\ Importing => /\ grown \subseteq grown'
                      /\ EnabledOf(pool') \subseteq EnabledOf(pool) \cup found \cup grown'
  <2>1. ASSUME UNCHANGED <<pc, limit, worst, found>>, Grow
        PROVE  Importing => /\ grown \subseteq grown'
                            /\ EnabledOf(pool') \subseteq EnabledOf(pool) \cup found \cup grown'
    BY <2>1 DEF Grow, EnabledOf
  <2>2. ASSUME NEW S \in SUBSET Ids, DeleteConfigs(S)
        PROVE  EnabledOf(pool') \subseteq EnabledOf(pool)
    BY <2>2 DEF DeleteConfigs, EnabledOf, TypeOK, Rows
  <2> QED  BY <2>1, <2>2 DEF Admin, InsertConfig, CheckDuplicate, SetEnabled, DeleteConfigs, scan
<1>2. Importing' = Importing
  BY <1>1 DEF Importing
<1> QED  BY <1>1, <1>2 DEF Counting

(* An import leaves no more configs enabled than max_active_configs or     *)
(* than it found, plus what admins enabled while it ran, for any settings, *)
(* policy and pool, however scans and edits overlap (ConfigImporter:       *)
(* "controls imports under capacity limits").                              *)
THEOREM CapacityRespected == Spec => CapacityKept
<1> DEFINE Step == ImportEnds => Cardinality(Enabled') <= Bound
<1>1. Init => Counting
  BY DEF Init, Counting, Importing
<1>2. Typed /\ Counting /\ [Next]_vars => Counting'
  <2> SUFFICES ASSUME Typed, Counting, [Next]_vars PROVE Counting'
    OBVIOUS
  <2>1. CASE ReadPool
    <3>1. /\ pc' = "add" /\ pool' = pool /\ found' = EnabledOf(pool)
          /\ limit' = Smaller(MaxNew, Room(Cardinality(EnabledOf(pool))))
      BY <2>1 DEF ReadPool, EnabledOf
    <3>2. Cardinality(EnabledOf(pool)) \in Nat
      BY ActiveCounted DEF Typed, EnabledOf
    <3>3. Room(Cardinality(EnabledOf(pool))) \in Nat
      BY <3>2, PoolAssumption DEF Room
    <3>4. limit' <= Room(Cardinality(EnabledOf(pool)))
      BY <3>1, <3>3, PoolAssumption DEF Smaller
    <3> QED  BY <3>1, <3>4 DEF Counting
  <2>2. CASE ReadWorst
    BY <2>2 DEF ReadWorst, Counting, Importing, EnabledOf
  <2>3. CASE Admin
    BY <2>3, GrownKept DEF Typed
  <2>4. CASE Finish
    BY <2>4 DEF Finish, Counting, Importing
  <2>5. CASE ReadTargets \/ ReadFirst \/ \E S \in SUBSET Ids : ReadTested(S)
    BY <2>5 DEF ReadTargets, ReadFirst, ReadTested, Counting, Importing
  <2>6. CASE UNCHANGED vars
    BY <2>6 DEF vars, Counting, Importing
  <2> QED  BY <2>1, <2>2, <2>3, <2>4, <2>5, <2>6
           DEF Next, Scan, AddNew, ReplaceWorst, NothingLeft, ApplyHealth, ApplyTest, ScanFails
<1>3. Typed /\ Counting /\ [Next]_vars => [Step]_vars
  <2> SUFFICES ASSUME Typed, Counting, Next, ImportEnds PROVE Cardinality(Enabled') <= Bound
    OBVIOUS
  <2>1. AddNew \/ ReplaceWorst \/ UNCHANGED pool
    BY DEF ImportEnds, Importing, Next, Scan, Admin, ReadPool, ReadWorst, ReadTargets, ReadFirst,
       NothingLeft, ApplyHealth, ReadTested, ApplyTest, ScanFails, InsertConfig, CheckDuplicate,
       SetEnabled, DeleteConfigs
  <2>2. CASE UNCHANGED pool
    <3>1. Enabled' = EnabledOf(pool)
      BY <2>2 DEF EnabledOf
    <3> HIDE DEF Enabled
    <3>2. /\ Cardinality(EnabledOf(pool)) \in Nat
          /\ Cardinality(found) \in Nat /\ Cardinality(grown) \in Nat
          /\ Cardinality(EnabledOf(pool)) <= Cardinality(found) + Cardinality(grown)
      BY EnabledBound DEF Typed, ImportEnds
    <3> QED  BY <3>1, <3>2, PoolAssumption DEF Bound, Larger
  <2> QED  BY <2>1, <2>2, AddNewCapacity, ReplaceWorstCapacity DEF Typed
<1>4. CapacityKept <=> [][Step]_vars
  BY DEF CapacityKept, Bound
<1> HIDE DEF Step
<1> QED  BY <1>1, <1>2, <1>3, <1>4, TypedInit, TypedKept, PTL DEF Spec

-------------------------------------------------------------------------------
(* The scheduler.                                                          *)
(*                                                                         *)
(* HealthWithin rests on Waiting: while the health timer runs, idleHealth  *)
(* does not exceed it; once it is due, only the scan in progress can hold  *)
(* health back, for as many ticks as that scan has run.                    *)

USE DEF timers, scans, backups, history

-------------------------------------------------------------------------------
(* Type correctness.                                                       *)

(* UpTo counts one up and stops at its bound.                              *)
LEMMA UpToBound ==
    ASSUME NEW b \in Nat, NEW n \in 0 .. b
    PROVE  /\ UpTo(n, b) \in 0 .. b
           /\ UpTo(n, b) <= n + 1 /\ UpTo(n, b) >= n
BY DEF UpTo

(* A fresh installation: no owner, empty last_backup_time.                 *)
LEMMA SchedulerTypeInit == SchedulerInit => SchedulerTypeOK
<1> SUFFICES ASSUME SchedulerInit PROVE SchedulerTypeOK
    OBVIOUS
<1> USE SchedulerAssumption DEF SchedulerInit
<1>1. run \in Runs /\ phase \in Phases /\ spawned \in SUBSET Kinds
    BY DEF Runs, Phases
<1>2. owner \in Workers \cup {NoWorker} /\ backup \in BOOLEAN
    OBVIOUS
<1>5. quiet \in BOOLEAN /\ brief \in BOOLEAN /\ rewound \in BOOLEAN
    OBVIOUS
<1>4. sinceRecorded \in 0 .. BackupInterval /\ sinceBackup \in 0 .. BackupInterval
    OBVIOUS
<1>3. /\ sinceDiscovery \in 0 .. ScanInterval /\ sinceHealth \in 0 .. HealthInterval
      /\ ran \in 0 .. MaxRun /\ idleHealth \in 0 .. MaxIdle
      /\ deaths \in 0 .. MaxDeaths /\ consumed \in 0 .. 2 /\ refused \in 0 .. 1
    OBVIOUS
<1> QED
    BY <1>1, <1>2, <1>3, <1>4, <1>5 DEF SchedulerTypeOK

(* Every iteration, run, backup and death keeps the types.                 *)
LEMMA SchedulerTypeStep ==
    SchedulerTypeOK /\ [SchedulerNext]_schedulerVars => SchedulerTypeOK'
<1> SUFFICES ASSUME SchedulerTypeOK, [SchedulerNext]_schedulerVars PROVE SchedulerTypeOK'
    OBVIOUS
<1> USE SchedulerAssumption DEF SchedulerTypeOK, Phases
<1>1. ASSUME NEW w \in Workers, TakeOver(w) PROVE SchedulerTypeOK'
    BY <1>1 DEF TakeOver
<1>2. CASE Tick
    <2>1. ran' \in 0 .. MaxRun
        BY <1>2 DEF Tick
    <2>2. brief' \in BOOLEAN
        BY <1>2 DEF Tick
    <2> QED
        BY <1>2, <2>1, <2>2 DEF Tick, UpTo
<1>3. CASE Check
    <2>1. quiet' \in BOOLEAN
        BY <1>3 DEF Check, SeesActive, SeesInactive
    <2> QED
        BY <1>3, <2>1 DEF Check
<1>4. CASE Fire
    <2>1. spawned' \in SUBSET Kinds
        BY <1>4 DEF Fire, Kinds
    <2>2. consumed' \in 0 .. 2
        BY <1>4 DEF Fire, UpTo
    <2>3. sinceDiscovery' \in 0 .. ScanInterval /\ sinceHealth' \in 0 .. HealthInterval
        BY <1>4 DEF Fire
    <2> QED
        BY <1>4, <2>1, <2>2, <2>3 DEF Fire
<1>5. CASE CheckBackup \/ RecordBackup \/ StartBackup
    <2>1. rewound' \in BOOLEAN
        BY <1>5 DEF CheckBackup, RecordBackup, StartBackup
    <2>2. sinceRecorded' \in 0 .. BackupInterval /\ sinceBackup' \in 0 .. BackupInterval
        BY <1>5 DEF CheckBackup, RecordBackup, StartBackup
    <2> QED
        BY <1>5, <2>1, <2>2 DEF CheckBackup, RecordBackup, StartBackup
<1>13. CASE SettingsRestored
    BY <1>13 DEF SettingsRestored
<1>6. CASE BackupEnds \/ BackupFails \/ IterationFails
    BY <1>6 DEF BackupEnds, BackupFails, IterationFails
<1>7. ASSUME NEW k \in Kinds, RunStarts(k) PROVE SchedulerTypeOK'
    BY <1>7 DEF RunStarts, Runs
<1>8. ASSUME NEW k \in Kinds, RunRefused(k) PROVE SchedulerTypeOK'
    <2>1. quiet' \in BOOLEAN
        BY <1>8 DEF RunRefused
    <2> QED
        BY <1>8, <2>1 DEF RunRefused
<1>9. ASSUME NEW k \in Kinds, AdminStarts(k) PROVE SchedulerTypeOK'
    <2>1. quiet' \in BOOLEAN /\ run' \in Runs
        BY <1>9 DEF AdminStarts, Runs
    <2> QED
        BY <1>9, <2>1 DEF AdminStarts
<1>10. CASE RunEnds
    BY <1>10 DEF RunEnds, Runs
<1>11. CASE OwnerDies
    <2>1. run' \in Runs /\ ran' \in 0 .. MaxRun
        BY <1>11 DEF OwnerDies, Runs
    <2>2. deaths' \in 0 .. MaxDeaths
        BY <1>11 DEF OwnerDies
    <2> QED
        BY <1>11, <2>1, <2>2 DEF OwnerDies
<1>12. CASE UNCHANGED schedulerVars
    BY <1>12 DEF schedulerVars
<1> QED
    BY <1>1, <1>2, <1>3, <1>4, <1>5, <1>6, <1>7, <1>8, <1>9, <1>10, <1>11, <1>12, <1>13
    DEF SchedulerNext

(* The timers, the run, the spawned threads and the backup record keep     *)
(* their types through every interleaving of the loop, admins and deaths.  *)
THEOREM SchedulerTypeCorrect == SchedulerSpec => []SchedulerTypeOK
BY SchedulerTypeInit, SchedulerTypeStep, PTL DEF SchedulerSpec

-------------------------------------------------------------------------------
(* Health scans.                                                           *)

(* A thread is spawned by Fire into a free system and meets the lock       *)
(* before the next tick; a discovery is spawned only if health is not due. *)
Calm ==
    /\ run \in {NoRun} \cup [kind : Kinds, by : {"scheduler"}]
    /\ spawned \in {{}, {"health"}, {"discovery"}}
    /\ run # NoRun => spawned = {}
    /\ phase \in {"check", "fire"} => spawned = {}
    /\ phase = "fire" => run = NoRun
    /\ spawned # {} => sinceHealth < HealthInterval
    /\ run # NoRun \/ spawned # {} => owner # NoWorker

Waiting ==
    owner # NoWorker =>
        /\ "health" \in spawned => idleHealth <= HealthInterval + MaxRun
        /\ "health" \notin spawned /\ sinceHealth < HealthInterval
               => idleHealth <= sinceHealth
        /\ sinceHealth = HealthInterval /\ run # NoRun
               => idleHealth + 1 <= HealthInterval + ran
        /\ sinceHealth = HealthInterval /\ run = NoRun
               => idleHealth <= HealthInterval + MaxRun
                                - (IF phase \in {"check", "fire"} THEN 0 ELSE 1)
        /\ sinceHealth = HealthInterval /\ "health" \notin spawned /\ run # NoRun
               => ran > 0

HealthInv == quiet => Calm /\ Waiting

(* Once it is not quiet, it never is again.                                *)
LEMMA QuietBefore ==
    ASSUME SchedulerTypeOK, [SchedulerNext]_schedulerVars, quiet'
    PROVE  quiet
<1>1. UNCHANGED quiet \/ quiet' = FALSE \/ Check
    BY DEF SchedulerNext, schedulerVars, TakeOver, Tick, Fire,
           CheckBackup, RecordBackup, StartBackup, BackupEnds, BackupFails,
           SettingsRestored, IterationFails, RunStarts, RunRefused, AdminStarts,
           RunEnds, OwnerDies
<1>2. CASE Check
    BY <1>2 DEF Check, SeesActive, SeesInactive, SchedulerTypeOK
<1> QED
    BY <1>1, <1>2

(* With nobody else taking the scan lock and settings that can be read,    *)
(* every step of the loop keeps health's bound.                            *)
LEMMA HealthStep ==
    ASSUME quiet', SchedulerTypeOK, SchedulerTypeOK', Calm, Waiting,
           [SchedulerNext]_schedulerVars
    PROVE  Calm' /\ Waiting'
<1> USE SchedulerAssumption DEF SchedulerTypeOK, Calm, Waiting
<1>1. ASSUME NEW w \in Workers, TakeOver(w) PROVE Calm' /\ Waiting'
    BY <1>1 DEF TakeOver
<1>2. CASE Tick
    BY <1>2 DEF Tick, UpTo
<1>3. CASE Check
    BY <1>3 DEF Check, SeesActive, SeesInactive, HealthDue,
                DiscoveryDue
<1>4. CASE Fire
    BY <1>4 DEF Fire, HealthDue, DiscoveryDue
<1>5. CASE CheckBackup \/ RecordBackup \/ StartBackup \/ SettingsRestored
    BY <1>5 DEF CheckBackup, RecordBackup, StartBackup, SettingsRestored
<1>6. CASE BackupEnds \/ BackupFails \/ IterationFails
    BY <1>6 DEF BackupEnds, BackupFails, IterationFails
<1>7. ASSUME NEW k \in Kinds, RunStarts(k) PROVE Calm' /\ Waiting'
    <2>1. spawned = {k} /\ spawned' = {} /\ sinceHealth < HealthInterval
        BY <1>7 DEF RunStarts, Kinds
    <2>2. run' \in [kind : Kinds, by : {"scheduler"}]
        BY <1>7 DEF RunStarts
    <2>3. Calm'
        BY <1>7, <2>1, <2>2 DEF RunStarts
    <2>4. CASE k = "health"
        BY <1>7, <2>1, <2>3, <2>4 DEF RunStarts
    <2>5. CASE k = "discovery"
        BY <1>7, <2>1, <2>3, <2>5 DEF RunStarts
    <2> QED
        BY <2>4, <2>5 DEF Kinds
<1>8. ASSUME NEW k \in Kinds, RunRefused(k) PROVE Calm' /\ Waiting'
    BY <1>8 DEF RunRefused
<1>9. ASSUME NEW k \in Kinds, AdminStarts(k) PROVE Calm' /\ Waiting'
    BY <1>9 DEF AdminStarts
<1>10. CASE RunEnds
    BY <1>10 DEF RunEnds
<1>11. CASE OwnerDies
    <2>1. run' = NoRun /\ owner' = NoWorker /\ spawned' = {} /\ phase' = "sleep"
        BY <1>11 DEF OwnerDies, NoRun
    <2> QED
        BY <2>1
<1>12. CASE UNCHANGED schedulerVars
    BY <1>12 DEF schedulerVars
<1> QED
    BY <1>1, <1>2, <1>3, <1>4, <1>5, <1>6, <1>7, <1>8, <1>9, <1>10, <1>11, <1>12
    DEF SchedulerNext

(* While it is quiet, the scan lock and the timers agree as Calm and        *)
(* Waiting say, over any number of scheduling workers.                     *)
LEMMA HealthInvariant == SchedulerSpec => []HealthInv
<1>1. SchedulerInit => HealthInv
    BY SchedulerAssumption DEF SchedulerInit, HealthInv, Calm, Waiting
<1>2. SchedulerTypeOK /\ SchedulerTypeOK' /\ HealthInv /\ [SchedulerNext]_schedulerVars
        => HealthInv'
    BY HealthStep, QuietBefore DEF HealthInv
<1> QED
    BY <1>1, <1>2, SchedulerTypeCorrect, PTL DEF SchedulerSpec

(* Discovery never starves health, whatever the two intervals and whatever *)
(* scheduling workers die: while it is quiet, a health scan starts within  *)
(* its interval and one scan.                                              *)
THEOREM HealthNeverStarves == SchedulerSpec => []HealthWithin
<1>1. SchedulerTypeOK /\ HealthInv => HealthWithin
    BY SchedulerAssumption DEF SchedulerTypeOK, HealthInv, Waiting, HealthWithin
<1> QED
    BY <1>1, HealthInvariant, SchedulerTypeCorrect, PTL

-------------------------------------------------------------------------------
(* Discovery.                                                              *)

(* What follows a consumed turn: either a discovery is on its way, or both *)
(* timers have run together since, and the health scan that took the turn  *)
(* is the only one that can have kept discovery waiting.                   *)
MakingUp ==
    \/ "discovery" \in spawned
    \/ /\ sinceDiscovery = IF sinceHealth < ScanInterval THEN sinceHealth ELSE ScanInterval
       /\ "health" \in spawned => sinceHealth = 0
       /\ run # NoRun => ran = sinceHealth
       /\ sinceHealth < HealthInterval
       /\ run = NoRun => sinceHealth + 1 < HealthInterval \/ phase \in {"check", "fire"}

OneTurn ==
    /\ consumed <= 1
    /\ owner # NoWorker /\ consumed = 1 => MakingUp

Short == ran + 1 < HealthInterval

TurnsInv == (brief => Short) /\ (quiet /\ brief => OneTurn)

(* A scan that once ran on into health's next turn is not forgotten.       *)
LEMMA ShortStep ==
    ASSUME ScanInterval < HealthInterval, SchedulerTypeOK, brief => Short,
           [SchedulerNext]_schedulerVars
    PROVE  brief' => brief /\ Short'
<1> USE SchedulerAssumption DEF SchedulerTypeOK, Short
<1>1. CASE Tick
    BY <1>1 DEF Tick
<1>2. CASE ~ Tick
    <2>1. UNCHANGED brief
        BY <1>2 DEF SchedulerNext, schedulerVars, TakeOver, Check, Fire, CheckBackup,
           RecordBackup, StartBackup, BackupEnds, BackupFails, SettingsRestored,
           IterationFails, RunStarts, RunRefused, AdminStarts, RunEnds, OwnerDies, history
    <2>2. ran' \in {0, ran}
        BY <1>2 DEF SchedulerNext, schedulerVars, TakeOver, Check, Fire, CheckBackup,
           RecordBackup, StartBackup, BackupEnds, BackupFails, SettingsRestored,
           IterationFails, RunStarts, RunRefused, AdminStarts, RunEnds, OwnerDies, scans
    <2>3. 0 + 1 < HealthInterval
        OBVIOUS
    <2> QED
        BY <2>1, <2>2, <2>3
<1> QED
    BY <1>1, <1>2

(* While discovery waits health does not come due: in an iteration that    *)
(* fires, the turn is discovery's.                                         *)
LEMMA TurnStep ==
    ASSUME ScanInterval < HealthInterval, quiet', SchedulerTypeOK, SchedulerTypeOK', Calm,
           Short, Short', OneTurn, [SchedulerNext]_schedulerVars
    PROVE  OneTurn'
<1> USE SchedulerAssumption DEF SchedulerTypeOK, Calm, Short, OneTurn, MakingUp
<1>1. ASSUME NEW w \in Workers, TakeOver(w) PROVE OneTurn'
    <2>1. run' = NoRun /\ spawned' = {} /\ sinceDiscovery' = 0 /\ sinceHealth' = 0
        BY <1>1 DEF TakeOver, scans
    <2>2. consumed' = consumed /\ 0 + 1 < HealthInterval
        BY <1>1 DEF TakeOver
    <2> QED
        BY <2>1, <2>2
<1>2. CASE Tick
    BY <1>2 DEF Tick, UpTo
<1>3. CASE Check
    <2>1. /\ UNCHANGED <<owner, sinceDiscovery, sinceHealth, run, ran, spawned, consumed>>
          /\ phase' = "fire" \/ run' # NoRun \/ sinceDiscovery # ScanInterval
        BY <1>3 DEF Check, SeesActive, SeesInactive, DiscoveryDue, timers, scans
    <2>2. phase = "check" /\ spawned = {}
        BY <1>3 DEF Check
    <2> QED
        BY <2>1, <2>2
<1>4. CASE Fire
    <2>1. run = NoRun /\ spawned = {} /\ UNCHANGED <<owner, run, ran>>
        BY <1>4 DEF Fire
    <2>2. CASE sinceHealth = HealthInterval
        BY <1>4, <2>1, <2>2 DEF Fire, HealthDue, DiscoveryDue, UpTo
    <2>3. CASE sinceHealth # HealthInterval
        <3>1. "discovery" \in spawned' /\ UNCHANGED consumed
            BY <1>4, <2>3 DEF Fire, HealthDue
        <3> QED
            BY <3>1
    <2> QED
        BY <2>2, <2>3
<1>5. CASE CheckBackup \/ RecordBackup \/ StartBackup \/ SettingsRestored
    <2>1. UNCHANGED <<owner, sinceDiscovery, sinceHealth, run, ran, spawned, consumed>>
        BY <1>5 DEF CheckBackup, RecordBackup, StartBackup, SettingsRestored, timers, scans,
                    history
    <2>2. phase' = phase \/ phase \notin {"check", "fire"}
        BY <1>5 DEF CheckBackup, RecordBackup, StartBackup, SettingsRestored
    <2> QED
        BY <2>1, <2>2
<1>6. CASE BackupEnds \/ BackupFails \/ IterationFails
    <2>1. UNCHANGED <<owner, sinceDiscovery, sinceHealth, run, ran, spawned, consumed>>
        BY <1>6 DEF BackupEnds, BackupFails, IterationFails
    <2>2. phase' = phase \/ phase \notin {"check", "fire"}
        BY <1>6 DEF BackupEnds, BackupFails, IterationFails
    <2> QED
        BY <2>1, <2>2
<1>7. ASSUME NEW k \in Kinds, RunStarts(k) PROVE OneTurn'
    BY <1>7 DEF RunStarts, Kinds
<1>8. ASSUME NEW k \in Kinds, RunRefused(k) \/ AdminStarts(k)
      PROVE  OneTurn'
    BY <1>8 DEF RunRefused, AdminStarts
<1>9. CASE RunEnds
    BY <1>9 DEF RunEnds
<1>10. CASE OwnerDies
    BY <1>10 DEF OwnerDies
<1>11. CASE UNCHANGED schedulerVars
    BY <1>11 DEF schedulerVars
<1> QED
    BY <1>1, <1>2, <1>3, <1>4, <1>5, <1>6, <1>7, <1>8, <1>9, <1>10, <1>11 DEF SchedulerNext

(* A discovery turn given to a health scan is made up for before the next  *)
(* is given away (scheduler.py:47-57), whatever the intervals, as long as  *)
(* discovery's is the shorter one, whatever the timeout of scans, as long  *)
(* as those that ran were over before health was due again, and across     *)
(* takeovers.  Without either TLC finds two turns given away in a row.     *)
THEOREM DiscoveryMakesUp ==
    ASSUME ScanInterval < HealthInterval
    PROVE  SchedulerSpec => []DiscoveryNextInterval
<1>1. SchedulerInit => TurnsInv
    BY SchedulerAssumption DEF SchedulerInit, TurnsInv, OneTurn, Short
<1>2. SchedulerTypeOK /\ SchedulerTypeOK' /\ HealthInv /\ TurnsInv /\ [SchedulerNext]_schedulerVars
        => TurnsInv'
    BY TurnStep, ShortStep, QuietBefore DEF HealthInv, TurnsInv
<1>3. TurnsInv => DiscoveryNextInterval
    BY DEF TurnsInv, OneTurn, DiscoveryNextInterval
<1> QED
    BY <1>1, <1>2, <1>3, HealthInvariant, SchedulerTypeCorrect, PTL DEF SchedulerSpec

-------------------------------------------------------------------------------
(* Backups.                                                                *)

(* last_backup_time survives in the database, so what a new owner of the   *)
(* scheduler reads is never older than the last scheduled backup, unless a *)
(* restore put it back; and who is past the look at the interval has let   *)
(* no time pass since.                                                     *)
Recorded ==
    ~ rewound => /\ sinceRecorded <= sinceBackup
                 /\ phase \in {"record", "start"} => sinceBackup = BackupInterval
                 /\ phase = "start" => sinceRecorded = 0

(* A thread that waits to be recorded or started belongs to a living owner. *)
Attended == owner = NoWorker => phase = "sleep"

(* Every step keeps the record at most as old as the backup, and a step    *)
(* that starts a backup finds the last one a whole interval old.           *)
LEMMA RecordedStep ==
    ASSUME SchedulerTypeOK, Attended, Recorded, [SchedulerNext]_schedulerVars
    PROVE  /\ Attended' /\ Recorded'
           /\ sinceBackup' < sinceBackup => sinceBackup = BackupInterval \/ rewound
<1> USE SchedulerAssumption DEF SchedulerTypeOK, Recorded, Attended, backups
<1>1. CASE Tick
    BY <1>1 DEF Tick, UpTo
<1>2. CASE CheckBackup
    BY <1>2 DEF CheckBackup
<1>3. CASE RecordBackup
    BY <1>3 DEF RecordBackup
<1>4. CASE StartBackup
    BY <1>4 DEF StartBackup
<1>5. CASE BackupEnds \/ BackupFails
    BY <1>5 DEF BackupEnds, BackupFails
<1>6. CASE SettingsRestored
    BY <1>6 DEF SettingsRestored
<1>7. CASE Check \/ Fire \/ IterationFails
    BY <1>7 DEF Check, Fire, IterationFails
<1>8. CASE OwnerDies \/ \E w \in Workers : TakeOver(w)
    BY <1>8 DEF OwnerDies, TakeOver
<1>9. CASE RunEnds \/ \E k \in Kinds : RunStarts(k) \/ RunRefused(k) \/ AdminStarts(k)
    BY <1>9 DEF RunEnds, RunStarts, RunRefused, AdminStarts
<1>10. CASE UNCHANGED schedulerVars
    BY <1>10 DEF schedulerVars
<1> QED
    BY <1>1, <1>2, <1>3, <1>4, <1>5, <1>6, <1>7, <1>8, <1>9, <1>10 DEF SchedulerNext

(* Scheduled backups never come closer than their interval, wherever       *)
(* between the look, the record and the start the owner dies or an error   *)
(* strikes, across any number of takeovers (scheduler.py:94-141).          *)
THEOREM BackupsSpaced == SchedulerSpec => BackupSpacing
<1>1. SchedulerInit => Attended /\ Recorded
    BY SchedulerAssumption DEF SchedulerInit, Attended, Recorded
<1>2. SchedulerTypeOK /\ Attended /\ Recorded /\ [SchedulerNext]_schedulerVars
        => /\ (Attended /\ Recorded)'
           /\ sinceBackup' < sinceBackup => sinceBackup = BackupInterval \/ rewound
    BY RecordedStep
<1> QED
    BY <1>1, <1>2, SchedulerTypeCorrect, PTL DEF SchedulerSpec, BackupSpacing
================================================================================
