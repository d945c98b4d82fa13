------------------------------- MODULE ConfigPool -------------------------------
(***************************************************************************)
(* The configs table: what a discovery import, a health check and a manual *)
(* test do to it (ConfigImporter, HealthManager, run_manual_test), beside  *)
(* the edits of admins (services/config_service.py).                       *)
(*                                                                         *)
(* Scans exclude each other (ScanCoordination), so one scan is modelled at *)
(* a time; admins edit the table whenever they like.  SQLite runs a SELECT *)
(* outside a transaction until the first write; from then to COMMIT no one *)
(* else writes and no one sees the changes.  A function that reads and     *)
(* then writes is hence two steps, and the writing one is atomic.  A       *)
(* config is its identity: two texts with the same get_config_identity are *)
(* one uri here.  A text that stands in two active rows is reported once   *)
(* per health check.                                                       *)
(***************************************************************************)
EXTENDS Integers, FiniteSets

CONSTANTS
    Ids,            \* row ids that may be used (bounds the inserts)
    Uris,
    Admins,         \* request threads editing the table
    NoUri,          \* the text of a row that does not exist
    Latencies,      \* what a probe may measure, in ms
    MaxActive,      \* setting max_active_configs
    MaxNew,         \* setting max_new_configs_per_scan
    Threshold,      \* setting failure_threshold
    MaxFails,       \* bound: failures in a row that are counted
    MaxEdits,       \* bound: steps of admins
    Policy,         \* setting cleanup_policy
    ReplaceWhenFull     \* setting discovery_replace_when_full

MinImprovement == 50        \* MIN_IMPROVEMENT_MS
NoLatency      == 999999    \* NULL latency, as COALESCE makes it

ASSUME PoolAssumption ==
    /\ Latencies \subseteq Nat /\ NoLatency \notin Latencies
    /\ NoUri \notin Uris
    /\ MaxActive \in Nat /\ MaxNew \in Nat /\ Threshold \in Nat
    /\ MaxFails \in Nat /\ MaxEdits \in Nat
    /\ Policy \in {"disable", "delete", "keep"}
    /\ ReplaceWhenFull \in BOOLEAN
    /\ Ids \subseteq Nat /\ IsFiniteSet(Ids)

VARIABLES
    pool,       \* [Ids -> Rows]: the configs table
    pc,         \* where the scan is
    results,    \* [Uris -> Latencies + NoLatency]: what the engine reported
    seen,       \* uris the scan has read: identities in the pool, or targets
    limit,      \* how many configs an import may add
    worst,      \* ids an import may displace, as it read them
    first,      \* the row a health check read before its first write
    tested,     \* ids of the manual test
    adding,     \* [Admins -> sets of Uris]: found to be new, not inserted yet
    streak,     \* history: [Ids -> Nat], failed health checks since a success
    raced,      \* history: uris two hands were inserting, or writing, at once
    found,      \* history: rows enabled when the running import read the pool
    grown,      \* history: rows others have enabled since
    edits       \* history: steps of admins so far

vars == <<pool, pc, results, seen, limit, worst, first, tested, adding, streak, raced,
          found, grown, edits>>
scan == <<results, seen, limit, worst, first, tested, found>>

Reports == Latencies \cup {NoLatency}
Rows == [status : {"absent", "active", "deleted"}, uri : Uris \cup {NoUri},
         enabled : BOOLEAN, mode : {"auto", "manual"}, latency : Reports, fails : Nat]
NoRow == [status |-> "absent", uri |-> NoUri, enabled |-> FALSE, mode |-> "manual",
          latency |-> NoLatency, fails |-> 0]

Active      == {i \in Ids : pool[i].status = "active"}
Enabled     == {i \in Active : pool[i].enabled}
ActiveUris  == {pool[i].uri : i \in Active}
Unused      == {i \in Ids : pool[i].status = "absent"}

Pcs == {"idle", "add", "worst", "swap", "probe", "health", "apply", "test"}

TypeOK ==
    /\ pool \in [Ids -> Rows]
    /\ pc \in Pcs
    /\ results \in [Uris -> Reports]
    /\ seen \in SUBSET Uris
    /\ limit \in Nat
    /\ worst \in SUBSET Ids
    /\ first \in SUBSET [id : Ids, fails : Nat]
    /\ tested \in SUBSET Ids
    /\ adding \in [Admins -> SUBSET Uris]
    /\ streak \in [Ids -> Nat]
    /\ raced \in SUBSET Uris /\ found \in SUBSET Ids /\ grown \in SUBSET Ids
    /\ edits \in 0 .. MaxEdits

Nothing == [u \in Uris |-> NoLatency]

Init ==
    /\ pool = [i \in Ids |-> NoRow]
    /\ pc = "idle"
    /\ results = Nothing /\ seen = {} /\ limit = 0 /\ worst = {} /\ first = {} /\ tested = {}
    /\ adding = [a \in Admins |-> {}]
    /\ streak = [i \in Ids |-> 0]
    /\ raced = {} /\ found = {} /\ grown = {} /\ edits = 0

Finish ==
    /\ pc' = "idle"
    /\ results' = Nothing /\ seen' = {} /\ limit' = 0
    /\ worst' = {} /\ first' = {} /\ tested' = {}
    /\ found' = {} /\ grown' = {} /\ UNCHANGED edits

-------------------------------------------------------------------------------
(* ConfigImporter.import_discovered_configs.                               *)

Smaller(m, n) == IF m < n THEN m ELSE n
Room(n)       == IF n < MaxActive THEN MaxActive - n ELSE 0

(* The engine reports; the importer reads identities and free capacity.    *)
ReadPool ==
    /\ pc = "idle"
    /\ results' \in [Uris -> Reports] /\ results' # Nothing
    /\ seen' = ActiveUris /\ found' = Enabled
    /\ limit' = Smaller(MaxNew, Room(Cardinality(Enabled)))
    /\ pc' = "add"
    /\ UNCHANGED <<pool, worst, first, tested, adding, streak, raced, grown, edits>>

(* Mutant: known identities are not filtered out.                          *)
FreshUnfiltered == {u \in Uris : results[u] # NoLatency}
Fresh == {u \in Uris : results[u] # NoLatency /\ u \notin seen}

(* S are the fastest of the candidates C; the table orders ties.           *)
Fastest(S, C) == S \subseteq C /\ \A u \in S, v \in C \ S : results[u] <= results[v]

NewRow(u) == [status |-> "active", uri |-> u, enabled |-> TRUE, mode |-> "auto",
              latency |-> results[u], fails |-> 0]

(* The configs U are inserted under the next ids (AUTOINCREMENT).          *)
NextIds(n)   == {i \in Unused : Cardinality({j \in Unused : j < i}) < n}
Numbering(U) == {f \in [U -> NextIds(Cardinality(U))] : \A u, v \in U : f[u] = f[v] => u = v}
Inserted(p, U, f) ==
    [i \in Ids |-> IF \E u \in U : f[u] = i
                   THEN NewRow(CHOOSE u \in U : f[u] = i) ELSE p[i]]

Displaceable(p) == {i \in Ids : /\ p[i].status = "active" /\ p[i].enabled
                                /\ p[i].mode = "auto"}

(* Mutant: the displaced config is not retired.                            *)
RetiredNever(row) == row
Retired(row) == IF Policy = "delete" THEN [row EXCEPT !.status = "deleted"]
                ELSE [row EXCEPT !.enabled = FALSE]

(* In is swapped for Out: the fastest candidates for the slowest rows, as  *)
(* long as the next candidate beats the next row by the margin.            *)
Swap(In, Out, C, V, budget) ==
    /\ Fastest(In, C)
    /\ Out \subseteq DOMAIN V /\ \A i \in Out, j \in DOMAIN V \ Out : V[i] >= V[j]
    /\ Cardinality(In) = Cardinality(Out) /\ Cardinality(In) <= budget
    /\ \A u \in In, i \in Out : results[u] + MinImprovement < V[i]
    /\ \/ Cardinality(In) = budget
       \/ \A u \in C \ In, i \in DOMAIN V \ Out : results[u] + MinImprovement >= V[i]

(* What the replacement pass makes of table p, given the latencies V of    *)
(* the rows it may displace.                                               *)
Swapped(p, In, Out, f) ==
    Inserted([i \in Ids |-> IF i \in Out THEN Retired(p[i]) ELSE p[i]], In, f)

Budget(added) == IF ReplaceWhenFull THEN MaxNew - added ELSE 0

(* Something to add: the adding and the replacement pass are one           *)
(* transaction, in which the rows just added count as displaceable.        *)
AddNew ==
    /\ pc = "add" /\ limit > 0 /\ Fresh # {}
    /\ \E A, In \in SUBSET Fresh : \E f \in Numbering(A \cup In) :
         /\ Fastest(A, Fresh) /\ Cardinality(A) = Smaller(limit, Cardinality(Fresh))
         /\ LET p == Inserted(pool, A, f)
                V == [i \in Displaceable(p) |-> p[i].latency]
            IN \E Out \in SUBSET Displaceable(p) :
                 /\ Swap(In, Out, Fresh \ A, V, Budget(Cardinality(A)))
                 /\ pool' = Swapped(p, In, Out, f)
         /\ raced' = raced \cup ((A \cup In) \cap UNION {adding[a] : a \in Admins})
    /\ Finish
    /\ UNCHANGED <<adding, streak>>

(* Nothing to add: no transaction is open yet.                             *)
ReadWorst ==
    /\ pc = "add" /\ (limit = 0 \/ Fresh = {})
    /\ worst' = Displaceable(pool)
    /\ pc' = "swap"
    /\ UNCHANGED <<pool, results, seen, limit, first, tested, adding, streak, raced,
                   found, grown, edits>>

ReplaceWorst ==
    /\ pc = "swap"
    /\ LET V == [i \in worst |-> pool[i].latency]
       IN \E In \in SUBSET Fresh, Out \in SUBSET worst :
            /\ Swap(In, Out, Fresh, V, Budget(0))
            /\ \E f \in Numbering(In) : pool' = Swapped(pool, In, Out, f)
            /\ raced' = raced \cup (In \cap UNION {adding[a] : a \in Admins})
    /\ Finish
    /\ UNCHANGED <<adding, streak>>

-------------------------------------------------------------------------------
(* The health check and HealthManager.process_health_results.              *)

(* run_scan('health_check') reads what to probe, long before the results.  *)
ReadTargets ==
    /\ pc = "idle" /\ Enabled # {}
    /\ seen' = {pool[i].uri : i \in Enabled}
    /\ pc' = "probe"
    /\ UNCHANGED <<pool, results, limit, worst, first, tested, adding, streak, raced,
                   found, grown, edits>>

(* The row of a uri: the first active one with that text.                  *)
RowOf(u) == CHOOSE i \in Active : /\ pool[i].uri = u
                                  /\ \A j \in Active : pool[j].uri = u => i <= j

(* The engine reports some of the targets (all, unless its deadline        *)
(* passes); those whose row is gone are skipped, and the first row that is *)
(* still there is read.                                                    *)
ReadFirst ==
    /\ pc = "probe"
    /\ seen' \in SUBSET seen
    /\ \E r \in [seen' -> Reports] :
         results' = [u \in Uris |-> IF u \in seen' THEN r[u] ELSE NoLatency]
    /\ \E u \in seen' \cap ActiveUris :
         first' = {[id |-> RowOf(u), fails |-> pool[RowOf(u)].fails]}
    /\ pc' = "apply"
    /\ UNCHANGED <<pool, limit, worst, tested, adding, streak, raced,
                   found, grown, edits>>

(* Nothing was reported, or what was reported is gone.                     *)
NothingLeft ==
    /\ pc = "probe"
    /\ Finish
    /\ UNCHANGED <<pool, adding, streak, raced>>

(* Mutant: a success leaves the failure counter alone.                     *)
CheckedNoReset(row, fails, latency) ==
    IF latency # NoLatency
    THEN [row EXCEPT !.latency = latency]
    ELSE LET n == fails + 1
         IN [row EXCEPT !.fails = n,
                        !.enabled = n < Threshold \/ Policy # "disable",
                        !.status = IF n >= Threshold /\ Policy = "delete"
                                   THEN "deleted" ELSE "active"]

(* A row after a check, given the failure count that was read: a failure   *)
(* writes is_enabled and status whatever they have become.                 *)
Checked(row, fails, latency) ==
    IF latency # NoLatency
    THEN [row EXCEPT !.latency = latency, !.fails = 0]
    ELSE LET n == fails + 1
         IN [row EXCEPT !.fails = n,
                        !.enabled = n < Threshold \/ Policy # "disable",
                        !.status = IF n >= Threshold /\ Policy = "delete"
                                   THEN "deleted" ELSE "active"]

FirstIds == {r.id : r \in first}
Others   == {RowOf(u) : u \in (seen \cap ActiveUris) \ {pool[i].uri : i \in FirstIds}}

(* The first row is written as it was read; the others are read and        *)
(* written inside the transaction that write opened.                       *)
ApplyHealth ==
    /\ pc = "apply"
    /\ pool' = [i \in Ids |->
                  IF i \in FirstIds
                  THEN Checked(pool[i], (CHOOSE r \in first : r.id = i).fails,
                               results[pool[i].uri])
                  ELSE IF i \in Others
                  THEN Checked(pool[i], pool[i].fails, results[pool[i].uri])
                  ELSE pool[i]]
    /\ \A i \in Ids : pool'[i].fails <= MaxFails
    /\ streak' = [i \in Ids |->
                    IF i \notin FirstIds \cup Others THEN streak[i]
                    ELSE IF results[pool[i].uri] # NoLatency THEN 0 ELSE streak[i] + 1]
    /\ raced' = raced \cup {pool[i].uri : i \in FirstIds \ Active}
    /\ Finish
    /\ UNCHANGED adding

-------------------------------------------------------------------------------
(* run_manual_test, for any set of configs.                                *)
ReadTested(S) ==
    /\ pc = "idle" /\ S \cap Active # {}
    /\ tested' = S \cap Active
    /\ pc' = "test"
    /\ UNCHANGED <<pool, results, seen, limit, worst, first, adding, streak, raced,
                   found, grown, edits>>

(* A reading, not a pool mutation: a failure leaves no trace here.         *)
ApplyTest ==
    /\ pc = "test"
    /\ \E up \in SUBSET tested : \E lat \in [up -> Latencies] :
         /\ pool' = [i \in Ids |-> IF i \in up
                                   THEN [pool[i] EXCEPT !.latency = lat[i], !.fails = 0]
                                   ELSE pool[i]]
         /\ streak' = [i \in Ids |-> IF i \in up THEN 0 ELSE streak[i]]
    /\ Finish
    /\ UNCHANGED <<adding, raced>>

(* The engine fails, or a write does: everything is rolled back.           *)
ScanFails ==
    /\ pc # "idle"
    /\ Finish
    /\ UNCHANGED <<pool, adding, streak, raced>>

-------------------------------------------------------------------------------
(* Admins.                                                                 *)

Edit == edits < MaxEdits /\ edits' = edits + 1

(* What others than a are about to insert: an import, or other admins.     *)
Importing  == pc \in {"add", "swap"}
Awaited(a) == (IF Importing THEN Fresh ELSE {}) \cup UNION {adding[b] : b \in Admins \ {a}}

(* A running import does not see what is enabled now.                      *)
Grow == grown' = IF Importing THEN grown \cup (Enabled' \ (Enabled \cup found)) ELSE grown

(* add_configs looks for the identities of a pasted text, then inserts     *)
(* those that were new.                                                    *)
CheckDuplicate(a, T) ==
    /\ Edit /\ adding[a] = {} /\ T \ ActiveUris # {}
    /\ adding' = [adding EXCEPT ![a] = T \ ActiveUris]
    /\ UNCHANGED <<pool, pc, scan, streak, raced, grown>>

InsertConfig(a) ==
    /\ Edit /\ adding[a] # {}
    /\ \E f \in Numbering(adding[a]) :
         pool' = [i \in Ids |-> IF \E u \in adding[a] : f[u] = i
                                THEN [NoRow EXCEPT !.status = "active", !.enabled = TRUE,
                                                   !.uri = CHOOSE u \in adding[a] : f[u] = i]
                                ELSE pool[i]]
    /\ adding' = [adding EXCEPT ![a] = {}]
    /\ raced' = raced \cup (adding[a] \cap Awaited(a)) /\ Grow
    /\ UNCHANGED <<pc, scan, streak>>

SetEnabled(i, b) ==
    /\ Edit /\ pool[i].status # "absent"
    /\ pool' = [pool EXCEPT ![i].enabled = b] /\ Grow
    /\ UNCHANGED <<pc, scan, adding, streak, raced>>

DeleteConfigs(S) ==
    /\ Edit /\ S # {} /\ S \cap Unused = {}
    /\ pool' = [i \in Ids |-> IF i \in S THEN [pool[i] EXCEPT !.status = "deleted"] ELSE pool[i]]
    /\ UNCHANGED <<pc, scan, adding, streak, raced, grown>>

-------------------------------------------------------------------------------
Scan ==
    \/ ReadPool \/ AddNew \/ ReadWorst \/ ReplaceWorst
    \/ ReadTargets \/ ReadFirst \/ NothingLeft \/ ApplyHealth
    \/ (\E S \in SUBSET Ids : ReadTested(S)) \/ ApplyTest
    \/ ScanFails

Admin ==
    \/ \E a \in Admins : InsertConfig(a) \/ \E T \in SUBSET Uris : CheckDuplicate(a, T)
    \/ \E i \in Ids, b \in BOOLEAN : SetEnabled(i, b)
    \/ \E S \in SUBSET Ids : DeleteConfigs(S)

Next == Scan \/ Admin

Spec == Init /\ [][Next]_vars
-------------------------------------------------------------------------------
(* Properties.                                                             *)

ImportEnds == Importing /\ pc' = "idle"
HealthEnds == pc = "apply" /\ pc' = "idle"
NewIds    == {i \in Ids : pool[i].status = "absent" /\ pool'[i].status # "absent"}
GoneIds   == Enabled \ Enabled'

Larger(m, n) == IF m < n THEN n ELSE m

(* An import leaves no more configs enabled than max_active_configs, or    *)
(* than it found, and what others enabled while it ran, which it counted   *)
(* too early to see ("controls imports under capacity limits").            *)
CapacityKept ==
    [][ImportEnds => Cardinality(Enabled') <=
                        Larger(MaxActive, Cardinality(found)) + Cardinality(grown)]_vars

(* Replacement touches auto configs only, happens only in a full pool, and *)
(* every displaced config makes room for one that is faster by the margin. *)
SwapsPay ==
    [][ImportEnds =>
         /\ \A i \in GoneIds : pool[i].mode = "auto"
         /\ Cardinality(NewIds) <= MaxNew
         /\ GoneIds # {} => Cardinality(Enabled') >= MaxActive
         /\ \A i \in GoneIds :
              Cardinality({j \in NewIds : pool'[j].latency + MinImprovement < pool[i].latency})
                  >= Cardinality(GoneIds)]_vars

(* No two active rows are the same config ("Deduplicates healthy configs"),*)
(* but for one inserted while somebody else already held it to be new, or  *)
(* one whose row an admin removed while a health check was about to write  *)
(* it back as active.                                                      *)
NoDuplicates ==
    \A i, j \in Active : pool[i].uri = pool[j].uri => i = j \/ pool[i].uri \in raced

(* A health check disables or deletes a config only when its last          *)
(* Threshold checks failed in a row.                                       *)
RetiredAfterThreshold ==
    [][\A i \in Ids :
         /\ HealthEnds /\ pool[i].status = "active"
         /\ \/ pool[i].enabled /\ ~ pool'[i].enabled
            \/ pool'[i].status = "deleted"
         => streak'[i] >= Threshold]_vars

(* A health check only ever takes configs out of the pool ("handles        *)
(* cleanup logic (disable or delete) on failures"): what an admin disabled *)
(* stays disabled.                                                         *)
HealthNeverEnables ==
    [][HealthEnds => \A i \in Ids : pool[i].status = "active" /\ pool'[i].enabled
                                         => pool[i].enabled]_vars

(* A deleted config stays deleted ("Soft-delete a config").                *)
DeletedStays ==
    [][\A i \in Ids : pool[i].status = "deleted" => pool'[i].status = "deleted"]_vars
================================================================================
