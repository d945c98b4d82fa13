------------------------- MODULE UserLifecycle_proofs -------------------------
(***************************************************************************)
(* Proofs about UserLifecycle for any threads, networks, durations and     *)
(* clock.                                                                  *)
(*                                                                         *)
(* What is granted and what is left rest on Sound, a property of the row   *)
(* that every write keeps if it finds the row it has read: which it does   *)
(* as long as calls do not overlap (Fresh).  That a new device has a slot  *)
(* rests on what a request has counted being still so when it inserts      *)
(* (SlotKept).                                                             *)
(***************************************************************************)
EXTENDS UserLifecycle, FiniteSetTheorems, TLAPS

-------------------------------------------------------------------------------
(* Type correctness.                                                       *)

(* Goto, Return and Read keep the types of what they write.                *)
LEMMA GotoType ==
    ASSUME TypeOK, NEW t \in Threads, NEW p \in Pcs, Goto(t, p)
    PROVE  pc' \in [Threads -> Pcs] /\ overlapped' \in BOOLEAN
<1>1. pc' \in [Threads -> Pcs]
    BY DEF TypeOK, Goto
<1>2. overlapped' \in BOOLEAN
    BY DEF TypeOK, Goto
<1> QED
    BY <1>1, <1>2

LEMMA GoneType == Gone \in Rows
BY DEF Gone, NewUser, Rows, Times

LEMMA ReturnType ==
    ASSUME TypeOK, NEW t \in Threads, Return(t)
    PROVE  /\ pc' \in [Threads -> Pcs] /\ overlapped' \in BOOLEAN
           /\ read' \in [Threads -> Rows] /\ arg' \in [Threads -> Nat]
           /\ net' \in [Threads -> Nets \cup {NoNet}] /\ asOf' \in [Threads -> Nat]
<1>1. pc' \in [Threads -> Pcs] /\ overlapped' \in BOOLEAN
    BY GotoType DEF Return, Pcs
<1>2. read' \in [Threads -> Rows]
    BY GoneType DEF TypeOK, Return
<1>3. /\ arg' \in [Threads -> Nat] /\ asOf' \in [Threads -> Nat]
      /\ net' \in [Threads -> Nets \cup {NoNet}]
    BY DEF TypeOK, Return
<1> QED
    BY <1>1, <1>2, <1>3

LEMMA ReadType ==
    ASSUME TypeOK, NEW t \in Threads, NEW p \in Pcs, Read(t, p)
    PROVE  /\ pc' \in [Threads -> Pcs] /\ overlapped' \in BOOLEAN
           /\ read' \in [Threads -> Rows]
           /\ now' = now /\ user' = user /\ devices' = devices
<1>1. pc' \in [Threads -> Pcs] /\ overlapped' \in BOOLEAN
    BY GotoType DEF Read
<1>2. read' \in [Threads -> Rows]
    BY DEF TypeOK, Read
<1> QED
    BY <1>1, <1>2 DEF Read

(* The rows that the writes make.                                          *)
LEMMA NewUserType == \A d \in Nat : NewUser(d) \in Rows
BY DEF NewUser, Rows, Times

LEMMA ExtendedType ==
    ASSUME NEW u \in Rows, NEW d \in Nat, now \in Nat
    PROVE  Extended(u, d) \in Times
BY UserAssumption DEF Extended, Rows, Times, Activated

LEMMA RecomputedType ==
    ASSUME NEW u \in Rows, NEW d \in Nat, Activated(u),
           d = 0 \/ u.duration_days = 0 \/ u.expire_at # NoTime
    PROVE  Recomputed(u, d) \in Times
BY UserAssumption DEF Recomputed, Rows, Times, Activated

LEMMA ShiftType ==
    ASSUME NEW u \in Rows, now \in Nat, u.paused_at # NoTime, u.expire_at # NoTime
    PROVE  u.expire_at + (now - u.paused_at) \in Times
BY DEF Rows, Times

LEMMA TypeInit == Init => TypeOK
<1> SUFFICES ASSUME Init PROVE TypeOK
    OBVIOUS
<1>1. user \in Rows
    BY NewUserType, UserAssumption DEF Init
<1>2. devices \in [Nets -> Times]
    BY DEF Init, Times
<1>3. pc \in [Threads -> Pcs]
    BY DEF Init, Pcs
<1>4. read \in [Threads -> Rows]
    BY GoneType DEF Init
<1>5. /\ now \in Nat /\ arg \in [Threads -> Nat] /\ asOf \in [Threads -> Nat]
      /\ net \in [Threads -> Nets \cup {NoNet}] /\ overlapped \in BOOLEAN
    BY DEF Init
<1> QED
    BY <1>1, <1>2, <1>3, <1>4, <1>5 DEF TypeOK

(* Every action writes a well-typed row.                                   *)
LEMMA UserType == TypeOK /\ [Next]_vars => user' \in Rows
<1> SUFFICES ASSUME TypeOK, [Next]_vars PROVE user' \in Rows
    OBVIOUS
<1> USE UserAssumption
<1>0. user \in Rows /\ now \in Nat
    BY DEF TypeOK
<1>1. ASSUME NEW t \in Threads, WriteEdit(t) PROVE user' \in Rows
    <2> DEFINE u == read[t]
               d == arg[t]
               shift == /\ Activated(u) /\ d # u.duration_days
                        /\ d = 0 \/ u.duration_days = 0 \/ u.expire_at # NoTime
    <2>1. u \in Rows /\ d \in Nat
        BY DEF TypeOK
    <2>2. shift => Recomputed(u, d) \in Times
        BY <2>1, RecomputedType
    <2>3. user.expire_at \in Times
        BY <1>0 DEF Rows
    <2>4. user' = IF ~ Exists THEN user
                  ELSE [user EXCEPT !.duration_days = d,
                                    !.expire_at = IF shift THEN Recomputed(u, d) ELSE @]
        BY <1>1 DEF WriteEdit
    <2> HIDE DEF shift, u, d
    <2> QED
        BY <1>0, <2>1, <2>2, <2>3, <2>4 DEF Rows
<1>2. ASSUME NEW t \in Threads, NEW d \in Days, Extend(t, d) PROVE user' \in Rows
    <2>1. d \in Nat /\ Extended(user, d) \in Times
        BY <1>0, ExtendedType
    <2>2. user.duration_days + d \in Nat
        BY <1>0, <2>1 DEF Rows
    <2>3. user' = [user EXCEPT !.duration_days = @ + d, !.expire_at = Extended(user, d)]
        BY <1>2 DEF Extend
    <2> QED
        BY <1>0, <2>1, <2>2, <2>3 DEF Rows
<1>3. ASSUME NEW t \in Threads, WritePause(t) PROVE user' \in Rows
    <2>1. now \in Times
        BY <1>0 DEF Times
    <2>2. user' = user \/ user' = [user EXCEPT !.status = "PAUSED", !.paused_at = now]
        BY <1>3 DEF WritePause
    <2> QED
        BY <1>0, <2>1, <2>2 DEF Rows
<1>4. ASSUME NEW t \in Threads, WriteResume(t) PROVE user' \in Rows
    <2> DEFINE u == read[t]
               shift == Activated(u) /\ u.paused_at # NoTime /\ u.expire_at # NoTime
    <2>1. u \in Rows
        BY DEF TypeOK
    <2>2. shift => u.expire_at + (now - u.paused_at) \in Times
        BY <1>0, <2>1, ShiftType
    <2>3. user' = IF ~ Exists THEN user
                  ELSE [user EXCEPT !.status = "ACTIVE", !.paused_at = NoTime,
                          !.expire_at = IF shift THEN u.expire_at + (now - u.paused_at) ELSE @]
        BY <1>4 DEF WriteResume
    <2>4. NoTime \in Times /\ user.expire_at \in Times
        BY <1>0 DEF Rows, Times
    <2> HIDE DEF shift, u
    <2> QED
        BY <1>0, <2>2, <2>3, <2>4 DEF Rows
<1>5. ASSUME NEW t \in Threads, Reset(t) PROVE user' \in Rows
    BY <1>0, <1>5, NewUserType DEF Reset, Rows
<1>6. ASSUME NEW t \in Threads, Delete(t) PROVE user' \in Rows
    BY <1>6, GoneType DEF Delete
<1>7. ASSUME NEW t \in Threads, NEW e \in BOOLEAN, SetEnabled(t, e) PROVE user' \in Rows
    BY <1>0, <1>7 DEF SetEnabled, Rows, Times
<1>8. ASSUME NEW t \in Threads, Activate(t) PROVE user' \in Rows
    <2>1. read[t].duration_days \in Nat
        BY DEF TypeOK, Rows
    <2> DEFINE e == IF read[t].duration_days = 0 THEN NoTime ELSE now + read[t].duration_days
    <2>2. e \in Times /\ now \in Times
        BY <1>0, <2>1 DEF Times
    <2>3. user' = IF Exists /\ ~ Activated(user)
                  THEN [user EXCEPT !.activated_at = now, !.expire_at = e] ELSE user
        BY <1>8 DEF Activate
    <2> HIDE DEF e
    <2> QED
        BY <1>0, <2>2, <2>3 DEF Rows
<1>9. CASE UNCHANGED user
    BY <1>0, <1>9
<1> QED
    BY <1>1, <1>2, <1>3, <1>4, <1>5, <1>6, <1>7, <1>8, <1>9
    DEF Next, vars, ReadEdit, ReadPause, ReadResume, Read, ForgetDevices, Hit, Reread, LookUp,
        Refresh, Count, Register, Prune, Tick

(* And a well-typed device table, and threads.                             *)
LEMMA RestType ==
    TypeOK /\ [Next]_vars =>
        /\ now' \in Nat /\ devices' \in [Nets -> Times] /\ pc' \in [Threads -> Pcs]
        /\ read' \in [Threads -> Rows] /\ arg' \in [Threads -> Nat]
        /\ net' \in [Threads -> Nets \cup {NoNet}] /\ overlapped' \in BOOLEAN
        /\ asOf' \in [Threads -> Nat]
<1> DEFINE Thread == /\ pc' \in [Threads -> Pcs] /\ overlapped' \in BOOLEAN
                     /\ read' \in [Threads -> Rows] /\ arg' \in [Threads -> Nat]
                     /\ net' \in [Threads -> Nets \cup {NoNet}] /\ asOf' \in [Threads -> Nat]
           Others == now' \in Nat /\ devices' \in [Nets -> Times]
<1> SUFFICES ASSUME TypeOK, [Next]_vars PROVE Thread /\ Others
    OBVIOUS
<1>0. /\ pc \in [Threads -> Pcs] /\ overlapped \in BOOLEAN
      /\ read \in [Threads -> Rows] /\ arg \in [Threads -> Nat]
      /\ net \in [Threads -> Nets \cup {NoNet}] /\ asOf \in [Threads -> Nat]
      /\ now \in Nat /\ devices \in [Nets -> Times] /\ user \in Rows
    BY DEF TypeOK
<1>a. now \in Times /\ NoTime \in Times /\ \A t \in Threads : asOf[t] \in Times
    BY <1>0 DEF Times
<1>1. ASSUME NEW t \in Threads, NEW d \in Days, ReadEdit(t, d) PROVE Thread /\ Others
    <2>1. Read(t, "edit") /\ "edit" \in Pcs
        BY <1>1 DEF ReadEdit, Pcs
    <2>2. d \in Nat /\ arg' = [arg EXCEPT ![t] = d] /\ net' = net /\ asOf' = asOf
        BY <1>1, UserAssumption DEF ReadEdit
    <2> QED
        BY <1>0, <2>1, <2>2, ReadType
<1>2. ASSUME NEW t \in Threads, WriteEdit(t) \/ WritePause(t) \/ WriteResume(t)
      PROVE  Thread /\ Others
    BY <1>0, <1>2, ReturnType DEF WriteEdit, WritePause, WriteResume
<1>3. ASSUME NEW t \in Threads, NEW p \in Pcs, Goto(t, p), UNCHANGED <<read, arg, net, asOf>>
      PROVE  Thread
    BY <1>0, <1>3, GotoType
<1>4. "free" \in Pcs /\ "pause" \in Pcs /\ "resume" \in Pcs /\ "activate" \in Pcs
      /\ "reread" \in Pcs /\ "lookup" \in Pcs /\ "refresh" \in Pcs /\ "count" \in Pcs
      /\ "register" \in Pcs
    BY DEF Pcs
<1>5. ASSUME NEW t \in Threads, NEW d \in Days, Extend(t, d) PROVE Thread /\ Others
    BY <1>0, <1>3, <1>4, <1>5 DEF Extend
<1>6. ASSUME NEW t \in Threads, ReadPause(t) \/ ReadResume(t) PROVE Thread /\ Others
    BY <1>0, <1>4, <1>6, ReadType DEF ReadPause, ReadResume
<1>7. ASSUME NEW t \in Threads, Reset(t) \/ Delete(t) PROVE Thread /\ Others
    BY <1>0, <1>a, <1>3, <1>4, <1>7 DEF Reset, Delete
<1>8. ASSUME NEW t \in Threads, NEW e \in BOOLEAN, SetEnabled(t, e) PROVE Thread /\ Others
    BY <1>0, <1>3, <1>4, <1>8 DEF SetEnabled
<1>9. ASSUME NEW t \in Threads, NEW S \in SUBSET Nets, ForgetDevices(t, S)
      PROVE  Thread /\ Others
    BY <1>0, <1>a, <1>3, <1>4, <1>9 DEF ForgetDevices
<1>10. ASSUME NEW t \in Threads, NEW n \in Nets \cup {NoNet}, Hit(t, n)
       PROVE  Thread /\ Others
    <2>1. CASE Activated(user)
        BY <1>0, <1>4, <1>10, <2>1, ReadType DEF Hit
    <2>2. CASE ~ Activated(user)
        BY <1>0, <1>4, <1>10, <2>2, ReadType DEF Hit
    <2> QED
        BY <2>1, <2>2
<1>11. ASSUME NEW t \in Threads, Activate(t) PROVE Thread /\ Others
    BY <1>0, <1>3, <1>4, <1>11 DEF Activate
<1>12. ASSUME NEW t \in Threads, Reread(t) PROVE Thread /\ Others
    <2>1. CASE Exists
        BY <1>0, <1>4, <1>12, <2>1, GotoType DEF Reread
    <2>2. CASE ~ Exists
        BY <1>0, <1>12, <2>2, ReturnType DEF Reread
    <2> QED
        BY <2>1, <2>2
<1>13. ASSUME NEW t \in Threads, LookUp(t) PROVE Thread /\ Others
    <2>1. CASE Return(t)
        BY <1>0, <1>13, <2>1, ReturnType DEF LookUp
    <2>2. CASE ~ Return(t)
        <3>1. /\ \E p \in Pcs : Goto(t, p)
              /\ asOf' = [asOf EXCEPT ![t] = now]
              /\ UNCHANGED <<now, devices, read, arg, net>>
            BY <1>4, <1>13, <2>2 DEF LookUp
        <3> QED
            BY <1>0, <3>1, GotoType
    <2> QED
        BY <2>1, <2>2
<1>14. ASSUME NEW t \in Threads, Refresh(t) \/ Register(t) PROVE Thread /\ Others
    <2>1. net[t] \in Nets => [devices EXCEPT ![net[t]] = IF @ = NoTime THEN @ ELSE asOf[t]]
                                 \in [Nets -> Times]
        BY <1>0, <1>a
    <2>2. devices' \in [Nets -> Times]
        BY <1>0, <1>a, <1>14 DEF Refresh, Register
    <2> QED
        BY <1>0, <1>14, <2>2, ReturnType DEF Refresh, Register
<1>15. ASSUME NEW t \in Threads, Count(t) PROVE Thread /\ Others
    <2>1. CASE Return(t)
        BY <1>0, <1>15, <2>1, ReturnType DEF Count
    <2>2. CASE ~ Return(t)
        BY <1>0, <1>3, <1>4, <1>15, <2>2 DEF Count
    <2> QED
        BY <2>1, <2>2
<1>16. CASE Prune
    BY <1>0, <1>a, <1>16 DEF Prune
<1>17. CASE Tick
    BY <1>0, <1>17 DEF Tick
<1>18. CASE UNCHANGED vars
    BY <1>0, <1>18 DEF vars
<1>19. {Nets} \cup {{n} : n \in Nets} \subseteq SUBSET Nets
    OBVIOUS
<1> HIDE DEF Thread, Others
<1> QED
    BY <1>1, <1>2, <1>5, <1>6, <1>7, <1>8, <1>9, <1>10, <1>11, <1>12, <1>13, <1>14, <1>15,
       <1>16, <1>17, <1>18, <1>19 DEF Next

(* Every reachable row, device table and call in progress is well typed,   *)
(* whichever requests and admin calls overlap.                             *)
THEOREM TypeCorrect == Spec => []TypeOK
<1>1. TypeOK /\ [Next]_vars => TypeOK'
    BY UserType, RestType DEF TypeOK
<1> QED
    BY <1>1, TypeInit, PTL DEF Spec

-------------------------------------------------------------------------------
(* The first request.                                                      *)

(* However many first requests race, the clock starts once: no other write *)
(* touches activated_at except to clear it.                                *)
THEOREM OneStart == Spec => ActivatedOnce
<1>1. ASSUME TypeOK, [Next]_vars, Activated(user)
      PROVE  user'.activated_at \in {user.activated_at, NoTime}
    <2>0. user \in Rows
        BY <1>1 DEF TypeOK
    <2>1. ASSUME NEW t \in Threads, WriteEdit(t) \/ WritePause(t) \/ WriteResume(t)
          PROVE  user'.activated_at = user.activated_at
        BY <2>0, <2>1 DEF WriteEdit, WritePause, WriteResume, Rows
    <2>2. ASSUME NEW t \in Threads, NEW d \in Days, Extend(t, d)
          PROVE  user'.activated_at = user.activated_at
        BY <2>0, <2>2 DEF Extend, Rows
    <2>3. ASSUME NEW t \in Threads, Reset(t) \/ Delete(t)
          PROVE  user'.activated_at = NoTime
        BY <2>3 DEF Reset, Delete, Gone, NewUser
    <2>4. ASSUME NEW t \in Threads, NEW e \in BOOLEAN, SetEnabled(t, e)
          PROVE  user'.activated_at = user.activated_at
        BY <2>0, <2>4 DEF SetEnabled, Rows
    <2>5. ASSUME NEW t \in Threads, Activate(t)
          PROVE  user' = user
        BY <1>1, <2>5 DEF Activate
    <2> QED
        BY <1>1, <2>1, <2>2, <2>3, <2>4, <2>5
        DEF Next, vars, ReadEdit, ReadPause, ReadResume, Read, ForgetDevices, Hit, Reread,
            LookUp, Refresh, Count, Register, Prune, Tick
<1> QED
    BY <1>1, TypeCorrect, PTL DEF Spec, ActivatedOnce

-------------------------------------------------------------------------------
(* The days granted and the days left, as long as calls do not overlap.    *)

Sound(u, at) ==
    /\ u.status = "PAUSED" => u.paused_at # NoTime /\ u.paused_at <= at
    /\ Activated(u) =>
        /\ u.activated_at <= at
        /\ u.status = "PAUSED" => u.activated_at <= u.paused_at
        /\ u.duration_days = 0 => u.expire_at = NoTime
        /\ u.duration_days # 0 =>
            /\ u.expire_at # NoTime
            /\ u.expire_at >= u.activated_at + u.duration_days
            /\ Left(u, at) <= u.duration_days

(* A thread about to write has read the row as it is; one at a time runs.  *)
Fresh ==
    /\ \A s, t \in Threads : pc[s] # "free" /\ pc[t] # "free" => s = t
    /\ \A t \in Threads : pc[t] \in {"edit", "pause", "resume", "activate"} => read[t] = user
    /\ \A t \in Threads : pc[t] = "activate" => user.status = "ACTIVE" /\ ~ Activated(user)
    /\ \A t \in Threads : pc[t] = "pause" => user.status = "ACTIVE"
    /\ \A t \in Threads : pc[t] = "resume" => user.status = "PAUSED"

Granted == ~ overlapped => Fresh /\ Sound(user, now)

(* The types of a row, one field at a time.                                *)
LEMMA RowFields ==
    ASSUME NEW u \in Rows
    PROVE  /\ u.duration_days \in Nat
           /\ u.activated_at # NoTime => u.activated_at \in Int
           /\ u.expire_at # NoTime => u.expire_at \in Int
           /\ u.paused_at # NoTime => u.paused_at \in Int
BY DEF Rows, Times

(* Writes of a sound row leave it sound.                                   *)
LEMMA NewSound == \A d \in Nat, at \in Nat : Sound(NewUser(d), at)
BY DEF Sound, NewUser, Activated

LEMMA TickSound ==
    ASSUME NEW u \in Rows, NEW at \in Nat, Sound(u, at)
    PROVE  Sound(u, at + 1)
BY RowFields DEF Sound, Activated, Left

LEMMA EditSound ==
    ASSUME NEW u \in Rows, now \in Nat, Sound(u, now), NEW d \in Nat, NEW v \in Rows,
           LET shift == /\ Activated(u) /\ d # u.duration_days
                        /\ d = 0 \/ u.duration_days = 0 \/ u.expire_at # NoTime
           IN v = [u EXCEPT !.duration_days = d,
                            !.expire_at = IF shift THEN Recomputed(u, d) ELSE @]
    PROVE  Sound(v, now)
<1>1. /\ v.status = u.status /\ v.activated_at = u.activated_at /\ v.paused_at = u.paused_at
      /\ v.duration_days = d
    BY DEF Rows
<1>2. CASE ~ Activated(u)
    BY <1>1, <1>2 DEF Sound, Activated
<1>3. CASE Activated(u) /\ d = u.duration_days
    <2>1. v.expire_at = u.expire_at
        BY <1>3 DEF Rows
    <2> QED
        BY <1>1, <1>3, <2>1 DEF Sound, Activated, Left
<1>4. CASE Activated(u) /\ d # u.duration_days /\ d = 0
    <2>1. v.expire_at = NoTime
        BY <1>4 DEF Rows, Recomputed
    <2> QED
        BY <1>1, <1>4, <2>1 DEF Sound, Activated
<1>5. CASE Activated(u) /\ d # 0 /\ u.duration_days = 0
    <2>1. v.expire_at = u.activated_at + d
        BY <1>5 DEF Rows, Recomputed
    <2>2. u.activated_at \in Int /\ v.expire_at \in Int
        BY <1>5, <2>1, RowFields DEF Activated
    <2>3. v.expire_at # NoTime
        BY <2>2, UserAssumption
    <2> QED
        BY <1>1, <1>5, <2>1, <2>2, <2>3, RowFields DEF Sound, Activated, Left
<1>6. CASE Activated(u) /\ d # u.duration_days /\ d # 0 /\ u.duration_days # 0
    <2>1. u.expire_at # NoTime
        BY <1>6 DEF Sound
    <2>2. v.expire_at = u.expire_at + (d - u.duration_days)
        BY <1>6, <2>1 DEF Rows, Recomputed
    <2>3. u.expire_at \in Int /\ u.activated_at \in Int /\ u.duration_days \in Nat
        BY <1>6, <2>1, RowFields DEF Activated
    <2>4. v.expire_at # NoTime
        BY <2>2, <2>3, UserAssumption
    <2> QED
        BY <1>1, <1>6, <2>1, <2>2, <2>3, <2>4, RowFields DEF Sound, Activated, Left
<1> QED
    BY <1>2, <1>3, <1>4, <1>5, <1>6

LEMMA ExtendSound ==
    ASSUME NEW u \in Rows, now \in Nat, Sound(u, now), NEW d \in Nat \ {0},
           u.duration_days # 0, NEW v \in Rows,
           v = [u EXCEPT !.duration_days = @ + d, !.expire_at = Extended(u, d)]
    PROVE  Sound(v, now)
<1>1. /\ v.status = u.status /\ v.activated_at = u.activated_at /\ v.paused_at = u.paused_at
      /\ v.duration_days = u.duration_days + d /\ v.expire_at = Extended(u, d)
    BY DEF Rows
<1>2. CASE ~ Activated(u)
    BY <1>1, <1>2 DEF Sound, Activated
<1>3. CASE Activated(u)
    <2>1. u.expire_at # NoTime
        BY <1>3 DEF Sound
    <2>2. u.expire_at \in Int /\ u.activated_at \in Int /\ u.duration_days \in Nat
        BY <1>3, <2>1, RowFields DEF Activated
    <2>3. v.expire_at = IF u.status = "PAUSED" \/ u.expire_at >= now THEN u.expire_at + d
                        ELSE now + d
        BY <1>1, <1>3, <2>1 DEF Extended
    <2>4. v.expire_at # NoTime
        BY <2>2, <2>3, UserAssumption
    <2>5. CASE u.status = "PAUSED"
        <3>1. u.paused_at \in Int
            BY <2>5, RowFields DEF Sound
        <3> QED
            BY <1>1, <1>3, <2>2, <2>3, <2>4, <2>5, <3>1 DEF Sound, Activated, Left
    <2>6. CASE u.status # "PAUSED"
        BY <1>1, <1>3, <2>2, <2>3, <2>4, <2>6 DEF Sound, Activated, Left
    <2> QED
        BY <2>5, <2>6
<1> QED
    BY <1>2, <1>3

LEMMA PauseSound ==
    ASSUME NEW u \in Rows, now \in Nat, Sound(u, now), u.status = "ACTIVE", NEW v \in Rows,
           v = [u EXCEPT !.status = "PAUSED", !.paused_at = now]
    PROVE  Sound(v, now)
<1>1. /\ v.status = "PAUSED" /\ v.activated_at = u.activated_at /\ v.paused_at = now
      /\ v.duration_days = u.duration_days /\ v.expire_at = u.expire_at
    BY DEF Rows
<1>2. now # NoTime
    BY UserAssumption
<1> QED
    BY <1>1, <1>2 DEF Sound, Activated, Left

LEMMA ResumeSound ==
    ASSUME NEW u \in Rows, now \in Nat, Sound(u, now), u.status = "PAUSED", NEW v \in Rows,
           LET shift == Activated(u) /\ u.paused_at # NoTime /\ u.expire_at # NoTime
           IN v = [u EXCEPT !.status = "ACTIVE", !.paused_at = NoTime,
                      !.expire_at = IF shift THEN u.expire_at + (now - u.paused_at) ELSE @]
    PROVE  Sound(v, now)
<1>1. /\ v.status = "ACTIVE" /\ v.activated_at = u.activated_at
      /\ v.duration_days = u.duration_days
    BY DEF Rows
<1>2. CASE ~ Activated(u)
    BY <1>1, <1>2 DEF Sound, Activated
<1>3. CASE Activated(u) /\ u.duration_days = 0
    <2>1. v.expire_at = u.expire_at /\ u.expire_at = NoTime
        BY <1>3 DEF Sound, Rows
    <2> QED
        BY <1>1, <1>3, <2>1 DEF Sound, Activated
<1>4. CASE Activated(u) /\ u.duration_days # 0
    <2>1. u.paused_at # NoTime /\ u.expire_at # NoTime
        BY <1>4 DEF Sound
    <2>2. v.expire_at = u.expire_at + (now - u.paused_at)
        BY <1>4, <2>1 DEF Rows
    <2>3. u.expire_at \in Int /\ u.activated_at \in Int /\ u.paused_at \in Int
          /\ u.duration_days \in Nat
        BY <1>4, <2>1, RowFields DEF Activated
    <2>4. v.expire_at # NoTime
        BY <2>2, <2>3, UserAssumption
    <2> QED
        BY <1>1, <1>4, <2>2, <2>3, <2>4 DEF Sound, Activated, Left
<1> QED
    BY <1>2, <1>3, <1>4

LEMMA EnabledSound ==
    ASSUME NEW u \in Rows, now \in Nat, Sound(u, now), NEW v \in Rows,
           \/ v = [u EXCEPT !.status = "ACTIVE", !.paused_at = NoTime]
           \/ v = [u EXCEPT !.status = "DISABLED"]
    PROVE  Sound(v, now)
<1>1. /\ v.status # "PAUSED" /\ v.activated_at = u.activated_at
      /\ v.duration_days = u.duration_days /\ v.expire_at = u.expire_at
    BY DEF Rows
<1>2. CASE u.status = "PAUSED" /\ Activated(u) /\ u.duration_days # 0
    <2>1. u.paused_at \in Int /\ u.expire_at \in Int /\ u.paused_at <= now
        BY <1>2, RowFields DEF Sound
    <2> QED
        BY <1>1, <1>2, <2>1, RowFields DEF Sound, Activated, Left
<1>3. CASE ~ (u.status = "PAUSED" /\ Activated(u) /\ u.duration_days # 0)
    BY <1>1, <1>3 DEF Sound, Activated, Left
<1> QED
    BY <1>2, <1>3

LEMMA ActivateSound ==
    ASSUME NEW u \in Rows, now \in Nat, u.status = "ACTIVE", NEW v \in Rows,
           v = [u EXCEPT !.activated_at = now,
                  !.expire_at = IF u.duration_days = 0 THEN NoTime ELSE now + u.duration_days]
    PROVE  Sound(v, now)
<1>1. /\ v.status = "ACTIVE" /\ v.activated_at = now /\ v.duration_days = u.duration_days
      /\ v.expire_at = IF u.duration_days = 0 THEN NoTime ELSE now + u.duration_days
    BY DEF Rows
<1>2. u.duration_days \in Nat
    BY RowFields
<1>3. u.duration_days # 0 => v.expire_at # NoTime
    BY <1>1, <1>2, UserAssumption
<1> QED
    BY <1>1, <1>2, <1>3 DEF Sound, Activated, Left

(* If no calls overlap, the thread that moves is the only one in a call.   *)
LEMMA Alone ==
    ASSUME TypeOK, NEW t \in Threads, NEW p \in Pcs, Goto(t, p), ~ overlapped'
    PROVE  /\ ~ overlapped
           /\ \A s \in Threads \ {t} : pc[s] = "free" /\ pc'[s] = "free"
           /\ pc'[t] = p
BY DEF TypeOK, Goto

LEMMA GotoFresh ==
    ASSUME TypeOK, NEW t \in Threads, NEW p \in Pcs, Goto(t, p), ~ overlapped',
           p \in {"edit", "pause", "resume", "activate"} => read'[t] = user',
           p = "activate" => user'.status = "ACTIVE" /\ ~ Activated(user)',
           p = "pause" => user'.status = "ACTIVE",
           p = "resume" => user'.status = "PAUSED"
    PROVE  Fresh'
<1>1. /\ \A s \in Threads \ {t} : pc'[s] = "free"
      /\ pc'[t] = p
    BY Alone
<1> QED
    BY <1>1 DEF Fresh, Activated

(* A call that does not overlap finds and leaves a sound row.              *)
LEMMA GrantedStep ==
    ASSUME TypeOK, TypeOK', Granted, [Next]_vars
    PROVE  Granted'
<1> SUFFICES ASSUME ~ overlapped' PROVE Fresh' /\ Sound(user, now)'
    BY DEF Granted
<1>0. user \in Rows /\ user' \in Rows /\ now \in Nat /\ Days \subseteq Nat
    BY UserAssumption DEF TypeOK
<1>a. /\ "free" \in Pcs /\ "edit" \in Pcs /\ "pause" \in Pcs /\ "resume" \in Pcs
      /\ "activate" \in Pcs /\ "reread" \in Pcs /\ "lookup" \in Pcs /\ "refresh" \in Pcs
      /\ "count" \in Pcs /\ "register" \in Pcs
    BY DEF Pcs
<1>b. ASSUME NEW t \in Threads, NEW p \in Pcs, Goto(t, p)
      PROVE  Fresh /\ Sound(user, now) /\ ~ overlapped
    BY <1>b, Alone DEF Granted
<1>c. ASSUME NEW t \in Threads, Goto(t, "free")
      PROVE  Fresh'
    BY <1>a, <1>c, GotoFresh
<1>d. ASSUME now' = now, Sound(user', now)
      PROVE  Sound(user, now)'
    BY <1>d DEF Sound, Activated, Left
<1>1. ASSUME NEW t \in Threads, NEW p \in {"edit", "pause", "resume"}, Read(t, p),
             p = "pause" => user.status = "ACTIVE", p = "resume" => user.status = "PAUSED"
      PROVE  Fresh' /\ Sound(user, now)'
    <2>1. Goto(t, p) /\ p \in Pcs /\ read'[t] = user /\ user' = user /\ now' = now
        BY <1>1, <1>a DEF Read, TypeOK
    <2>2. Fresh'
        BY <1>1, <2>1, GotoFresh
    <2> QED
        BY <1>b, <1>d, <2>1, <2>2
<1>2. ASSUME NEW t \in Threads, WriteEdit(t) PROVE Fresh' /\ Sound(user, now)'
    <2> DEFINE d == arg[t]
               shift == /\ Activated(user) /\ d # user.duration_days
                        /\ d = 0 \/ user.duration_days = 0 \/ user.expire_at # NoTime
    <2>1. Goto(t, "free") /\ now' = now /\ d \in Nat
        BY <1>2 DEF WriteEdit, Return, TypeOK
    <2>2. Sound(user, now) /\ read[t] = user
        BY <1>2, <1>a, <1>b, <2>1 DEF Fresh, WriteEdit
    <2>3. \/ user' = user
          \/ user' = [user EXCEPT !.duration_days = d,
                                  !.expire_at = IF shift THEN Recomputed(user, d) ELSE @]
        BY <1>2, <2>2 DEF WriteEdit
    <2>4. Sound(user', now)
        BY <1>0, <2>1, <2>2, <2>3, EditSound
    <2> QED
        BY <1>c, <1>d, <2>1, <2>4
<1>3. ASSUME NEW t \in Threads, NEW d \in Days, Extend(t, d) PROVE Fresh' /\ Sound(user, now)'
    <2>1. /\ Goto(t, "free") /\ now' = now /\ d \in Nat \ {0} /\ user.duration_days # 0
          /\ user' = [user EXCEPT !.duration_days = @ + d, !.expire_at = Extended(user, d)]
        BY <1>0, <1>3 DEF Extend
    <2>2. Sound(user', now)
        BY <1>0, <1>a, <1>b, <2>1, ExtendSound
    <2> QED
        BY <1>c, <1>d, <2>1, <2>2
<1>4. ASSUME NEW t \in Threads, WritePause(t) PROVE Fresh' /\ Sound(user, now)'
    <2>1. Goto(t, "free") /\ now' = now /\ pc[t] = "pause"
        BY <1>4 DEF WritePause, Return
    <2>2. Sound(user, now) /\ user.status = "ACTIVE"
        BY <1>a, <1>b, <2>1 DEF Fresh
    <2>3. user' = user \/ user' = [user EXCEPT !.status = "PAUSED", !.paused_at = now]
        BY <1>4 DEF WritePause
    <2>4. Sound(user', now)
        BY <1>0, <2>2, <2>3, PauseSound
    <2> QED
        BY <1>c, <1>d, <2>1, <2>4
<1>5. ASSUME NEW t \in Threads, WriteResume(t) PROVE Fresh' /\ Sound(user, now)'
    <2> DEFINE shift == Activated(user) /\ user.paused_at # NoTime /\ user.expire_at # NoTime
    <2>1. Goto(t, "free") /\ now' = now /\ pc[t] = "resume"
        BY <1>5 DEF WriteResume, Return
    <2>2. Sound(user, now) /\ user.status = "PAUSED" /\ read[t] = user
        BY <1>a, <1>b, <2>1 DEF Fresh
    <2>3. \/ user' = user
          \/ user' = [user EXCEPT !.status = "ACTIVE", !.paused_at = NoTime,
                        !.expire_at = IF shift THEN user.expire_at + (now - user.paused_at)
                                      ELSE @]
        BY <1>5, <2>2 DEF WriteResume
    <2>4. Sound(user', now)
        BY <1>0, <2>2, <2>3, ResumeSound
    <2> QED
        BY <1>c, <1>d, <2>1, <2>4
<1>6. ASSUME NEW t \in Threads, Reset(t) \/ Delete(t) PROVE Fresh' /\ Sound(user, now)'
    <2>1. Goto(t, "free") /\ now' = now
        BY <1>6 DEF Reset, Delete
    <2>2. \E d \in Nat : user' = NewUser(d) \/ user' = [NewUser(d) EXCEPT !.status = "gone"]
        BY <1>0, <1>6, RowFields DEF Reset, Delete, Gone
    <2>3. Sound(user', now)
        BY <2>2 DEF Sound, NewUser, Activated
    <2> QED
        BY <1>c, <1>d, <2>1, <2>3
<1>7. ASSUME NEW t \in Threads, NEW e \in BOOLEAN, SetEnabled(t, e)
      PROVE  Fresh' /\ Sound(user, now)'
    <2>1. Goto(t, "free") /\ now' = now
        BY <1>7 DEF SetEnabled
    <2>2. \/ user' = [user EXCEPT !.status = "ACTIVE", !.paused_at = NoTime]
          \/ user' = [user EXCEPT !.status = "DISABLED"]
        BY <1>7 DEF SetEnabled
    <2>3. Sound(user', now)
        BY <1>0, <1>a, <1>b, <2>1, <2>2, EnabledSound
    <2> QED
        BY <1>c, <1>d, <2>1, <2>3
<1>8. ASSUME NEW t \in Threads, NEW p \in Pcs, Goto(t, p), UNCHANGED <<now, user>>,
             p \notin {"edit", "pause", "resume", "activate"}
      PROVE  Fresh' /\ Sound(user, now)'
    <2>1. Fresh'
        BY <1>8, GotoFresh
    <2> QED
        BY <1>8, <1>b, <1>d, <2>1
<1>9. ASSUME NEW t \in Threads, NEW n \in Nets \cup {NoNet}, Hit(t, n)
      PROVE  Fresh' /\ Sound(user, now)'
    <2>1. /\ Goto(t, IF Activated(user) THEN "lookup" ELSE "activate")
          /\ read'[t] = user /\ user' = user /\ now' = now /\ user.status = "ACTIVE"
        BY <1>9 DEF Hit, Read, TypeOK
    <2>2. CASE Activated(user)
        BY <1>a, <1>8, <2>1, <2>2
    <2>3. CASE ~ Activated(user)
        <3>1. Goto(t, "activate") /\ ~ Activated(user)'
            BY <2>1, <2>3 DEF Activated
        <3>2. Fresh'
            BY <1>a, <2>1, <3>1, GotoFresh
        <3> QED
            BY <1>a, <1>b, <1>d, <2>1, <3>1, <3>2
    <2> QED
        BY <2>2, <2>3
<1>10. ASSUME NEW t \in Threads, Activate(t) PROVE Fresh' /\ Sound(user, now)'
    <2>1. Goto(t, "reread") /\ now' = now /\ pc[t] = "activate"
        BY <1>10 DEF Activate
    <2>2. Sound(user, now) /\ user.status = "ACTIVE" /\ read[t] = user
        BY <1>a, <1>b, <2>1 DEF Fresh
    <2>3. \/ user' = user
          \/ user' = [user EXCEPT !.activated_at = now,
                        !.expire_at = IF user.duration_days = 0 THEN NoTime
                                      ELSE now + user.duration_days]
        BY <1>10, <2>2 DEF Activate
    <2>4. Sound(user', now)
        BY <1>0, <2>2, <2>3, ActivateSound
    <2>5. Fresh'
        BY <1>a, <2>1, GotoFresh
    <2> QED
        BY <1>d, <2>1, <2>4, <2>5
<1>11. ASSUME NEW t \in Threads,
              \/ (\E S \in SUBSET Nets : ForgetDevices(t, S))
              \/ Reread(t) \/ LookUp(t) \/ Refresh(t) \/ Count(t) \/ Register(t)
       PROVE  Fresh' /\ Sound(user, now)'
    <2>1. UNCHANGED <<now, user>>
        BY <1>11 DEF ForgetDevices, Reread, LookUp, Refresh, Count, Register
    <2>2. \E p \in {"free", "lookup", "refresh", "count", "register"} : Goto(t, p)
        BY <1>11 DEF ForgetDevices, Reread, LookUp, Refresh, Count, Register, Return
    <2> QED
        BY <1>a, <1>8, <2>1, <2>2
<1>12. CASE Prune \/ UNCHANGED vars
    <2>1. UNCHANGED <<now, user, pc, read, overlapped>>
        BY <1>12 DEF Prune, vars
    <2> QED
        BY <2>1 DEF Granted, Fresh, Sound, Activated, Left
<1>13. CASE Tick
    <2>1. UNCHANGED <<user, pc, read, overlapped>> /\ now' = now + 1
        BY <1>13 DEF Tick
    <2>2. Sound(user, now + 1)
        BY <1>0, <2>1, TickSound DEF Granted
    <2>3. Fresh'
        BY <2>1 DEF Granted, Fresh, Activated
    <2> QED
        BY <2>1, <2>2, <2>3 DEF Sound, Activated, Left
<1>14. {Nets} \cup {{n} : n \in Nets} \subseteq SUBSET Nets
    OBVIOUS
<1>15. ASSUME NEW t \in Threads,
              (\E d \in Days : ReadEdit(t, d)) \/ ReadPause(t) \/ ReadResume(t)
       PROVE  Fresh' /\ Sound(user, now)'
    BY <1>1, <1>15 DEF ReadEdit, ReadPause, ReadResume
<1> QED
    BY <1>2, <1>3, <1>4, <1>5, <1>6, <1>7, <1>9, <1>10, <1>11, <1>12, <1>13, <1>14, <1>15
    DEF Next

LEMMA GrantedInit == Init => Granted
<1> SUFFICES ASSUME Init PROVE Fresh /\ Sound(user, now)
    BY DEF Granted
<1>1. \A d \in Days : Sound(NewUser(d), 0)
    BY NewSound, UserAssumption
<1> QED
    BY <1>1 DEF Init, Fresh

(* As long as calls do not overlap, a subscription in use has at least the *)
(* days granted to it.                                                     *)
THEOREM DaysGranted == Spec => []GrantedDaysAlone
<1>1. TypeOK /\ Granted => GrantedDaysAlone
    BY DEF Granted, Sound, GrantedDaysAlone, GrantedDays
<1> QED
    BY <1>1, GrantedInit, GrantedStep, TypeCorrect, PTL DEF Spec

(* And at most those: no order of pauses, renewals and edits adds any.     *)
THEOREM NothingFree == Spec => []NoFreeDays
<1>1. TypeOK /\ Granted => NoFreeDays
    BY DEF Granted, Sound, NoFreeDays
<1> QED
    BY <1>1, GrantedInit, GrantedStep, TypeCorrect, PTL DEF Spec

(* A call that finds the row as it was read takes no day away: pausing     *)
(* freezes what is left, resuming gives back the span of the pause,        *)
(* renewing adds to what is left or, if that was negative, to nothing.     *)
LEMMA FairStep ==
    ASSUME TypeOK, TypeOK', Granted, NEW t \in Threads,
           WritePause(t) \/ WriteResume(t) \/ (\E d \in Days : Extend(t, d)),
           ~ overlapped', Activated(user), user.expire_at # NoTime
    PROVE  user'.expire_at # NoTime /\ Left(user', now) >= Left(user, now)
<1>1. Goto(t, "free") /\ "free" \in Pcs
    BY DEF WritePause, WriteResume, Extend, Return, Pcs
<1>2. Fresh /\ Sound(user, now)
    BY <1>1, Alone DEF Granted
<1>3. user \in Rows /\ now \in Nat
    BY DEF TypeOK
<1>4. user.expire_at \in Int /\ (user.status = "PAUSED" => user.paused_at \in Int)
    BY <1>2, <1>3, RowFields DEF Sound
<1>5. CASE WritePause(t)
    <2>1. user.status = "ACTIVE" /\ now # NoTime
        BY <1>2, <1>3, <1>5, UserAssumption DEF WritePause, Fresh
    <2>2. \/ user' = user
          \/ /\ user'.status = "PAUSED" /\ user'.paused_at = now
             /\ user'.expire_at = user.expire_at
        BY <1>3, <1>5 DEF WritePause, Rows
    <2> QED
        BY <1>3, <1>4, <2>1, <2>2 DEF Left
<1>6. CASE WriteResume(t)
    <2>1. user.status = "PAUSED" /\ read[t] = user /\ user.paused_at # NoTime
        BY <1>2, <1>6 DEF WriteResume, Fresh, Sound
    <2>2. \/ user' = user
          \/ /\ user'.status = "ACTIVE"
             /\ user'.expire_at = user.expire_at + (now - user.paused_at)
        BY <1>3, <1>6, <2>1 DEF WriteResume, Rows
    <2>3. user'.expire_at # NoTime
        BY <1>3, <1>4, <2>1, <2>2, UserAssumption
    <2> QED
        BY <1>3, <1>4, <2>1, <2>2, <2>3 DEF Left
<1>7. ASSUME NEW d \in Days, Extend(t, d)
      PROVE  user'.expire_at # NoTime /\ Left(user', now) >= Left(user, now)
    <2>a. d \in 0 .. MaxDays /\ MaxDays \in Nat
        BY UserAssumption
    <2>b. d > 0
        BY <1>7 DEF Extend
    <2>1. d \in Nat \ {0}
        BY <2>a, <2>b
    <2>2. /\ user'.status = user.status /\ user'.paused_at = user.paused_at
          /\ user'.expire_at = Extended(user, d)
        BY <1>3, <1>7 DEF Extend, Rows
    <2>3. user'.expire_at = IF user.status = "PAUSED" \/ user.expire_at >= now
                            THEN user.expire_at + d ELSE now + d
        BY <2>2 DEF Extended
    <2>4. user'.expire_at # NoTime
        BY <1>3, <1>4, <2>1, <2>3, UserAssumption
    <2> QED
        BY <1>3, <1>4, <2>1, <2>2, <2>3, <2>4 DEF Left
<1> QED
    BY <1>5, <1>6, <1>7

(* Through any sequence of calls that do not overlap, neither a pause, of  *)
(* whatever length, nor a renewal leaves the customer with fewer days.     *)
THEOREM PausesFair == Spec => PauseIsFair
<1> DEFINE Fair == \A t \in Threads :
         (/\ \/ WritePause(t) \/ WriteResume(t) \/ (\E d \in Days : Extend(t, d))
          /\ ~ overlapped' /\ Activated(user) /\ user.expire_at # NoTime)
         => user'.expire_at # NoTime /\ Left(user', now) >= Left(user, now)
<1>1. TypeOK /\ TypeOK' /\ Granted => Fair
    BY FairStep
<1>2. TypeOK /\ TypeOK' /\ Granted => [Fair]_vars
    BY <1>1
<1> QED
    BY <1>2, GrantedInit, GrantedStep, TypeCorrect, PTL DEF Spec, PauseIsFair

-------------------------------------------------------------------------------
(* Device slots, as long as calls do not overlap.                          *)

(* What a request has found out about the row and the slots still holds.   *)
SlotKept ==
    ~ overlapped =>
        \A t \in Threads :
            /\ pc[t] \in {"lookup", "count"} => read[t] = user
            /\ pc[t] = "register" => HasSlot(user, asOf[t])

(* Forgetting devices frees slots and takes none.                          *)
LEMMA FewerDevices ==
    ASSUME NEW u, NEW d, user' = user,
           \A n \in Nets : devices'[n] \in {devices[n], NoTime},
           HasSlot(u, d)
    PROVE  HasSlot(u, d)'
<1> DEFINE A == {n \in Nets : Active(n, d)}
           B == {n \in Nets : Active(n, d)'}
<1>1. B \subseteq A
    BY DEF Active
<1>2. IsFiniteSet(A) /\ IsFiniteSet(B)
    BY UserAssumption, FS_Subset
<1>3. Cardinality(A) \in Nat /\ Cardinality(B) \in Nat /\ Cardinality(B) <= Cardinality(A)
    BY <1>1, <1>2, FS_CardinalityType, FS_Subset
<1>4. Cardinality(A) < MaxDevices => Cardinality(B) < MaxDevices
    BY <1>3, UserAssumption
<1> QED
    BY <1>4 DEF HasSlot, InGrace, Activated

LEMMA SlotStep ==
    ASSUME TypeOK, TypeOK', SlotKept, [Next]_vars
    PROVE  SlotKept'
<1> DEFINE Kept(t) == /\ pc[t] \in {"lookup", "count"} => read[t] = user
                      /\ pc[t] = "register" => HasSlot(user, asOf[t])
<1> SUFFICES ASSUME ~ overlapped', NEW t \in Threads PROVE Kept(t)'
    BY DEF SlotKept
<1>0. \A s \in Threads : pc[s] = "free" => ~ (pc[s] \in {"lookup", "count", "register"})
    OBVIOUS
<1>1. ASSUME NEW s \in Threads, NEW p \in Pcs \ {"lookup", "count", "register"}, Goto(s, p)
      PROVE  Kept(t)'
    BY <1>1, Alone
<1>2. ASSUME NEW s \in Threads, NEW p \in Pcs, Goto(s, p),
             ~ overlapped => Kept(s)'
      PROVE  Kept(t)'
    <2>1. CASE s = t
        BY <1>2, <2>1, Alone
    <2>2. CASE s # t
        <3>1. pc'[t] = "free"
            BY <1>2, <2>2, Alone
        <3> QED
            BY <3>1
    <2> QED
        BY <2>1, <2>2
<1>3. /\ "free" \in Pcs \ {"lookup", "count", "register"}
      /\ "edit" \in Pcs \ {"lookup", "count", "register"}
      /\ "pause" \in Pcs \ {"lookup", "count", "register"}
      /\ "resume" \in Pcs \ {"lookup", "count", "register"}
      /\ "activate" \in Pcs \ {"lookup", "count", "register"}
      /\ "reread" \in Pcs \ {"lookup", "count", "register"}
      /\ "refresh" \in Pcs \ {"lookup", "count", "register"}
      /\ "lookup" \in Pcs /\ "count" \in Pcs /\ "register" \in Pcs
    BY DEF Pcs
<1>4. ASSUME NEW s \in Threads, Return(s)
      PROVE  Kept(t)'
    BY <1>1, <1>3, <1>4 DEF Return
<1>5. ASSUME NEW s \in Threads,
             \/ \E d \in Days : ReadEdit(s, d) \/ Extend(s, d)
             \/ WriteEdit(s) \/ ReadPause(s) \/ WritePause(s) \/ ReadResume(s) \/ WriteResume(s)
             \/ Reset(s) \/ Delete(s) \/ (\E e \in BOOLEAN : SetEnabled(s, e))
             \/ (\E S \in SUBSET Nets : ForgetDevices(s, S))
             \/ Activate(s) \/ Refresh(s) \/ Register(s)
      PROVE  Kept(t)'
    <2>1. \E p \in {"free", "edit", "pause", "resume", "reread"} : Goto(s, p)
        BY <1>5 DEF ReadEdit, Extend, WriteEdit, ReadPause, WritePause, ReadResume, WriteResume,
                    Reset, Delete, SetEnabled, ForgetDevices, Activate, Refresh, Register,
                    Read, Return
    <2> QED
        BY <1>1, <1>3, <2>1
<1>6. ASSUME NEW s \in Threads, NEW n \in Nets \cup {NoNet}, Hit(s, n)
      PROVE  Kept(t)'
    <2>1. /\ Goto(s, IF Activated(user) THEN "lookup" ELSE "activate")
          /\ read'[s] = user /\ user' = user
        BY <1>6 DEF Hit, Read, TypeOK
    <2>2. CASE Activated(user)
        <3>1. Goto(s, "lookup") /\ pc'[s] = "lookup"
            BY <2>1, <2>2 DEF TypeOK, Goto
        <3> QED
            BY <1>2, <1>3, <2>1, <3>1
    <2>3. CASE ~ Activated(user)
        BY <1>1, <1>3, <2>1, <2>3
    <2> QED
        BY <2>2, <2>3
<1>7. ASSUME NEW s \in Threads, Reread(s)
      PROVE  Kept(t)'
    <2>1. CASE Exists
        <3>1. Goto(s, "lookup") /\ pc'[s] = "lookup" /\ read'[s] = user /\ user' = user
            BY <1>7, <2>1 DEF TypeOK, Goto, Reread
        <3> QED
            BY <1>2, <1>3, <3>1
    <2>2. CASE ~ Exists
        BY <1>4, <1>7, <2>2 DEF Reread
    <2> QED
        BY <2>1, <2>2
<1>8. ASSUME NEW s \in Threads, LookUp(s)
      PROVE  Kept(t)'
    <2>1. CASE Goto(s, "count") /\ UNCHANGED <<read, user>>
        <3>1. pc[s] = "lookup" /\ pc'[s] = "count"
            BY <1>8, <2>1 DEF TypeOK, Goto, LookUp
        <3>2. ~ overlapped => read[s] = user
            BY <3>1 DEF SlotKept
        <3> QED
            BY <1>2, <1>3, <2>1, <3>1, <3>2
    <2>2. CASE Goto(s, "refresh")
        BY <1>1, <1>3, <2>2
    <2>3. CASE Return(s)
        BY <1>4, <2>3
    <2> QED
        BY <1>8, <2>1, <2>2, <2>3 DEF LookUp
<1>9. ASSUME NEW s \in Threads, Count(s)
      PROVE  Kept(t)'
    <2>1. CASE HasSlot(read[s], asOf[s])
        <3>1. /\ pc[s] = "count" /\ Goto(s, "register") /\ pc'[s] = "register"
              /\ UNCHANGED <<user, devices, asOf>>
            BY <1>9, <2>1 DEF TypeOK, Goto, Count
        <3>2. ~ overlapped => HasSlot(user, asOf[s])
            BY <2>1, <3>1 DEF SlotKept
        <3>3. HasSlot(user, asOf[s]) => HasSlot(user, asOf[s])'
            BY <3>1 DEF HasSlot, InGrace, Activated, Active
        <3> QED
            BY <1>2, <1>3, <3>1, <3>2, <3>3
    <2>2. CASE ~ HasSlot(read[s], asOf[s])
        BY <1>4, <1>9, <2>2 DEF Count
    <2> QED
        BY <2>1, <2>2
<1>10. ASSUME UNCHANGED <<user, pc, read, asOf, overlapped>>,
              \A n \in Nets : devices'[n] \in {devices[n], NoTime}
       PROVE  Kept(t)'
    <2>1. Kept(t)
        BY <1>10 DEF SlotKept
    <2>2. HasSlot(user, asOf[t]) => HasSlot(user, asOf[t])'
        BY <1>10, FewerDevices
    <2> QED
        BY <1>10, <2>1, <2>2
<1>11. CASE Prune
    BY <1>10, <1>11 DEF Prune
<1>12. CASE Tick \/ UNCHANGED vars
    BY <1>10, <1>12 DEF Tick, vars
<1>13. {Nets} \cup {{n} : n \in Nets} \subseteq SUBSET Nets
    OBVIOUS
<1> HIDE DEF Kept
<1> QED
    BY <1>5, <1>6, <1>7, <1>8, <1>9, <1>11, <1>12, <1>13 DEF Next

(* The step that lets a new device in is the insert of a request that has  *)
(* found a slot.                                                           *)
LEMMA NewDeviceStep ==
    ASSUME TypeOK, SlotKept, [Next]_vars, ~ overlapped', NEW n \in Nets,
           devices[n] = NoTime, devices'[n] # NoTime
    PROVE  HasSlot(user, devices'[n])
<1>0. devices \in [Nets -> Times] /\ net \in [Threads -> Nets \cup {NoNet}]
    BY DEF TypeOK
<1>1. ASSUME NEW t \in Threads, Register(t)
      PROVE  HasSlot(user, devices'[n])
    <2>1. pc[t] = "register" /\ Goto(t, "free") /\ "free" \in Pcs
        BY <1>1 DEF Register, Return, Pcs
    <2>2. HasSlot(user, asOf[t])
        BY <2>1, Alone DEF SlotKept
    <2>3. devices' = [devices EXCEPT ![net[t]] = IF @ = NoTime THEN asOf[t] ELSE @]
        BY <1>1 DEF Register
    <2>4. devices'[n] = asOf[t]
        BY <1>0, <2>3
    <2> QED
        BY <2>2, <2>4
<1>2. ASSUME NEW t \in Threads, Refresh(t)
      PROVE  FALSE
    <2>1. devices' = [devices EXCEPT ![net[t]] = IF @ = NoTime THEN @ ELSE asOf[t]]
        BY <1>2 DEF Refresh
    <2> QED
        BY <1>0, <2>1
<1>3. ASSUME NEW t \in Threads, Reset(t) \/ Delete(t) \/ (\E S \in SUBSET Nets : ForgetDevices(t, S))
      PROVE  FALSE
    BY <1>3 DEF Reset, Delete, ForgetDevices
<1>4. CASE Prune
    BY <1>4 DEF Prune
<1>5. CASE UNCHANGED devices
    BY <1>5
<1>6. {Nets} \cup {{m} : m \in Nets} \subseteq SUBSET Nets
    OBVIOUS
<1> QED
    BY <1>1, <1>2, <1>3, <1>4, <1>5, <1>6
    DEF Next, vars, ReadEdit, Extend, WriteEdit, ReadPause, WritePause, ReadResume, WriteResume,
        Read, SetEnabled, Hit, Activate, Reread, LookUp, Count, Tick

(* As long as calls do not overlap, a device limit is never exceeded by a  *)
(* new device but within the grace, however many days pass and devices are *)
(* forgotten between the count and the insert.                             *)
THEOREM SlotForNewDevice == Spec => NewDeviceHasSlot
<1> DEFINE Slot == \A n \in Nets :
                     ~ overlapped' /\ devices[n] = NoTime /\ devices'[n] # NoTime
                     => HasSlot(user, devices'[n])
<1>1. Init => SlotKept
    BY DEF Init, SlotKept
<1>2. TypeOK /\ TypeOK' /\ SlotKept /\ [Next]_vars => SlotKept'
    BY SlotStep
<1>3. TypeOK /\ SlotKept /\ [Next]_vars => [Slot]_vars
    BY NewDeviceStep
<1> QED
    BY <1>1, <1>2, <1>3, TypeCorrect, PTL DEF Spec, NewDeviceHasSlot

=============================================================================
