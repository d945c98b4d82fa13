------------------------- MODULE ProxyFailover_proofs -------------------------
(* What holds of the local proxy for any configs, lists, settings and limits.*)
EXTENDS ProxyFailover, FiniteSetTheorems, TLAPS

(* Between failovers no candidates are left over.                          *)
Settled == loop # "trying" => todo = {}

(* A proxy in use has not yet reached the end of its count: the check that *)
(* does is followed by a failover, which starts another child or gives up. *)
BoundKept ==
    running /\ loop \in {"reading", "sleeping"} => failures <= MaxFailures

(* What the loop read before it slept bounds what it will find after: in   *)
(* the meantime only an update can have changed the count, to zero.        *)
SeenBounds ==
    loop = "sleeping" =>
        failures <= seen.failures /\ (seen.running => seen.failures <= MaxFailures)

SeenExact == loop = "sleeping" /\ undisturbed => failures = seen.failures

(* The count belongs to the child that lives.                              *)
CountIsStreak == child.st = "alive" => failures = streak

FailingEarned ==
    loop \in {"failing", "choosing"} /\ undisturbed =>
        failures > MaxFailures \/ child.st # "alive"

IInv ==
    /\ TypeOK /\ Truthful
    /\ Settled
    /\ BoundKept /\ SeenBounds /\ SeenExact /\ CountIsStreak /\ FailingEarned

Counting == Settled /\ BoundKept /\ SeenBounds /\ SeenExact /\ CountIsStreak /\ FailingEarned

-------------------------------------------------------------------------------
(* What the helpers leave behind.                                          *)

LEMMA ChildTypes ==
    /\ NoChild \in Children
    /\ \A c \in Configs, p \in Ports :
         /\ ChildOf(c, p) \in Children
         /\ ChildOf(c, p).st = "alive" /\ ChildOf(c, p).cfg = c
BY DEF NoChild, ChildOf, Children

LEMMA StartedChild ==
    ASSUME NEW c \in Configs, NEW p \in Ports, Started(c, p)
    PROVE  /\ child' \in Children /\ child'.st = "alive" /\ child'.cfg = c
           /\ running' = TRUE /\ failures' = 0 /\ streak' = 0
BY ChildTypes DEF Started

LEMMA NotStartedChild ==
    ASSUME NotStarted
    PROVE  /\ child' \in Children /\ child'.st = "none"
           /\ running' = FALSE /\ failures' = failures /\ streak' = 0
BY ChildTypes DEF NotStarted, NoChild

(* In all that starts or stops a child, the count agrees with the history. *)
LEMMA DeadChild ==
    ASSUME Truthful, Free, child.st # "alive", TypeOK
    PROVE  FoundDead => /\ child' \in Children /\ child'.st = "none" /\ running' = FALSE
                        /\ failures' = failures /\ streak' = streak
<1>1. child.st \in {"none", "alive", "dead"}
  BY DEF TypeOK, Children
<1>2. child.st = "dead" \/ running = FALSE
  BY <1>1 DEF Truthful, TypeOK
<1> QED  BY <1>2, ChildTypes DEF FoundDead, NoChild

LEMMA KeyType == \A c \in Configs : KeyOf[c] \in Keys
BY DEF Keys

LEMMA SnapshotType ==
    ASSUME TypeOK, NEW i \in todo
    PROVE  snapshot[i] \in Configs
BY DEF TypeOK

LEMMA BlacklistedType ==
    ASSUME TypeOK, NEW c \in Configs
    PROVE  Blacklisted(c) \subseteq Keys
BY KeyType DEF TypeOK, Blacklisted

-------------------------------------------------------------------------------
(* The invariant, action by action.                                        *)

LEMMA Start == Init => IInv
<1> SUFFICES ASSUME Init PROVE IInv
  OBVIOUS
<1> USE ProxyAssumption
<1>1. TypeOK
  <2>1. child \in Children
    BY ChildTypes DEF Init
  <2>2. setting \in Settings /\ pushed \in [setting : Settings, list : Seq(Configs)]
    BY DEF Init
  <2>3. seen \in [running : BOOLEAN, failures : 0 .. MaxFailures + 1]
    BY DEF Init
  <2>4. view \in [running : BOOLEAN, active : Configs \cup {NoConfig}]
    BY DEF Init, Blank
  <2>5. failures \in 0 .. MaxFailures + 1 /\ pushes \in Nat /\ streak \in Nat
    BY DEF Init
  <2>6. snapshot \in Seq(Configs) /\ todo \subseteq DOMAIN snapshot /\ shared \in Seq(Configs)
    BY DEF Init
  <2> QED  BY <2>1, <2>2, <2>3, <2>4, <2>5, <2>6 DEF Init, TypeOK
<1>2. Truthful
  BY DEF Init, Truthful
<1>3. Counting
  BY DEF Init, NoChild, Counting, Settled, BoundKept, SeenBounds, SeenExact,
         CountIsStreak, FailingEarned
<1> QED  BY <1>1, <1>2, <1>3 DEF IInv, Counting

LEMMA DiesKeeps ==
    ASSUME IInv, SingBoxDies
    PROVE  IInv'
<1> USE DEF IInv, SingBoxDies, config, refresh, health, candidates
<1>1. /\ child' \in Children /\ child'.st = "dead" /\ child'.cfg = child.cfg
  BY DEF TypeOK, Children
<1>2. TypeOK'
  BY <1>1 DEF TypeOK
<1>3. Truthful'
  BY <1>1 DEF Truthful, Free
<1>4. Counting'
  BY <1>1 DEF Counting, Settled, BoundKept, SeenBounds, SeenExact, CountIsStreak, FailingEarned
<1> QED  BY <1>2, <1>3, <1>4 DEF Counting

LEMMA PublishKeeps ==
    ASSUME IInv, Publish
    PROVE  IInv'
<1> USE DEF IInv, Publish, state, config, health, candidates
<1>1. pushed' \in [setting : Settings, list : Seq(Configs)] /\ shared' \in Seq(Configs)
  BY ProxyAssumption
<1>2. view' \in [running : BOOLEAN, active : Configs \cup {NoConfig}]
  <2>1. Blank \in [running : BOOLEAN, active : Configs \cup {NoConfig}]
    BY DEF Blank
  <2> QED  BY <2>1 DEF TypeOK
<1>3. pushes' \in Nat
  BY DEF TypeOK
<1>4. TypeOK'
  BY <1>1, <1>2, <1>3 DEF TypeOK
<1>5. Truthful'
  BY DEF Truthful, Free
<1>6. Counting'
  BY DEF Counting, Settled, BoundKept, SeenBounds, SeenExact, CountIsStreak, FailingEarned
<1> QED  BY <1>4, <1>5, <1>6 DEF Counting

(* An update leaves the child alone, stops it, or starts the best config.  *)
LEMMA UpdateCases ==
    ASSUME TypeOK, Update
    PROVE  \/ UNCHANGED <<active, running, failures, child, streak>>
           \/ NotStarted /\ UNCHANGED active
           \/ \E c \in Configs, p \in Ports : Started(c, p) /\ active' = c
<1>1. ASSUME pushed.list # <<>>
      PROVE  Head(pushed.list) \in Configs
  BY <1>1 DEF TypeOK
<1>2. pushed.setting.port \in Ports
  BY DEF TypeOK, Settings
<1> QED  BY <1>1, <1>2 DEF Update

LEMMA UpdateKeeps ==
    ASSUME IInv, Update
    PROVE  IInv'
<1> USE DEF IInv
<1>1. /\ setting' \in Settings /\ failedKeys' \subseteq Keys
      /\ refresher' = "showing" /\ undisturbed' = FALSE
      /\ UNCHANGED <<shared, pushed, pushes, view, health>>
      /\ loop # "trying"
  BY DEF Update, TypeOK, Free
<1>2. /\ child' \in Children /\ running' \in BOOLEAN /\ active' \in Configs \cup {NoConfig}
      /\ running' = TRUE => child'.st # "none" /\ child'.cfg = active'
  <2>1. CASE UNCHANGED <<active, running, failures, child, streak>>
    BY <1>1, <2>1 DEF TypeOK, Truthful, Free
  <2>2. CASE NotStarted /\ UNCHANGED active
    BY <2>2, NotStartedChild DEF TypeOK
  <2>3. CASE \E c \in Configs, p \in Ports : Started(c, p) /\ active' = c
    BY <2>3, StartedChild
  <2> QED  BY <2>1, <2>2, <2>3, UpdateCases
<1>3. /\ failures' = failures \/ failures' = 0
      /\ running' = TRUE => (running = TRUE /\ failures' = failures) \/ failures' = 0
      /\ streak' \in Nat /\ (child'.st = "alive" => failures' = streak')
  <2>1. CASE UNCHANGED <<active, running, failures, child, streak>>
    BY <2>1 DEF TypeOK, CountIsStreak
  <2>2. CASE NotStarted /\ UNCHANGED active
    BY <2>2, NotStartedChild
  <2>3. CASE \E c \in Configs, p \in Ports : Started(c, p) /\ active' = c
    <3>1. failures' = 0 /\ streak' = 0
      BY <2>3, StartedChild
    <3> QED  BY <3>1
  <2> QED  BY <2>1, <2>2, <2>3, UpdateCases
<1>4. failures' \in 0 .. MaxFailures + 1
  BY <1>3, ProxyAssumption DEF TypeOK
<1>5. TypeOK'
  BY <1>1, <1>2, <1>3, <1>4 DEF TypeOK, health, candidates
<1>6. Truthful'
  BY <1>2 DEF Truthful
<1>7. BoundKept'
  BY <1>1, <1>3, ProxyAssumption DEF BoundKept, health
<1>8. SeenBounds'
  <2>1. 0 <= seen.failures
    BY DEF TypeOK
  <2> QED  BY <1>1, <1>3, <2>1 DEF SeenBounds, health
<1>9. Settled' /\ SeenExact' /\ CountIsStreak' /\ FailingEarned'
  BY <1>1, <1>3 DEF health, candidates, Settled, SeenExact, CountIsStreak, FailingEarned
<1> QED  BY <1>5, <1>6, <1>7, <1>8, <1>9

LEMMA ShowKeeps ==
    ASSUME IInv, Show
    PROVE  IInv'
<1> USE DEF IInv, Show, state, config, health, candidates
<1>1. view' \in [running : BOOLEAN, active : Configs \cup {NoConfig}]
  BY DEF TypeOK
<1>2. TypeOK'
  BY <1>1 DEF TypeOK
<1>3. Truthful'
  BY DEF Truthful, Free
<1>4. Counting'
  BY DEF Counting, Settled, BoundKept, SeenBounds, SeenExact, CountIsStreak, FailingEarned
<1> QED  BY <1>2, <1>3, <1>4 DEF Counting

LEMMA ReadStateKeeps ==
    ASSUME IInv, ReadState
    PROVE  IInv'
<1> USE DEF IInv, ReadState, state, config, refresh, candidates
<1>1. /\ seen' \in [running : BOOLEAN, failures : 0 .. MaxFailures + 1]
      /\ seen'.running = running /\ seen'.failures = failures
  BY DEF TypeOK
<1>2. TypeOK'
  BY <1>1 DEF TypeOK
<1>3. Truthful'
  BY DEF Truthful, Free
<1>4. Settled' /\ BoundKept' /\ SeenExact' /\ CountIsStreak' /\ FailingEarned'
  BY <1>1 DEF Settled, BoundKept, SeenExact, CountIsStreak, FailingEarned
<1>5. SeenBounds'
  <2>1. failures \in Int
    BY DEF TypeOK
  <2> QED  BY <1>1, <2>1 DEF SeenBounds, BoundKept
<1> QED  BY <1>2, <1>3, <1>4, <1>5

LEMMA WakeIdleKeeps ==
    ASSUME IInv, WakeIdle
    PROVE  IInv'
<1> USE DEF IInv, WakeIdle, state, config, refresh, candidates
<1>1. TypeOK'
  BY DEF TypeOK
<1>2. Truthful'
  BY DEF Truthful, Free
<1>3. Counting'
  BY DEF Counting, Settled, BoundKept, SeenBounds, SeenExact, CountIsStreak, FailingEarned
<1> QED  BY <1>1, <1>2, <1>3 DEF Counting

(* A check at which the count grows had room for it.                       *)
LEMMA CheckKeeps ==
    ASSUME IInv, Check
    PROVE  IInv'
<1> USE DEF IInv
<1>1. /\ loop = "sleeping" /\ Free /\ seen.running = TRUE
      /\ loop' \in {"reading", "failing"}
      /\ loop' = "reading" \/ seen.failures >= MaxFailures
      /\ UNCHANGED <<config, failedKeys, refresh, seen, candidates, undisturbed>>
  <2>1. seen.failures \in Int /\ MaxFailures \in Int /\ seen.running \in BOOLEAN
    BY ProxyAssumption DEF TypeOK
  <2> QED  BY <2>1 DEF Check, Free
<1>2. failures <= seen.failures /\ seen.failures <= MaxFailures
  BY <1>1 DEF SeenBounds
<1>3. failures \in Nat /\ streak \in Nat /\ MaxFailures \in Nat /\ seen.failures \in Nat
  BY ProxyAssumption DEF TypeOK
<1>4. CASE CheckPasses
  <2>1. /\ failures' = 0 /\ streak' = 0 /\ UNCHANGED <<child, running>>
    BY <1>4 DEF CheckPasses
  <2>2. CASE loop' = "reading"
    <3>1. TypeOK'
      <4>1. failures' \in 0 .. MaxFailures + 1 /\ streak' \in Nat
        BY <1>3, <2>1
      <4> QED  BY <1>1, <2>1, <4>1 DEF TypeOK, config, refresh, candidates
    <3>2. Truthful'
      BY <1>1, <2>1 DEF Truthful, Free, config
    <3>3. Counting'
      BY <1>1, <1>3, <2>1, <2>2
      DEF candidates, Counting, Settled, BoundKept, SeenBounds, SeenExact, CountIsStreak,
          FailingEarned
    <3> QED  BY <3>1, <3>2, <3>3 DEF Counting
  <2>3. CASE loop' = "failing"
    <3>1. ~CheckFails /\ ~FoundDead
      BY <1>4, <1>3 DEF CheckPasses, CheckFails, FoundDead
    <3> QED  BY <2>3, <3>1 DEF Check
  <2> QED  BY <1>1, <2>2, <2>3
<1>5. CASE CheckFails
  <2>1. child.st = "alive" /\ failures = streak /\ UNCHANGED <<child, running>>
    BY <1>5 DEF CheckFails, CountIsStreak
  <2>2. failures' = failures + 1 /\ streak' = streak + 1
    BY <1>2, <1>3, <1>5, <2>1 DEF CheckFails, Longer
  <2>3. TypeOK'
    <3>1. failures' \in 0 .. MaxFailures + 1 /\ streak' \in Nat
      BY <1>2, <1>3, <2>2
    <3> QED  BY <1>1, <2>1, <3>1 DEF TypeOK, config, refresh, candidates
  <2>4. Truthful'
    BY <1>1, <2>1 DEF Truthful, Free, config
  <2>5. BoundKept'
    <3>1. loop' = "reading" => seen.failures < MaxFailures
      <4>1. ~CheckPasses
        BY <1>3, <2>2 DEF CheckPasses
      <4> QED  BY <4>1 DEF Check
    <3>2. loop' = "reading" => failures' <= MaxFailures
      BY <1>2, <1>3, <2>2, <3>1
    <3> QED  BY <1>1, <3>2 DEF BoundKept
  <2>6. Settled' /\ SeenBounds' /\ SeenExact' /\ CountIsStreak'
    BY <1>1, <2>1, <2>2 DEF candidates, Settled, SeenBounds, SeenExact, CountIsStreak
  <2>7. FailingEarned'
    <3>1. undisturbed /\ loop' = "failing" => failures' > MaxFailures
      BY <1>1, <1>2, <1>3, <2>2 DEF SeenExact
    <3> QED  BY <1>1, <3>1 DEF FailingEarned
  <2> QED  BY <2>3, <2>4, <2>5, <2>6, <2>7
<1>6. CASE FoundDead
  <2>1. child.st # "alive"
    BY <1>6 DEF FoundDead
  <2>2. /\ child' \in Children /\ child'.st = "none" /\ running' = FALSE
        /\ failures' = failures /\ streak' = streak
    BY <1>1, <1>6, <2>1, DeadChild
  <2>3. TypeOK'
    BY <1>1, <2>2 DEF TypeOK, config, refresh, candidates
  <2>4. Truthful'
    BY <2>2 DEF Truthful
  <2>5. Counting'
    BY <1>1, <2>2 DEF candidates, Counting, Settled, BoundKept, SeenBounds, SeenExact,
                      CountIsStreak, FailingEarned
  <2> QED  BY <2>3, <2>4, <2>5 DEF Counting
<1> QED  BY <1>4, <1>5, <1>6 DEF Check

LEMMA ReadRankedKeeps ==
    ASSUME IInv, ReadRanked
    PROVE  IInv'
<1> USE DEF IInv, ReadRanked, state, config, refresh
<1>1. TypeOK'
  BY DEF TypeOK, Settled
<1>2. Truthful'
  BY DEF Truthful, Free
<1>3. Counting'
  BY DEF Counting, Settled, BoundKept, SeenBounds, SeenExact, CountIsStreak, FailingEarned
<1> QED  BY <1>1, <1>2, <1>3 DEF Counting

LEMMA FailoverKeeps ==
    ASSUME IInv, Failover
    PROVE  IInv'
<1> USE DEF IInv, Failover, config, refresh
<1>1. todo' \subseteq DOMAIN snapshot /\ failedKeys' \subseteq Keys
  BY DEF TypeOK, Untried, Others
<1>2. TypeOK'
  BY <1>1 DEF TypeOK
<1>3. Truthful' /\ Settled'
  BY DEF Truthful, Free, Settled
<1>4. BoundKept' /\ SeenBounds' /\ SeenExact' /\ CountIsStreak' /\ FailingEarned'
  BY DEF BoundKept, SeenBounds, SeenExact, CountIsStreak, FailingEarned
<1> QED  BY <1>2, <1>3, <1>4

LEMMA TrySucceedsKeeps ==
    ASSUME IInv, TrySucceeds
    PROVE  IInv'
<1> USE DEF IInv, refresh
<1>1. /\ loop' = "reading" /\ snapshot' = <<>> /\ todo' = {}
      /\ UNCHANGED <<setting, failedKeys, refresh, seen, undisturbed>>
  BY DEF TrySucceeds
<1>2. PICK i \in todo : Started(snapshot[i], setting.port) /\ active' = snapshot[i]
  BY DEF TrySucceeds
<1>3. snapshot[i] \in Configs /\ setting.port \in Ports
  BY SnapshotType DEF TypeOK, Settings
<1>4. /\ child' \in Children /\ child'.st = "alive" /\ child'.cfg = active'
      /\ active' \in Configs
      /\ running' = TRUE /\ failures' = 0 /\ streak' = 0
  BY <1>2, <1>3, StartedChild
<1>5. TypeOK'
  <2>1. failures' \in 0 .. MaxFailures + 1 /\ streak' \in Nat
    BY <1>4, ProxyAssumption
  <2>2. snapshot' \in Seq(Configs) /\ todo' \subseteq DOMAIN snapshot'
    BY <1>1
  <2> QED  BY <1>1, <1>4, <2>1, <2>2 DEF TypeOK
<1>6. Truthful'
  BY <1>4 DEF Truthful
<1>7. Counting'
  BY <1>1, <1>4, ProxyAssumption
  DEF Counting, Settled, BoundKept, SeenBounds, SeenExact, CountIsStreak, FailingEarned
<1> QED  BY <1>5, <1>6, <1>7 DEF Counting

LEMMA TryFailsKeeps ==
    ASSUME IInv, TryFails
    PROVE  IInv'
<1> USE DEF IInv, config, refresh
<1>1. /\ loop = "trying"
      /\ UNCHANGED <<config, refresh, loop, seen, snapshot, undisturbed>>
  BY DEF TryFails
<1>2. PICK i \in todo :
        /\ \/ NotStarted
           \/ /\ child' = ChildOf(snapshot[i], setting.port)
              /\ running' = TRUE /\ failures' = 1 /\ streak' = 1
           \/ child' = NoChild /\ running' = FALSE /\ failures' = 0 /\ streak' = 0
        /\ failedKeys' = Blacklisted(snapshot[i])
        /\ todo' = todo \ {i}
  BY DEF TryFails
<1>3. snapshot[i] \in Configs /\ setting.port \in Ports
  BY SnapshotType DEF TypeOK, Settings
<1>4. child' \in Children /\ running' \in BOOLEAN
  BY <1>2, <1>3, ChildTypes, NotStartedChild
<1>5. /\ failures' \in {0, 1, failures} /\ streak' \in {0, 1}
      /\ child'.st = "alive" => failures' = streak'
  <2>1. NoChild.st = "none"
    BY DEF NoChild
  <2> QED  BY <1>2, <2>1, NotStartedChild
<1>6. failures' \in 0 .. MaxFailures + 1 /\ streak' \in Nat
  BY <1>5, ProxyAssumption DEF TypeOK
<1>7. failedKeys' \subseteq Keys /\ todo' \subseteq DOMAIN snapshot
  BY <1>2, <1>3, BlacklistedType DEF TypeOK
<1>8. TypeOK'
  BY <1>1, <1>4, <1>6, <1>7 DEF TypeOK
<1>9. Truthful' /\ Counting'
  BY <1>1, <1>5
  DEF Truthful, Free, Counting, Settled, BoundKept, SeenBounds, SeenExact, CountIsStreak,
      FailingEarned
<1> QED  BY <1>8, <1>9 DEF Counting

LEMMA ExhaustedKeeps ==
    ASSUME IInv, Exhausted
    PROVE  IInv'
<1> USE DEF IInv, Exhausted, config, refresh
<1>1. TypeOK'
  <2>1. snapshot' \in Seq(Configs)
    BY <<>> \in Seq(Configs)
  <2>2. todo' = {} /\ running' = FALSE
    BY DEF Exhausted
  <2> QED  BY <2>1, <2>2 DEF TypeOK
<1>2. Truthful'
  BY DEF Truthful
<1>3. Counting'
  BY DEF Counting, Settled, BoundKept, SeenBounds, SeenExact, CountIsStreak, FailingEarned
<1> QED  BY <1>1, <1>2, <1>3 DEF Counting

LEMMA StutterKeeps ==
    ASSUME IInv, UNCHANGED vars
    PROVE  IInv'
<1> USE DEF IInv, vars, state, config, refresh, health, candidates
<1>1. TypeOK'
  BY DEF TypeOK
<1>2. Truthful'
  BY DEF Truthful, Free
<1>3. Counting'
  BY DEF Counting, Settled, BoundKept, SeenBounds, SeenExact, CountIsStreak, FailingEarned
<1> QED  BY <1>1, <1>2, <1>3 DEF Counting

-------------------------------------------------------------------------------
(* The theorems.                                                           *)

LEMMA Inductive == Spec => []IInv
<1>1. Init => IInv
  BY Start
<1>2. IInv /\ [Next]_vars => IInv'
  BY DiesKeeps, PublishKeeps, UpdateKeeps, ShowKeeps, ReadStateKeeps, WakeIdleKeeps, CheckKeeps,
     ReadRankedKeeps, FailoverKeeps, TrySucceedsKeeps, TryFailsKeeps, ExhaustedKeeps, StutterKeeps
  DEF Next, HealthStep
<1> QED  BY <1>1, <1>2, PTL DEF Spec

(* State is well typed; the count of failures stays within its limit, one  *)
(* more at the most.                                                       *)
THEOREM TypeCorrect == Spec => []TypeOK
<1>1. IInv => TypeOK
  BY DEF IInv
<1> QED  BY <1>1, Inductive, PTL

(* A proxy that says it is running has a child, of the config it names.    *)
THEOREM AlwaysTruthful == Spec => []Truthful
<1>1. IInv => Truthful
  BY DEF IInv
<1> QED  BY <1>1, Inductive, PTL

(* A failover without an update in between follows more than MaxFailures   *)
(* failed checks of this very child, or its death.                         *)
THEOREM Earned == Spec => FailoverEarned
<1>1. IInv => (Failover /\ undisturbed => streak > MaxFailures \/ child.st # "alive")
  BY DEF IInv, Failover, FailingEarned, CountIsStreak
<1>2. IInv /\ [Next]_vars =>
        [Failover /\ undisturbed => streak > MaxFailures \/ child.st # "alive"]_vars
  BY <1>1
<1> QED  BY <1>2, Inductive, PTL DEF Spec, FailoverEarned
================================================================================
