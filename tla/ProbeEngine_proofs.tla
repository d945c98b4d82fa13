--------------------------- MODULE ProbeEngine_proofs ---------------------------
(* What holds of one call of probe_candidates for any candidates, outbounds, *)
(* settings and number of concurrent batches: no candidate is measured twice *)
(* (MeasureInv says where it can be), and none is lost (CoverInv says that   *)
(* it is somewhere).                                                         *)
EXTENDS ProbeEngine, FiniteSetTheorems, TLAPS

LEMMA CountCands ==
    ASSUME NEW S \in SUBSET Cands
    PROVE  Cardinality(S) \in Nat
BY ProbeAssumption, FS_Subset, FS_CardinalityType

LEMMA FiniteVerdicts ==
    ASSUME NEW ok \in BOOLEAN
    PROVE  IsFiniteSet(Verdict(Cands, ok))
<1> DEFINE f == [c \in Cands |-> [cand |-> c, reachable |-> ok]]
<1>1. f \in Surjection(Cands, Verdict(Cands, ok))
  BY DEF Surjection, Verdict
<1> HIDE DEF f
<1> QED  BY <1>1, FS_Surjection, ProbeAssumption

LEMMA CountResults ==
    ASSUME NEW R \in SUBSET Results
    PROVE  Cardinality(R) \in Nat
<1>1. Results \subseteq Verdict(Cands, TRUE) \cup Verdict(Cands, FALSE)
  <2> SUFFICES ASSUME NEW r \in Results
               PROVE  r \in Verdict(Cands, TRUE) \cup Verdict(Cands, FALSE)
    OBVIOUS
  <2>1. r.reachable = TRUE \/ r.reachable = FALSE
    BY DEF Results
  <2>2. r.cand \in Cands /\ r = [cand |-> r.cand, reachable |-> r.reachable]
    BY DEF Results
  <2> QED  BY <2>1, <2>2 DEF Verdict
<1>2. IsFiniteSet(Results)
  BY <1>1, FiniteVerdicts, FS_Union, FS_Subset
<1> QED  BY <1>2, FS_Subset, FS_CardinalityType

LEMMA VerdictTypes ==
    ASSUME NEW S \in SUBSET Cands, NEW ok \in BOOLEAN
    PROVE  Verdict(S, ok) \subseteq Results
BY DEF Verdict, Results

LEMMA IdleType == Idle \in Batches
BY DEF Idle, Batches

LEMMA AliasTypes ==
    ASSUME TypeOK, NEW S
    PROVE  EntryOf(S) \subseteq active /\ \A c : Aliases(c) \subseteq active
BY DEF TypeOK, EntryOf, Aliases

LEMMA ReportTypes ==
    ASSUME TypeOK, NEW S \in SUBSET Cands, NEW W \in SUBSET Cands, Report(S, W)
    PROVE  reports' \in [Cands -> Nat] /\ working' \subseteq Cands
BY DEF TypeOK, Report

-------------------------------------------------------------------------------
(* Type correctness.                                                       *)

Bound == Larger(SizeMax, SizeMin)

LEMMA SizeTypes ==
    ASSUME TypeOK, NEW b \in Batches
    PROVE  Observed(b) \in Nat \ {0} /\ Observed(b) <= Bound
<1>1. b.trouble \in BOOLEAN /\ b.produced \in Nat
  BY DEF Batches
<1>2. size \in Nat /\ size > 0 /\ size <= Bound /\ SizeMin \in Nat /\ SizeMin > 0
      /\ SizeMax \in Nat /\ SizeMax > 0
  BY ProbeAssumption DEF TypeOK, Bound
<1>3. CASE b.trouble
  <2>1. size \div 2 \in Nat /\ size \div 2 <= size
    BY <1>2
  <2> QED  BY <1>2, <1>3, <2>1 DEF Observed, Larger, Bound
<1>4. CASE ~b.trouble
  BY <1>1, <1>2, <1>4 DEF Observed, Larger, Smaller, Bound
<1> QED  BY <1>1, <1>3, <1>4

(* The variables an attempt's end may change.                              *)
Stateful == <<phase, size, batch, wavePrevious, remaining, exhausted, cancel, ranked>>

LEMMA EndWaveTypes ==
    ASSUME TypeOK, NEW R \in SUBSET Results, NEW c \in BOOLEAN, EndWave(R, c)
    PROVE  /\ phase' \in Phases /\ batch' \in [Slots -> Batches]
           /\ wavePrevious' \in Nat /\ remaining' \in Nat
           /\ exhausted' \in BOOLEAN /\ cancel' \in BOOLEAN /\ ranked' \subseteq Results
<1>1. phase' \in Phases /\ batch' \in [Slots -> Batches] /\ ranked' \subseteq Results
  BY IdleType DEF EndWave, Phases
<1>2. exhausted' \in BOOLEAN
  BY ZenonT(20) DEF EndWave, TypeOK
<1>3. cancel' \in BOOLEAN
  BY Zenon DEF EndWave, Enough
<1>4. wavePrevious' \in Nat /\ remaining' \in Nat
  BY DEF EndWave, TypeOK
<1> QED  BY <1>1, <1>2, <1>3, <1>4

LEMMA AttemptTypes ==
    ASSUME TypeOK, NEW s \in Slots, NEW b \in Batches, AttemptEnds(s, b)
    PROVE  /\ phase' \in Phases /\ batch' \in [Slots -> Batches]
           /\ size' \in Nat \ {0} /\ size' <= Bound
           /\ wavePrevious' \in Nat /\ remaining' \in Nat
           /\ exhausted' \in BOOLEAN /\ cancel' \in BOOLEAN /\ ranked' \subseteq Results
<1>1. CASE NextChunk(s, b)
  <2>1. PICK S \in b.pending :
          batch' = [batch EXCEPT ![s] =
                      [b EXCEPT !.st = "starting", !.entries = S, !.pending = @ \ {S}]]
    BY <1>1 DEF NextChunk
  <2>2. S \subseteq Cands
    BY DEF Batches
  <2>3. [b EXCEPT !.st = "starting", !.entries = S, !.pending = @ \ {S}] \in Batches
    BY <2>2 DEF Batches
  <2>4. batch' \in [Slots -> Batches]
    BY <2>1, <2>3 DEF TypeOK
  <2>5. UNCHANGED <<phase, size, wavePrevious, remaining, exhausted, cancel, ranked>>
    BY <1>1 DEF NextChunk, search
  <2> QED  BY <2>4, <2>5 DEF TypeOK, Bound
<1>2. CASE Deliver(s, b)
  <2> DEFINE R == ranked \cup b.ranked
             stop == cancel \/ StopsAt(b) \/ Enough(R, exhausted)
  <2>1. R \in SUBSET Results /\ stop \in BOOLEAN
    BY DEF TypeOK, Batches
  <2>2. size' \in Nat \ {0} /\ size' <= Bound
    BY <1>2, SizeTypes DEF Deliver
  <2>3. CASE EndWave(R, stop)
    <3> HIDE DEF R, stop
    <3> QED  BY <2>1, <2>2, <2>3, EndWaveTypes
  <2>4. CASE /\ ~stop
             /\ ranked' = R /\ batch' = [batch EXCEPT ![s] = Idle]
             /\ UNCHANGED <<phase, search, cancel>>
    <3>1. batch' \in [Slots -> Batches]
      BY <2>4, IdleType DEF TypeOK
    <3>2. ranked' \subseteq Results
      BY <2>1, <2>4
    <3> HIDE DEF R, stop
    <3> QED  BY <2>2, <2>4, <3>1, <3>2 DEF TypeOK, search
  <2>5. EndWave(R, stop) \/ (/\ ~stop
             /\ ranked' = R /\ batch' = [batch EXCEPT ![s] = Idle]
             /\ UNCHANGED <<phase, search, cancel>>)
    BY <1>2 DEF Deliver
  <2> QED  BY <2>3, <2>4, <2>5
<1> QED  BY <1>1, <1>2 DEF AttemptEnds

(* What the records of an attempt's end are.                               *)
LEMMA AttemptRecords ==
    ASSUME TypeOK, NEW s \in Slots
    PROVE  /\ \A c \in batch[s].entries : Without(s, c) \in Batches
           /\ \A left \in SUBSET batch[s].entries : Halved(s, left) \in Batches
           /\ GivenUp(s) \in Batches
           /\ Returned(s) \in Batches
<1>1. batch[s] \in Batches
  BY DEF TypeOK
<1>2. \A S \in SUBSET batch[s].entries : Failed(S) \subseteq Results
  BY <1>1, VerdictTypes DEF Failed, Batches
<1>3. Cardinality(batch[s].got) \in Nat
  BY <1>1, CountResults DEF Batches
<1>4. \A c \in batch[s].entries : Without(s, c) \in Batches
  BY <1>1, <1>2 DEF Batches, Without
<1>5. \A left \in SUBSET batch[s].entries : Halved(s, left) \in Batches
  <2> SUFFICES ASSUME NEW left \in SUBSET batch[s].entries
               PROVE  Halved(s, left) \in Batches
    OBVIOUS
  <2>1. batch[s].pending \cup {left, batch[s].entries \ left} \in SUBSET SUBSET Cands
    BY <1>1 DEF Batches
  <2> QED  BY <1>1, <2>1 DEF Batches, Halved
<1>6. GivenUp(s) \in Batches
  BY <1>1, <1>2 DEF Batches, GivenUp
<1>7. Returned(s) \in Batches
  <2>1. batch[s].ranked \cup batch[s].got \in SUBSET Results
    BY <1>1 DEF Batches
  <2>2. batch[s].produced + Cardinality(batch[s].got) \in Nat
    BY <1>1, <1>3 DEF Batches
  <2> QED  BY <1>1, <2>1, <2>2 DEF Batches, Returned
<1> QED  BY <1>4, <1>5, <1>6, <1>7

LEMMA PrepareTypes ==
    ASSUME TypeOK, NEW A \in SUBSET Cands, NEW D \in SUBSET Cands, Prepare(A, D)
    PROVE  /\ phase' \in Phases /\ active' \subseteq Cands /\ prepared' \subseteq active'
           /\ ranked' \subseteq Results /\ remaining' \in Nat /\ exhausted' \in BOOLEAN
           /\ reports' \in [Cands -> Nat] /\ working' \subseteq Cands
<1> DEFINE bad == {c \in A : DefOf[c] = Unsupported}
<1>1. bad \subseteq Cands /\ Report(D \cup bad, {})
  BY DEF Prepare
<1>2. reports' \in [Cands -> Nat] /\ working' \subseteq Cands
  BY <1>1, ReportTypes
<1>3. ranked' = Failed(bad) /\ active' = A /\ prepared' \subseteq A /\ phase' = "loop"
  BY DEF Prepare
<1>4. exhausted' \in BOOLEAN
  BY Zenon DEF Prepare
<1>5. remaining' \in Nat
  <2> DEFINE T == {r \in prepared' : \E x \in A \cap policy.previous : DefOf[x] = DefOf[r]}
  <2>1. T \in SUBSET Cands
    BY <1>3
  <2>2. Cardinality(T) \in Nat
    BY <2>1, CountCands
  <2>3. remaining' = IF Searches THEN Cardinality(T) ELSE 0
    BY DEF Prepare
  <2> HIDE DEF T
  <2> QED  BY <2>2, <2>3
<1>6. ranked' \subseteq Results
  BY <1>1, <1>3, VerdictTypes DEF Failed
<1> QED  BY <1>2, <1>3, <1>4, <1>5, <1>6 DEF Phases

LEMMA BatchTypes ==
    ASSUME TypeOK, NEW s \in Slots, BatchStep(s)
    PROVE  TypeOK'
<1>0. batch[s] \in Batches /\ Cands \in SUBSET Cands
  BY DEF TypeOK
<1>1. UNCHANGED <<policy, waiting, passed, dead, active, prepared, deadline>>
  BY DEF BatchStep, Ready, Rejects, Splits, GivesUp, Answer, AnswerLost, Cleanup,
         OfBatch, screen
<1>2. CASE \/ Ready(s) \/ AnswerLost(s)
  <2>1. batch' \in [Slots -> Batches]
    <3>1. /\ [batch[s] EXCEPT !.st = "stopping", !.entries = {}] \in Batches
          /\ [batch[s] EXCEPT !.st = "testing"] \in Batches
      BY <1>0 DEF Batches
    <3>2. \/ batch' = [batch EXCEPT ![s] = [batch[s] EXCEPT !.st = "stopping", !.entries = {}]]
          \/ batch' = [batch EXCEPT ![s] = [batch[s] EXCEPT !.st = "testing"]]
      BY <1>2 DEF Ready, AnswerLost
    <3> QED  BY <3>1, <3>2 DEF TypeOK
  <2>2. UNCHANGED <<phase, size, wavePrevious, remaining, exhausted, cancel, ranked,
                    reports, working>>
    BY <1>2 DEF Ready, AnswerLost, search, counts
  <2> QED  BY <1>1, <2>1, <2>2 DEF TypeOK
<1>3. CASE Answer(s)
  <2>1. PICK c \in batch[s].entries, ok \in BOOLEAN :
          LET got  == batch[s].got \cup Verdict({c}, ok)
              rest == batch[s].entries \ {c}
              stop == Enough(batch[s].ranked \cup got, batch[s].exhausted)
          IN /\ Report({c}, IF ok THEN {c} ELSE {})
             /\ cancel' = stop
             /\ batch' = [batch EXCEPT ![s] =
                  [batch[s] EXCEPT !.got = got,
                            !.entries = IF stop THEN {} ELSE rest,
                            !.st = IF stop \/ rest = {} THEN "stopping" ELSE @]]
    BY <1>3 DEF Answer
  <2> DEFINE stop == Enough(batch[s].ranked \cup (batch[s].got \cup Verdict({c}, ok)),
                            batch[s].exhausted)
  <2>2. c \in Cands
    BY <1>0 DEF Batches
  <2>3. batch[s].got \cup Verdict({c}, ok) \in SUBSET Results
    BY <1>0, <2>2, VerdictTypes DEF Batches
  <2>4. stop \in BOOLEAN
    BY Zenon DEF Enough
  <2>5. cancel' = stop
    BY <2>1
  <2>6. reports' \in [Cands -> Nat] /\ working' \subseteq Cands
    BY <2>1, <2>2, ReportTypes
  <2> DEFINE b == [batch[s] EXCEPT
                     !.got = batch[s].got \cup Verdict({c}, ok),
                     !.entries = IF stop THEN {} ELSE batch[s].entries \ {c},
                     !.st = IF stop \/ batch[s].entries \ {c} = {} THEN "stopping" ELSE @]
  <2>7. batch' = [batch EXCEPT ![s] = b]
    BY <2>1
  <2> HIDE DEF stop
  <2>8. batch' \in [Slots -> Batches]
    <3>1. (IF stop THEN {} ELSE batch[s].entries \ {c}) \in SUBSET Cands
      BY <1>0 DEF Batches
    <3>2. b \in Batches
      BY <1>0, <2>3, <3>1 DEF Batches
    <3> HIDE DEF b
    <3> QED  BY <2>7, <3>2 DEF TypeOK
  <2>9. UNCHANGED <<phase, size, wavePrevious, remaining, exhausted, ranked>>
    BY <1>3 DEF Answer, search
  <2> QED  BY <1>1, <2>4, <2>5, <2>6, <2>8, <2>9 DEF TypeOK
<1>4. ASSUME NEW b \in Batches, AttemptEnds(s, b),
             reports' \in [Cands -> Nat], working' \subseteq Cands
      PROVE  TypeOK'
  BY <1>1, <1>4, AttemptTypes DEF TypeOK, Bound
<1>5. CASE Rejects(s)
  <2>1. PICK c \in batch[s].entries : Report(Aliases(c), {}) /\ AttemptEnds(s, Without(s, c))
    BY <1>5 DEF Rejects
  <2>2. Aliases(c) \in SUBSET Cands
    BY AliasTypes DEF TypeOK
  <2>3. reports' \in [Cands -> Nat] /\ working' \subseteq Cands
    BY <2>1, <2>2, ReportTypes
  <2> QED  BY <1>4, <2>1, <2>3, AttemptRecords
<1>6. CASE Splits(s)
  <2>1. PICK left \in SUBSET batch[s].entries : AttemptEnds(s, Halved(s, left))
    BY <1>6 DEF Splits
  <2>2. UNCHANGED <<reports, working>>
    BY <1>6 DEF Splits, counts
  <2>3. reports' \in [Cands -> Nat] /\ working' \subseteq Cands
    BY <2>2 DEF TypeOK
  <2> QED  BY <1>4, <2>1, <2>3, AttemptRecords
<1>7. CASE GivesUp(s)
  <2>1. Report(EntryOf(batch[s].entries), {}) /\ AttemptEnds(s, GivenUp(s))
    BY <1>7 DEF GivesUp
  <2>2. EntryOf(batch[s].entries) \in SUBSET Cands
    BY AliasTypes DEF TypeOK
  <2>3. reports' \in [Cands -> Nat] /\ working' \subseteq Cands
    BY <2>1, <2>2, ReportTypes
  <2> QED  BY <1>4, <2>1, <2>3, AttemptRecords
<1>8. CASE Cleanup(s)
  <2>1. AttemptEnds(s, Returned(s)) /\ UNCHANGED <<reports, working>>
    BY <1>8 DEF Cleanup, counts
  <2>2. reports' \in [Cands -> Nat] /\ working' \subseteq Cands
    BY <2>1 DEF TypeOK
  <2> QED  BY <1>4, <2>1, <2>2, AttemptRecords
<1> QED  BY <1>2, <1>3, <1>5, <1>6, <1>7, <1>8 DEF BatchStep

LEMMA StepTypes ==
    ASSUME TypeOK, [Next]_vars
    PROVE  TypeOK'
<1>0. Cands \in SUBSET Cands
  OBVIOUS
<1>1. CASE Unavailable
  <2>1. ranked' = Failed(Cands) /\ Report(Cands, {}) /\ phase' = "done"
    BY <1>1 DEF Unavailable
  <2>2. ranked' \subseteq Results
    BY <1>0, <2>1, VerdictTypes DEF Failed
  <2>3. reports' \in [Cands -> Nat] /\ working' \subseteq Cands
    BY <2>1, ReportTypes
  <2> QED  BY <1>1, <2>1, <2>2, <2>3 DEF Unavailable, TypeOK, Phases, screen, search, flags
<1>2. CASE StartActive
  <2>1. Prepare(Cands, {})
    BY <1>2 DEF StartActive
  <2> QED  BY <1>2, <2>1, PrepareTypes DEF StartActive, TypeOK, flags
<1>3. CASE StartSweep
  BY <1>3 DEF StartSweep, TypeOK, Phases, search, flags, counts
<1>4. CASE TcpAnswer
  <2>1. PICK c \in waiting, ok \in BOOLEAN :
          /\ waiting' = waiting \ {c}
          /\ ranked' = ranked \cup Verdict({c}, ok)
          /\ Report({c}, IF ok THEN {c} ELSE {})
    BY <1>4 DEF TcpAnswer
  <2>2. c \in Cands
    BY DEF TypeOK
  <2>3. ranked' \subseteq Results
    BY <2>1, <2>2, VerdictTypes DEF TypeOK
  <2>4. reports' \in [Cands -> Nat] /\ working' \subseteq Cands
    BY <2>1, <2>2, ReportTypes
  <2> QED  BY <1>4, <2>1, <2>3, <2>4 DEF TcpAnswer, TypeOK, Phases, search, flags
<1>5. CASE SweepAnswer
  <2>1. waiting' \subseteq Cands /\ passed' \subseteq Cands /\ dead' \subseteq Cands
    BY <1>5 DEF SweepAnswer, TypeOK
  <2>2. UNCHANGED <<policy, size, batch, wavePrevious, flags>>
    BY <1>5 DEF SweepAnswer
  <2>3. CASE UNCHANGED <<phase, active, prepared, ranked, counts, remaining, exhausted>>
    BY <2>1, <2>2, <2>3 DEF TypeOK, flags, counts
  <2>4. CASE Prepare((Cands \cap Udp) \cup passed', dead')
    <3>1. (Cands \cap Udp) \cup passed' \in SUBSET Cands
      BY <2>1
    <3> QED  BY <2>1, <2>2, <2>4, <3>1, PrepareTypes DEF TypeOK, flags
  <2> QED  BY <1>5, <2>3, <2>4 DEF SweepAnswer
<1>6. CASE BeginWave
  BY <1>6 DEF BeginWave, TypeOK, Phases, screen, flags, counts
<1>7. CASE QueueBatch
  <2>1. PICK s \in Slots, S \in SUBSET prepared :
         /\ prepared' = prepared \ S
         /\ wavePrevious' = wavePrevious + Cardinality(WithPrevious(S))
         /\ batch' = [batch EXCEPT ![s] =
              [Idle EXCEPT !.st = "starting", !.entries = S,
                           !.exhausted = policy.previous # {} /\ ToSearch(S) = 0]]
    BY <1>7 DEF QueueBatch
  <2>2. S \subseteq Cands /\ WithPrevious(S) \in SUBSET Cands
    BY DEF TypeOK, WithPrevious
  <2>3. wavePrevious' \in Nat
    BY <2>1, <2>2, CountCands DEF TypeOK
  <2>4. [Idle EXCEPT !.st = "starting", !.entries = S,
                     !.exhausted = policy.previous # {} /\ ToSearch(S) = 0] \in Batches
    <3>1. (policy.previous # {} /\ ToSearch(S) = 0) \in BOOLEAN
      OBVIOUS
    <3> HIDE DEF ToSearch
    <3> QED  BY <2>2, <3>1 DEF Idle, Batches
  <2>5. batch' \in [Slots -> Batches]
    BY <2>1, <2>4 DEF TypeOK
  <2> QED  BY <1>7, <2>1, <2>3, <2>5 DEF QueueBatch, TypeOK, screen, flags, counts
<1>8. CASE LaunchWave
  <2>1. UNCHANGED <<policy, screen, prepared, size, deadline, counts>>
    BY <1>8 DEF LaunchWave
  <2>2. CASE phase' = "wave" /\ UNCHANGED <<batch, search, cancel, ranked>>
    BY <2>1, <2>2 DEF TypeOK, Phases, screen, search, counts
  <2>3. CASE EndWave(ranked, cancel)
    <3>1. ranked \in SUBSET Results /\ cancel \in BOOLEAN
      BY DEF TypeOK
    <3> QED  BY <2>1, <2>3, <3>1, EndWaveTypes DEF TypeOK, screen, counts
  <2> QED  BY <1>8, <2>2, <2>3 DEF LaunchWave
<1>9. CASE Finish
  <2>1. ranked' \subseteq Results
    BY <1>9, VerdictTypes DEF Finish, Failed, TypeOK
  <2> QED  BY <1>9, <2>1 DEF Finish, TypeOK, Phases, screen, search, flags, counts
<1>10. ASSUME NEW s \in Slots, BatchStep(s)
       PROVE  TypeOK'
  BY <1>10, BatchTypes
<1>11. CASE DeadlinePasses
  BY <1>11 DEF DeadlinePasses, TypeOK, screen, search, counts
<1>12. CASE UNCHANGED vars
  BY <1>12 DEF vars, TypeOK
<1> QED
  BY <1>1, <1>2, <1>3, <1>4, <1>5, <1>6, <1>7, <1>8, <1>9, <1>10, <1>11, <1>12
     DEF Next, Proceed

LEMMA InitTypes == Init => TypeOK
<1> SUFFICES ASSUME Init PROVE TypeOK
  OBVIOUS
<1>1. batch \in [Slots -> Batches]
  BY IdleType DEF Init
<1>2. size \in Nat \ {0} /\ size <= Larger(SizeMax, SizeMin)
  BY ProbeAssumption DEF Init, Larger, Smaller
<1>3. policy \in PolicyType
  BY ProbeAssumption DEF Init
<1> QED  BY <1>1, <1>2, <1>3 DEF Init, TypeOK, Phases

(* Type correctness: in particular the batch size, halved after trouble    *)
(* and doubled after success, stays a size (ActiveBatchSizer).             *)
THEOREM TypeCorrect == Spec => []TypeOK
BY InitTypes, StepTypes, PTL DEF Spec

-------------------------------------------------------------------------------
(* No candidate is measured twice: whatever is still queued, anywhere, has *)
(* not been counted, is queued once and shares its outbound with nothing   *)
(* else that is queued.                                                    *)

WorkOf(b)  == b.entries \cup UNION b.pending
Chunked(b) == \A P \in b.pending : /\ P \cap b.entries = {}
                                   /\ \A Q \in b.pending : P = Q \/ P \cap Q = {}
Fresh(S)   == \A c \in S : c \in active /\ \A x \in Aliases(c) : reports[x] = 0
Queue      == prepared \cup UNION {WorkOf(batch[s]) : s \in Slots}

QueueInv ==
    /\ Fresh(Queue)
    /\ \A s \in Slots : Chunked(batch[s]) /\ prepared \cap WorkOf(batch[s]) = {}
    /\ \A s, t \in Slots : s # t => WorkOf(batch[s]) \cap WorkOf(batch[t]) = {}
    /\ \A c, d \in Queue : DefOf[c] = DefOf[d] => c = d

Counted == MeasuredOnce /\ \A c \in working : reports[c] = 1

(* Before the queue is made, nothing has been counted that is still to be  *)
(* tested; after it, the dead are apart from everything active.            *)
ScreenInv ==
    /\ phase \in {"start", "screen", "tcp"} =>
         /\ active = {} /\ prepared = {} /\ batch = [s \in Slots |-> Idle]
         /\ passed \cap dead = {} /\ waiting \cap (passed \cup dead) = {}
    /\ phase = "start" => passed = {} /\ dead = {}
    /\ phase \in {"start", "screen"} =>
         /\ ranked = {} /\ working = {} /\ \A c \in Cands : reports[c] = 0
         /\ (waiting \cup passed \cup dead) \cap Udp = {}
    /\ phase = "tcp" => \A c \in waiting : reports[c] = 0
DeadInv ==
    phase \in {"loop", "fill", "wave"} =>
      \A c \in dead : /\ c \notin active /\ reports[c] = 1 /\ c \notin working
                      /\ \A r \in Verdicts : r.cand # c

MeasureInv == TypeOK /\ Counted /\ QueueInv /\ ScreenInv /\ DeadInv

LEMMA IsVerdict ==
    \A r : r \in Verdicts <=> \/ r \in ranked
                             \/ \E s \in Slots : r \in batch[s].ranked \/ r \in batch[s].got
BY DEF Verdicts

LEMMA InQueue ==
    \A c : c \in Queue <=> c \in prepared \/ \E s \in Slots : c \in WorkOf(batch[s])
BY DEF Queue

LEMMA VerdictsTyped ==
    TypeOK => \A r \in Verdicts : /\ r.cand \in Cands /\ r.reachable \in BOOLEAN
                                  /\ r = [cand |-> r.cand, reachable |-> r.reachable]
<1> SUFFICES ASSUME TypeOK, NEW r \in Verdicts
             PROVE  /\ r.cand \in Cands /\ r.reachable \in BOOLEAN
                    /\ r = [cand |-> r.cand, reachable |-> r.reachable]
  OBVIOUS
<1>1. \A s \in Slots : batch[s].ranked \subseteq Results /\ batch[s].got \subseteq Results
  BY DEF TypeOK, Batches
<1>2. r \in Results
  BY <1>1, IsVerdict DEF TypeOK
<1> QED  BY <1>2 DEF Results

(* A step that measures the candidates Gone, of which Good work, and       *)
(* counts S: the rest of the queue stays fresh.                            *)
LEMMA Measures ==
    ASSUME TypeOK, TypeOK', Counted, QueueInv, DeadInv,
           phase \in {"loop", "fill", "wave"},
           NEW Gone \in SUBSET Queue, NEW Good \in SUBSET Gone,
           NEW S \in SUBSET EntryOf(Gone), Gone \subseteq S, Report(S, Good),
           active' = active, dead' = dead,
           \A r \in Verdicts' : \/ r \in Verdicts
                                \/ r.cand \in Gone /\ (r.reachable <=> r.cand \in Good)
    PROVE  /\ Counted' /\ DeadInv'
           /\ \A c \in Queue : c \notin Gone =>
                c \in active' /\ \A x \in Aliases(c)' : reports'[x] = 0
<1>1. \A x \in S : x \in active /\ \E g \in Gone : DefOf[x] = DefOf[g]
  BY DEF EntryOf, Aliases
<1>2. \A x \in S : reports[x] = 0
  BY DEF EntryOf, QueueInv, Fresh
<1>3. active \subseteq Cands /\ reports \in [Cands -> Nat]
  BY DEF TypeOK
<1>4. \A x \in S : reports'[x] = 1
  BY <1>1, <1>2, <1>3 DEF Report
<1>5. \A x \in Cands : x \notin S => reports'[x] = reports[x]
  BY DEF Report
<1>6. working' = working \cup Good
  BY DEF Report
<1>7. \A r \in Verdicts : r.cand \in Cands /\ r.cand \notin S
  BY <1>2, VerdictsTyped DEF Counted, MeasuredOnce
<1>8. \A x \in S : x \notin working
  BY <1>2 DEF Counted
<1>9. \A c \in Cands : reports'[c] <= 1
  BY <1>4, <1>5 DEF Counted, MeasuredOnce
<1>10. \A c \in working' : reports'[c] = 1
  BY <1>4, <1>5, <1>6, <1>8 DEF Counted, TypeOK
<1>11. \A r \in Verdicts' : reports'[r.cand] = 1 /\ (r.reachable <=> r.cand \in working')
  <2> SUFFICES ASSUME NEW r \in Verdicts'
               PROVE  reports'[r.cand] = 1 /\ (r.reachable <=> r.cand \in working')
    OBVIOUS
  <2>1. CASE r \in Verdicts
    <3>1. r.cand \in Cands /\ r.cand \notin S /\ reports[r.cand] = 1
          /\ (r.reachable <=> r.cand \in working)
      BY <1>7, <2>1 DEF Counted, MeasuredOnce
    <3> QED  BY <1>5, <1>6, <3>1
  <2>2. CASE r.cand \in Gone /\ (r.reachable <=> r.cand \in Good)
    BY <1>4, <1>6, <1>8, <2>2
  <2> QED  BY <2>1, <2>2
<1>12. \A q, r \in Verdicts' : q.cand = r.cand => q = r
  <2> SUFFICES ASSUME NEW q \in Verdicts', NEW r \in Verdicts', q.cand = r.cand
               PROVE  q = r
    OBVIOUS
  <2>1. (q.reachable <=> q.cand \in working') /\ (r.reachable <=> r.cand \in working')
    BY <1>11
  <2>2. q.reachable \in BOOLEAN /\ r.reachable \in BOOLEAN
        /\ q = [cand |-> q.cand, reachable |-> q.reachable]
        /\ r = [cand |-> r.cand, reachable |-> r.reachable]
    <3>1. \A s \in Slots : batch'[s].ranked \subseteq Results /\ batch'[s].got \subseteq Results
      BY DEF TypeOK, Batches
    <3>2. Verdicts' \subseteq Results
      BY <3>1 DEF TypeOK, Verdicts
    <3>3. q \in Results /\ r \in Results
      BY <3>2
    <3> QED  BY <3>3 DEF Results
  <2>3. q.reachable = r.reachable
    BY <2>1, <2>2
  <2> QED  BY <2>2, <2>3
<1>13. Counted'
  BY <1>9, <1>10, <1>11, <1>12 DEF Counted, MeasuredOnce
<1>14. DeadInv'
  <2> SUFFICES ASSUME NEW c \in dead
               PROVE  /\ c \notin active' /\ reports'[c] = 1 /\ c \notin working'
                      /\ \A r \in Verdicts' : r.cand # c
    BY DEF DeadInv
  <2>1. c \in Cands /\ c \notin active /\ reports[c] = 1 /\ c \notin working
        /\ \A r \in Verdicts : r.cand # c
    BY DEF DeadInv, TypeOK
  <2>2. c \notin S
    BY <1>1, <2>1
  <2> QED  BY <1>5, <1>6, <2>1, <2>2
<1>15. ASSUME NEW c \in Queue, c \notin Gone
       PROVE  c \in active' /\ \A x \in Aliases(c)' : reports'[x] = 0
  <2>1. c \in active /\ \A x \in Aliases(c) : reports[x] = 0
    BY DEF QueueInv, Fresh
  <2>2. \A x \in Aliases(c) : x \notin S
    BY <1>1, <1>15 DEF QueueInv, Aliases
  <2>3. Aliases(c)' = Aliases(c) /\ Aliases(c) \subseteq Cands
    BY <1>3 DEF Aliases
  <2> QED  BY <1>5, <2>1, <2>2, <2>3
<1> QED  BY <1>13, <1>14, <1>15

(* A step that measures nothing.                                           *)
LEMMA MeasuresNothing ==
    ASSUME TypeOK, Counted, QueueInv, DeadInv, UNCHANGED counts,
           phase \in {"loop", "fill", "wave"},
           active' = active, dead' = dead, Verdicts' \subseteq Verdicts
    PROVE  /\ Counted' /\ DeadInv'
           /\ \A c \in Queue : c \in active' /\ \A x \in Aliases(c)' : reports'[x] = 0
<1>1. reports' = reports /\ working' = working
  BY DEF counts
<1>2. Counted'
  BY <1>1 DEF Counted, MeasuredOnce
<1>3. DeadInv'
  BY <1>1 DEF DeadInv
<1>4. \A c \in Queue : c \in active' /\ \A x \in Aliases(c)' : reports'[x] = 0
  BY <1>1 DEF QueueInv, Fresh, Aliases
<1> QED  BY <1>2, <1>3, <1>4

LEMMA QueueShrinks ==
    ASSUME QueueInv, prepared' \subseteq prepared,
           \A t \in Slots : WorkOf(batch'[t]) \subseteq WorkOf(batch[t]) /\ Chunked(batch'[t]),
           \A c \in Queue' : c \in active' /\ \A x \in Aliases(c)' : reports'[x] = 0
    PROVE  QueueInv'
<1>1. Queue' \subseteq Queue
  BY DEF Queue
<1>2. Fresh(Queue)'
  BY DEF Fresh
<1>3. \A c, d \in Queue' : DefOf[c] = DefOf[d] => c = d
  BY <1>1 DEF QueueInv
<1>4. \A t \in Slots : Chunked(batch'[t]) /\ prepared' \cap WorkOf(batch'[t]) = {}
  BY DEF QueueInv
<1>5. \A t, u \in Slots : t # u => WorkOf(batch'[t]) \cap WorkOf(batch'[u]) = {}
  BY DEF QueueInv
<1> QED  BY <1>2, <1>3, <1>4, <1>5 DEF QueueInv

LEMMA IdleWork == WorkOf(Idle) = {} /\ Chunked(Idle) /\ Idle.ranked = {} /\ Idle.got = {}
BY DEF WorkOf, Chunked, Idle

(* The end of a wave drops what the batches hold.                          *)
LEMMA EndWaveWork ==
    ASSUME NEW R, NEW c, EndWave(R, c)
    PROVE  /\ \A t \in Slots : WorkOf(batch'[t]) = {} /\ Chunked(batch'[t])
           /\ Verdicts' \subseteq R /\ phase' = "loop"
<1>1. /\ batch' = [t \in Slots |-> Idle] /\ ranked' = R /\ phase' = "loop"
  BY DEF EndWave
<1> QED  BY <1>1, IdleWork DEF Verdicts

(* The end of an attempt neither adds work nor invents results.            *)
LEMMA AttemptWork ==
    ASSUME TypeOK, NEW s \in Slots, NEW b \in Batches, Chunked(b),
           \A t \in Slots : Chunked(batch[t]), AttemptEnds(s, b), phase = "wave"
    PROVE  /\ \A t \in Slots : Chunked(batch'[t])
           /\ \A t \in Slots \ {s} : WorkOf(batch'[t]) \subseteq WorkOf(batch[t])
           /\ WorkOf(batch'[s]) \subseteq WorkOf(b)
           /\ \A r \in Verdicts' : r \in Verdicts \/ r \in b.ranked \/ r \in b.got
           /\ phase' \in {"loop", "wave"}
<1>0. DOMAIN batch = Slots
  BY DEF TypeOK
<1>1. CASE NextChunk(s, b)
  <2>1. PICK S \in b.pending :
          batch' = [batch EXCEPT ![s] =
                      [b EXCEPT !.st = "starting", !.entries = S, !.pending = @ \ {S}]]
    BY <1>1 DEF NextChunk
  <2> DEFINE n == [b EXCEPT !.st = "starting", !.entries = S, !.pending = @ \ {S}]
  <2>2. n.entries = S /\ n.pending = b.pending \ {S} /\ n.ranked = b.ranked /\ n.got = b.got
    BY DEF Batches
  <2>3. batch'[s] = n /\ \A t \in Slots \ {s} : batch'[t] = batch[t]
    BY <1>0, <2>1
  <2>4. ranked' = ranked /\ phase' = phase
    BY <1>1 DEF NextChunk
  <2> HIDE DEF n
  <2>5. Chunked(n)
    BY <2>2 DEF Chunked
  <2>6. WorkOf(n) \subseteq WorkOf(b)
    BY <2>2 DEF WorkOf
  <2>7. \A r \in Verdicts' : r \in Verdicts \/ r \in b.ranked \/ r \in b.got
    BY <2>2, <2>3, <2>4 DEF Verdicts
  <2> QED  BY <2>3, <2>4, <2>5, <2>6, <2>7
<1>2. CASE Deliver(s, b)
  <2> DEFINE R == ranked \cup b.ranked
             stop == cancel \/ StopsAt(b) \/ Enough(R, exhausted)
  <2>1. CASE EndWave(R, stop)
    <3>1. /\ \A t \in Slots : WorkOf(batch'[t]) = {} /\ Chunked(batch'[t])
          /\ Verdicts' \subseteq R /\ phase' = "loop"
      BY <2>1, EndWaveWork
    <3>2. \A r \in R : r \in Verdicts \/ r \in b.ranked
      BY DEF Verdicts
    <3> HIDE DEF R, stop
    <3> QED  BY <3>1, <3>2
  <2>2. CASE ranked' = R /\ batch' = [batch EXCEPT ![s] = Idle] /\ phase' = phase
    <3>1. batch'[s] = Idle /\ \A t \in Slots \ {s} : batch'[t] = batch[t]
      BY <1>0, <2>2
    <3>2. \A r \in Verdicts' : r \in Verdicts \/ r \in b.ranked
      BY <2>2, <3>1, IdleWork DEF Verdicts
    <3> QED  BY <2>2, <3>1, <3>2, IdleWork
  <2>3. EndWave(R, stop) \/ (ranked' = R /\ batch' = [batch EXCEPT ![s] = Idle] /\ phase' = phase)
    BY <1>2 DEF Deliver
  <2> QED  BY <2>1, <2>2, <2>3
<1> QED  BY <1>1, <1>2 DEF AttemptEnds

(* An attempt's end after batch s has measured Gone and kept the rest.     *)
LEMMA AttemptQueue ==
    ASSUME TypeOK, QueueInv, phase = "wave", NEW s \in Slots, NEW b \in Batches, Chunked(b),
           NEW Gone \in SUBSET WorkOf(batch[s]), WorkOf(b) \subseteq WorkOf(batch[s]) \ Gone,
           prepared' = prepared, AttemptEnds(s, b),
           \A c \in Queue : c \notin Gone =>
                c \in active' /\ \A x \in Aliases(c)' : reports'[x] = 0
    PROVE  QueueInv' /\ phase' \in {"loop", "wave"}
           /\ \A r \in Verdicts' : r \in Verdicts \/ r \in b.ranked \/ r \in b.got
<1>1. /\ \A t \in Slots : Chunked(batch'[t])
      /\ \A t \in Slots \ {s} : WorkOf(batch'[t]) \subseteq WorkOf(batch[t])
      /\ WorkOf(batch'[s]) \subseteq WorkOf(b)
      /\ \A r \in Verdicts' : r \in Verdicts \/ r \in b.ranked \/ r \in b.got
      /\ phase' \in {"loop", "wave"}
  BY AttemptWork DEF QueueInv
<1>2. \A t \in Slots : WorkOf(batch'[t]) \subseteq WorkOf(batch[t])
  BY <1>1
<1>3. \A c \in Queue' : c \in Queue /\ c \notin Gone
  <2> SUFFICES ASSUME NEW c \in Queue'
               PROVE  c \in Queue /\ c \notin Gone
    OBVIOUS
  <2>1. CASE c \in prepared
    BY <2>1 DEF QueueInv, Queue
  <2>2. ASSUME NEW t \in Slots, c \in WorkOf(batch'[t])
        PROVE  c \in Queue /\ c \notin Gone
    <3>1. c \in WorkOf(batch[t])
      BY <1>2, <2>2
    <3>2. CASE t = s
      BY <1>1, <2>2, <3>1, <3>2 DEF Queue
    <3>3. CASE t # s
      BY <3>1, <3>3 DEF QueueInv, Queue
    <3> QED  BY <3>2, <3>3
  <2> QED  BY <2>1, <2>2 DEF Queue
<1>4. QueueInv'
  BY <1>1, <1>2, <1>3, QueueShrinks
<1> QED  BY <1>1, <1>4

LEMMA BatchMeasures ==
    ASSUME MeasureInv, TypeOK', phase = "wave", NEW s \in Slots, BatchStep(s)
    PROVE  Counted' /\ QueueInv' /\ DeadInv' /\ phase' \in {"loop", "wave"}
<1> USE DEF MeasureInv
<1>0. /\ batch[s] \in Batches /\ Chunked(batch[s]) /\ DOMAIN batch = Slots
      /\ batch[s].entries \subseteq WorkOf(batch[s]) /\ WorkOf(batch[s]) \subseteq Queue
  BY DEF TypeOK, QueueInv, Queue, WorkOf
<1>1. active' = active /\ dead' = dead /\ prepared' = prepared
  BY DEF BatchStep, Ready, Rejects, Splits, GivesUp, Answer, AnswerLost, Cleanup,
         OfBatch, screen
<1>2. CASE \/ Ready(s) \/ AnswerLost(s)
  <2>1. \/ batch' = [batch EXCEPT ![s] = [batch[s] EXCEPT !.st = "stopping", !.entries = {}]]
        \/ batch' = [batch EXCEPT ![s] = [batch[s] EXCEPT !.st = "testing"]]
    BY <1>2 DEF Ready, AnswerLost
  <2>2. UNCHANGED counts /\ ranked' = ranked /\ phase' = phase
    BY <1>2 DEF Ready, AnswerLost
  <2>3. /\ batch'[s].entries \in {{}, batch[s].entries} /\ batch'[s].pending = batch[s].pending
        /\ batch'[s].ranked = batch[s].ranked /\ batch'[s].got = batch[s].got
        /\ \A t \in Slots \ {s} : batch'[t] = batch[t]
    <3>1. CASE batch' = [batch EXCEPT ![s] = [batch[s] EXCEPT !.st = "stopping", !.entries = {}]]
      <4> DEFINE n == [batch[s] EXCEPT !.st = "stopping", !.entries = {}]
      <4>1. /\ n.entries = {} /\ n.pending = batch[s].pending
            /\ n.ranked = batch[s].ranked /\ n.got = batch[s].got
        BY <1>0 DEF Batches
      <4> HIDE DEF n
      <4> QED  BY <1>0, <3>1, <4>1 DEF n
    <3>2. CASE batch' = [batch EXCEPT ![s] = [batch[s] EXCEPT !.st = "testing"]]
      <4> DEFINE n == [batch[s] EXCEPT !.st = "testing"]
      <4>1. /\ n.entries = batch[s].entries /\ n.pending = batch[s].pending
            /\ n.ranked = batch[s].ranked /\ n.got = batch[s].got
        BY <1>0 DEF Batches
      <4> HIDE DEF n
      <4> QED  BY <1>0, <3>2, <4>1 DEF n
    <3> QED  BY <2>1, <3>1, <3>2
  <2>4. Verdicts' \subseteq Verdicts
    BY <2>2, <2>3 DEF Verdicts
  <2>5. \A t \in Slots : WorkOf(batch'[t]) \subseteq WorkOf(batch[t]) /\ Chunked(batch'[t])
    BY <2>3 DEF WorkOf, Chunked, QueueInv
  <2>6. /\ Counted' /\ DeadInv'
        /\ \A c \in Queue : c \in active' /\ \A x \in Aliases(c)' : reports'[x] = 0
    BY <1>1, <2>2, <2>4, MeasuresNothing
  <2>7. Queue' \subseteq Queue
    BY <1>1, <2>5 DEF Queue
  <2>8. QueueInv'
    BY <1>1, <2>5, <2>6, <2>7, QueueShrinks
  <2> QED  BY <2>2, <2>6, <2>8
<1>3. CASE Answer(s)
  <2>1. PICK c \in batch[s].entries, ok \in BOOLEAN :
          LET got  == batch[s].got \cup Verdict({c}, ok)
              rest == batch[s].entries \ {c}
              stop == Enough(batch[s].ranked \cup got, batch[s].exhausted)
          IN /\ Report({c}, IF ok THEN {c} ELSE {})
             /\ cancel' = stop
             /\ batch' = [batch EXCEPT ![s] =
                  [batch[s] EXCEPT !.got = got,
                            !.entries = IF stop THEN {} ELSE rest,
                            !.st = IF stop \/ rest = {} THEN "stopping" ELSE @]]
    BY <1>3 DEF Answer
  <2> DEFINE Good == IF ok THEN {c} ELSE {}
  <2>2. /\ batch'[s].entries \subseteq batch[s].entries \ {c}
        /\ batch'[s].pending = batch[s].pending
        /\ batch'[s].ranked = batch[s].ranked
        /\ batch'[s].got = batch[s].got \cup Verdict({c}, ok)
        /\ \A t \in Slots \ {s} : batch'[t] = batch[t]
    BY <1>0, <2>1 DEF Batches
  <2>3. ranked' = ranked /\ phase' = phase
    BY <1>3 DEF Answer
  <2>4. \A r \in Verdicts' : r \in Verdicts \/ r \in Verdict({c}, ok)
    <3> DEFINE V == Verdict({c}, ok)
    <3>1. batch'[s].got = batch[s].got \cup V /\ batch'[s].ranked = batch[s].ranked
      BY <2>2
    <3> HIDE DEF V
    <3>2. \A r \in Verdicts' : r \in Verdicts \/ r \in V
      BY <2>2, <2>3, <3>1 DEF Verdicts
    <3> QED  BY <3>2 DEF V
  <2>5. \A r \in Verdict({c}, ok) : r.cand \in {c} /\ (r.reachable <=> r.cand \in Good)
    BY DEF Verdict
  <2>6. c \in Queue /\ c \in EntryOf({c})
    BY <1>0, <2>1 DEF QueueInv, Fresh, EntryOf, Aliases
  <2>7. Report({c}, Good)
    BY <2>1
  <2>8. {c} \in SUBSET Queue /\ Good \in SUBSET {c} /\ {c} \in SUBSET EntryOf({c})
    BY <2>6
  <2>9. \A r \in Verdicts' : \/ r \in Verdicts
                             \/ r.cand \in {c} /\ (r.reachable <=> r.cand \in Good)
    BY <2>4, <2>5
  <2> HIDE DEF Good
  <2>10. /\ Counted' /\ DeadInv'
         /\ \A d \in Queue : d \notin {c} =>
              d \in active' /\ \A x \in Aliases(d)' : reports'[x] = 0
    BY <1>1, <2>7, <2>8, <2>9, Measures
  <2>11. \A t \in Slots : WorkOf(batch'[t]) \subseteq WorkOf(batch[t]) /\ Chunked(batch'[t])
    BY <2>2 DEF WorkOf, Chunked, QueueInv
  <2>12. c \notin WorkOf(batch'[s])
    BY <1>0, <2>1, <2>2 DEF WorkOf, Chunked
  <2>13. \A d \in Queue' : d \in Queue /\ d \notin {c}
    <3>1. c \in WorkOf(batch[s])
      BY <1>0
    <3>2. c \notin prepared /\ \A t \in Slots \ {s} : c \notin WorkOf(batch[t])
      BY <3>1 DEF QueueInv
    <3> QED  BY <1>1, <2>11, <2>12, <3>2 DEF Queue
  <2>14. QueueInv'
    BY <1>1, <2>10, <2>11, <2>13, QueueShrinks
  <2> QED  BY <2>3, <2>10, <2>14
<1>4. CASE Rejects(s)
  <2>1. PICK c \in batch[s].entries : Report(Aliases(c), {}) /\ AttemptEnds(s, Without(s, c))
    BY <1>4 DEF Rejects
  <2> DEFINE b == Without(s, c)
             rest == batch[s].entries \ {c}
  <2>0. /\ \A P \in batch[s].pending : P \cap rest = {}
        /\ \A P, Q \in batch[s].pending : P = Q \/ P \cap Q = {}
    BY <1>0 DEF Chunked
  <2>2. /\ b \in Batches /\ b.entries = {} /\ b.got = batch[s].got
        /\ b.ranked = batch[s].ranked \cup Failed({c})
        /\ b.pending = IF rest = {} THEN batch[s].pending ELSE batch[s].pending \cup {rest}
    BY <1>0, AttemptRecords DEF Without, Batches
  <2> HIDE DEF b
  <2>3. Chunked(b)
    <3> HIDE DEF rest
    <3>1. \A P \in b.pending : P \in batch[s].pending \/ P = rest
      BY <2>2
    <3>2. \A P, Q \in b.pending : P = Q \/ P \cap Q = {}
      BY <2>0, <3>1
    <3> QED  BY <2>2, <3>2 DEF Chunked
  <2>4. WorkOf(b) \subseteq WorkOf(batch[s]) \ {c}
    BY <1>0, <2>1, <2>2 DEF WorkOf, Chunked
  <2>5. c \in Queue /\ c \in Aliases(c) /\ Aliases(c) = EntryOf({c})
    BY <1>0, <2>1 DEF QueueInv, Fresh, EntryOf, Aliases
  <2>6. {c} \in SUBSET Queue /\ {} \in SUBSET {c} /\ Aliases(c) \in SUBSET EntryOf({c})
        /\ {c} \subseteq Aliases(c) /\ {c} \in SUBSET WorkOf(batch[s])
    BY <1>0, <2>1, <2>5
  <2>7. \A r \in Verdicts' : r \in Verdicts \/ r \in b.ranked \/ r \in b.got
    BY <2>1, <2>2, <2>3, AttemptWork DEF QueueInv, b
  <2>8. \A r \in Verdicts' : \/ r \in Verdicts
                             \/ r.cand \in {c} /\ (r.reachable <=> r.cand \in {})
    BY <2>2, <2>7 DEF Failed, Verdict, Verdicts
  <2>9. /\ Counted' /\ DeadInv'
        /\ \A d \in Queue : d \notin {c} =>
              d \in active' /\ \A x \in Aliases(d)' : reports'[x] = 0
    BY <1>1, <2>1, <2>6, <2>8, Measures
  <2>10. AttemptEnds(s, b)
    BY <2>1 DEF b
  <2> QED  BY <1>1, <2>2, <2>3, <2>4, <2>6, <2>9, <2>10, AttemptQueue
<1>5. CASE Splits(s)
  <2>1. PICK left \in SUBSET batch[s].entries : AttemptEnds(s, Halved(s, left))
    BY <1>5 DEF Splits
  <2> DEFINE b == Halved(s, left)
  <2>2. /\ b \in Batches /\ b.entries = {} /\ b.got = batch[s].got
        /\ b.ranked = batch[s].ranked
        /\ b.pending = batch[s].pending \cup {left, batch[s].entries \ left}
    BY <1>0, AttemptRecords DEF Halved, Batches
  <2>10. AttemptEnds(s, b)
    BY <2>1
  <2> HIDE DEF b
  <2>3. Chunked(b)
    <3> DEFINE right == batch[s].entries \ left
    <3>1. /\ \A P \in batch[s].pending : P \cap left = {} /\ P \cap right = {}
          /\ \A P, Q \in batch[s].pending : P = Q \/ P \cap Q = {}
          /\ left \cap right = {}
      BY <1>0, <2>1 DEF Chunked
    <3>2. \A P \in b.pending : P \in batch[s].pending \/ P = left \/ P = right
      BY <2>2
    <3> HIDE DEF right
    <3>3. \A P, Q \in b.pending : P = Q \/ P \cap Q = {}
      BY <3>1, <3>2
    <3> QED  BY <2>2, <3>3 DEF Chunked
  <2>4. WorkOf(b) \subseteq WorkOf(batch[s]) \ {}
    BY <1>0, <2>1, <2>2 DEF WorkOf, Chunked
  <2>5. \A r \in Verdicts' : r \in Verdicts \/ r \in b.ranked \/ r \in b.got
    BY <2>2, <2>3, <2>10, AttemptWork DEF QueueInv
  <2>6. Verdicts' \subseteq Verdicts
    BY <2>2, <2>5 DEF Verdicts
  <2>7. UNCHANGED counts
    BY <1>5 DEF Splits
  <2>8. /\ Counted' /\ DeadInv'
        /\ \A c \in Queue : c \in active' /\ \A x \in Aliases(c)' : reports'[x] = 0
    BY <1>1, <2>6, <2>7, MeasuresNothing
  <2>9. {} \in SUBSET WorkOf(batch[s])
    OBVIOUS
  <2> QED  BY <1>1, <2>2, <2>3, <2>4, <2>8, <2>9, <2>10, AttemptQueue
<1>6. CASE GivesUp(s)
  <2> DEFINE b == GivenUp(s)
             E == batch[s].entries
  <2>1. Report(EntryOf(E), {}) /\ AttemptEnds(s, b)
    BY <1>6 DEF GivesUp
  <2>2. /\ b \in Batches /\ b.entries = {} /\ b.got = batch[s].got
        /\ b.ranked = batch[s].ranked \cup Failed(E)
        /\ b.pending = batch[s].pending
    BY <1>0, AttemptRecords DEF GivenUp, Batches
  <2> HIDE DEF b
  <2>3. Chunked(b)
    BY <1>0, <2>2 DEF Chunked
  <2>4. WorkOf(b) \subseteq WorkOf(batch[s]) \ E
    BY <1>0, <2>2 DEF WorkOf, Chunked
  <2>5. E \subseteq EntryOf(E)
    BY <1>0 DEF QueueInv, Fresh, EntryOf, Aliases
  <2>6. E \in SUBSET Queue /\ {} \in SUBSET E /\ EntryOf(E) \in SUBSET EntryOf(E)
        /\ E \in SUBSET WorkOf(batch[s])
    BY <1>0
  <2>7. \A r \in Verdicts' : r \in Verdicts \/ r \in b.ranked \/ r \in b.got
    BY <2>1, <2>2, <2>3, AttemptWork DEF QueueInv
  <2>8. \A r \in Verdicts' : \/ r \in Verdicts
                             \/ r.cand \in E /\ (r.reachable <=> r.cand \in {})
    BY <2>2, <2>7 DEF Failed, Verdict, Verdicts
  <2> HIDE DEF E
  <2>9. /\ Counted' /\ DeadInv'
        /\ \A d \in Queue : d \notin E =>
              d \in active' /\ \A x \in Aliases(d)' : reports'[x] = 0
    BY <1>1, <2>1, <2>5, <2>6, <2>8, Measures
  <2> QED  BY <1>1, <2>1, <2>2, <2>3, <2>4, <2>6, <2>9, AttemptQueue
<1>7. CASE Cleanup(s)
  <2> DEFINE b == Returned(s)
  <2>1. AttemptEnds(s, b) /\ UNCHANGED counts
    BY <1>7 DEF Cleanup
  <2>2. /\ b \in Batches /\ b.entries = batch[s].entries /\ b.got = {}
        /\ b.ranked = batch[s].ranked \cup batch[s].got
        /\ b.pending = batch[s].pending
    BY <1>0, AttemptRecords DEF Returned, Batches
  <2> HIDE DEF b
  <2>3. Chunked(b)
    BY <1>0, <2>2 DEF Chunked
  <2>4. WorkOf(b) \subseteq WorkOf(batch[s]) \ {}
    BY <2>2 DEF WorkOf
  <2>5. \A r \in Verdicts' : r \in Verdicts \/ r \in b.ranked \/ r \in b.got
    BY <2>1, <2>2, <2>3, AttemptWork DEF QueueInv
  <2>6. Verdicts' \subseteq Verdicts
    BY <2>2, <2>5 DEF Verdicts
  <2>8. /\ Counted' /\ DeadInv'
        /\ \A c \in Queue : c \in active' /\ \A x \in Aliases(c)' : reports'[x] = 0
    BY <1>1, <2>1, <2>6, MeasuresNothing
  <2>9. {} \in SUBSET WorkOf(batch[s])
    OBVIOUS
  <2> QED  BY <1>1, <2>1, <2>2, <2>3, <2>4, <2>8, <2>9, AttemptQueue
<1> QED  BY <1>2, <1>3, <1>4, <1>5, <1>6, <1>7 DEF BatchStep

(* The queue is made of candidates nobody has counted, the dead aside.     *)
LEMMA PrepareMeasures ==
    ASSUME TypeOK, NEW A \in SUBSET Cands, NEW D \in SUBSET Cands, A \cap D = {},
           Prepare(A, D), dead' = D, batch' = [s \in Slots |-> Idle],
           working = {}, \A c \in Cands : reports[c] = 0
    PROVE  Counted' /\ QueueInv' /\ DeadInv' /\ phase' = "loop"
<1> DEFINE bad == {c \in A : DefOf[c] = Unsupported}
<1>1. /\ ranked' = Failed(bad) /\ active' = A /\ prepared' \subseteq A \ bad
      /\ phase' = "loop" /\ Report(D \cup bad, {})
      /\ \A q, r \in prepared' : DefOf[q] = DefOf[r] => q = r
  BY DEF Prepare
<1>2. /\ working' = {}
      /\ \A c \in Cands : reports'[c] = IF c \in D \cup bad THEN 1 ELSE 0
  BY <1>1 DEF Report, TypeOK
<1>3. Verdicts' = Failed(bad)
  BY <1>1, IdleWork DEF Verdicts
<1>4. \A r \in Verdicts' : r.cand \in bad /\ r.reachable = FALSE
                           /\ r = [cand |-> r.cand, reachable |-> FALSE]
  BY <1>3 DEF Failed, Verdict
<1>5. Counted'
  <2>1. \A q, r \in Verdicts' : q.cand = r.cand => q = r
    <3> SUFFICES ASSUME NEW q \in Verdicts', NEW r \in Verdicts', q.cand = r.cand
                 PROVE  q = r
      OBVIOUS
    <3> QED  BY <1>4
  <2>2. \A r \in Verdicts' : reports'[r.cand] = 1 /\ (r.reachable <=> r.cand \in working')
    BY <1>2, <1>4
  <2> QED  BY <1>2, <2>1, <2>2 DEF Counted, MeasuredOnce
<1>6. \A s \in Slots : WorkOf(batch'[s]) = {} /\ Chunked(batch'[s])
  BY IdleWork
<1>7. Queue' = prepared'
  BY <1>6 DEF Queue
<1>8. Fresh(Queue)'
  <2> SUFFICES ASSUME NEW c \in prepared', NEW x \in A, DefOf[x] = DefOf[c]
               PROVE  c \in active' /\ reports'[x] = 0
    BY <1>1, <1>7 DEF Fresh, Aliases
  <2>1. x \notin bad /\ x \notin D /\ x \in Cands
    BY <1>1
  <2> QED  BY <1>1, <1>2, <2>1
<1>9. QueueInv'
  BY <1>1, <1>6, <1>7, <1>8 DEF QueueInv
<1>10. DeadInv'
  <2> SUFFICES ASSUME NEW c \in D
               PROVE  /\ c \notin active' /\ reports'[c] = 1 /\ c \notin working'
                      /\ \A r \in Verdicts' : r.cand # c
    BY DEF DeadInv
  <2> QED  BY <1>1, <1>2, <1>4
<1> QED  BY <1>1, <1>5, <1>9, <1>10

(* A step that only moves between phases.                                  *)
LEMMA PhaseOnly ==
    ASSUME MeasureInv, UNCHANGED <<active, dead, prepared, batch, ranked, reports, working>>,
           phase \in {"loop", "fill", "wave"}
    PROVE  Counted' /\ QueueInv' /\ DeadInv'
<1>1. Verdicts' = Verdicts
  BY DEF Verdicts
<1>2. Counted'
  BY <1>1 DEF MeasureInv, Counted, MeasuredOnce
<1>3. DeadInv'
  BY <1>1 DEF MeasureInv, DeadInv
<1>4. QueueInv'
  BY DEF MeasureInv, QueueInv, Queue, Fresh, Aliases
<1> QED  BY <1>2, <1>3, <1>4

LEMMA StepMeasures ==
    ASSUME MeasureInv, [Next]_vars, TypeOK'
    PROVE  MeasureInv'
<1> USE DEF MeasureInv
<1>1. CASE Unavailable
  <2>1. /\ phase' = "done" /\ ranked' = Failed(Cands) /\ Report(Cands, {})
        /\ UNCHANGED <<active, prepared, batch>>
    BY <1>1 DEF Unavailable, screen
  <2>2. /\ active = {} /\ prepared = {} /\ batch = [s \in Slots |-> Idle]
        /\ working = {} /\ \A c \in Cands : reports[c] = 0
    BY <1>1 DEF Unavailable, ScreenInv
  <2>3. working' = {} /\ \A c \in Cands : reports'[c] = 1
    BY <2>1, <2>2 DEF Report
  <2>4. \A r \in Verdicts' : r.cand \in Cands /\ r.reachable = FALSE
                             /\ r = [cand |-> r.cand, reachable |-> FALSE]
    BY <2>1, <2>2, IdleWork DEF Verdicts, Failed, Verdict
  <2>5. Counted'
    <3>1. \A q, r \in Verdicts' : q.cand = r.cand => q = r
      <4> SUFFICES ASSUME NEW q \in Verdicts', NEW r \in Verdicts', q.cand = r.cand
                   PROVE  q = r
        OBVIOUS
      <4> QED  BY <2>4
    <3>2. \A r \in Verdicts' : reports'[r.cand] = 1 /\ (r.reachable <=> r.cand \in working')
      BY <2>3, <2>4
    <3> QED  BY <2>3, <3>1, <3>2 DEF Counted, MeasuredOnce
  <2>6. \A s \in Slots : WorkOf(batch'[s]) = {} /\ Chunked(batch'[s])
    BY <2>1, <2>2, IdleWork
  <2>7. Queue' = {}
    BY <2>1, <2>2, <2>6 DEF Queue
  <2>8. QueueInv'
    BY <2>6, <2>7 DEF QueueInv, Fresh
  <2> QED  BY <2>1, <2>5, <2>8 DEF ScreenInv, DeadInv
<1>2. CASE StartActive
  <2>1. /\ Prepare(Cands, {}) /\ UNCHANGED <<dead, batch>> /\ phase = "start"
    BY <1>2 DEF StartActive
  <2>2. /\ dead = {} /\ batch = [s \in Slots |-> Idle]
        /\ working = {} /\ \A c \in Cands : reports[c] = 0
    BY <2>1 DEF ScreenInv
  <2>3. Cands \in SUBSET Cands /\ {} \in SUBSET Cands /\ Cands \cap {} = {}
    OBVIOUS
  <2>4. Counted' /\ QueueInv' /\ DeadInv' /\ phase' = "loop"
    BY <2>1, <2>2, <2>3, PrepareMeasures
  <2> QED  BY <2>4 DEF ScreenInv
<1>3. CASE StartSweep
  <2>1. /\ phase = "start" /\ phase' \in {"screen", "tcp"}
        /\ UNCHANGED <<passed, dead, active, prepared, batch, ranked, reports, working>>
        /\ waiting' \subseteq Cands /\ (phase' = "screen" => waiting' = Cands \ Udp)
    BY <1>3 DEF StartSweep, counts
  <2>2. Verdicts' = Verdicts
    BY <2>1 DEF Verdicts
  <2>3. Counted'
    BY <2>1, <2>2 DEF Counted, MeasuredOnce
  <2>4. QueueInv'
    BY <2>1 DEF QueueInv, Queue, Fresh, Aliases
  <2>5. ScreenInv'
    BY <2>1 DEF ScreenInv
  <2> QED  BY <2>1, <2>3, <2>4, <2>5 DEF DeadInv
<1>4. CASE TcpAnswer
  <2>1. PICK c \in waiting, ok \in BOOLEAN :
          /\ waiting' = waiting \ {c}
          /\ ranked' = ranked \cup Verdict({c}, ok)
          /\ Report({c}, IF ok THEN {c} ELSE {})
    BY <1>4 DEF TcpAnswer
  <2>2. /\ phase = "tcp" /\ phase' \in {"tcp", "done"}
        /\ UNCHANGED <<passed, dead, active, prepared, batch>>
    BY <1>4 DEF TcpAnswer
  <2>3. /\ active = {} /\ prepared = {} /\ batch = [s \in Slots |-> Idle]
        /\ passed \cap dead = {} /\ waiting \cap (passed \cup dead) = {}
        /\ \A d \in waiting : reports[d] = 0
    BY <2>2 DEF ScreenInv
  <2>4. c \in Cands /\ reports[c] = 0
    BY <2>1, <2>3 DEF TypeOK
  <2>5. /\ reports'[c] = 1 /\ \A d \in Cands \ {c} : reports'[d] = reports[d]
        /\ working' = IF ok THEN working \cup {c} ELSE working
    BY <2>1, <2>4 DEF Report, TypeOK
  <2>6. c \notin working /\ \A r \in Verdicts : r.cand # c /\ r.cand \in Cands
    BY <2>4, VerdictsTyped DEF Counted, MeasuredOnce
  <2>7. \A r \in Verdicts' : r \in Verdicts \/ r = [cand |-> c, reachable |-> ok]
    BY <2>1, <2>2 DEF Verdicts, Verdict
  <2>8. \A q, r \in Verdicts' : q.cand = r.cand => q = r
    BY <2>6, <2>7 DEF Counted, MeasuredOnce
  <2>9. \A r \in Verdicts' : reports'[r.cand] = 1 /\ (r.reachable <=> r.cand \in working')
    <3> SUFFICES ASSUME NEW r \in Verdicts'
                 PROVE  reports'[r.cand] = 1 /\ (r.reachable <=> r.cand \in working')
      OBVIOUS
    <3>1. CASE r \in Verdicts
      BY <2>5, <2>6, <3>1 DEF Counted, MeasuredOnce
    <3>2. CASE r = [cand |-> c, reachable |-> ok]
      BY <2>5, <2>6, <3>2
    <3> QED  BY <2>7, <3>1, <3>2
  <2>10. \A d \in Cands : reports'[d] <= 1
    BY <2>5 DEF Counted, MeasuredOnce
  <2>11. \A d \in working' : reports'[d] = 1
    BY <2>4, <2>5 DEF Counted, TypeOK
  <2>12. Counted'
    BY <2>8, <2>9, <2>10, <2>11 DEF Counted, MeasuredOnce
  <2>13. \A s \in Slots : WorkOf(batch'[s]) = {} /\ Chunked(batch'[s])
    BY <2>2, <2>3, IdleWork
  <2>14. Queue' = {}
    BY <2>2, <2>3, <2>13 DEF Queue
  <2>15. QueueInv'
    BY <2>13, <2>14 DEF QueueInv, Fresh
  <2>16. ScreenInv'
    BY <2>1, <2>2, <2>3, <2>5 DEF ScreenInv, TypeOK
  <2> QED  BY <2>2, <2>12, <2>15, <2>16 DEF DeadInv
<1>5. CASE SweepAnswer
  <2>1. PICK c \in waiting, ok \in BOOLEAN :
         /\ waiting' = waiting \ {c}
         /\ passed' = IF ok THEN passed \cup {c} ELSE passed
         /\ dead' = IF ok THEN dead ELSE dead \cup {c}
    BY <1>5 DEF SweepAnswer
  <2>2. phase = "screen" /\ batch' = batch
    BY <1>5 DEF SweepAnswer
  <2>3. /\ active = {} /\ prepared = {} /\ batch = [s \in Slots |-> Idle]
        /\ passed \cap dead = {} /\ waiting \cap (passed \cup dead) = {}
        /\ ranked = {} /\ working = {} /\ \A d \in Cands : reports[d] = 0
        /\ (waiting \cup passed \cup dead) \cap Udp = {}
    BY <2>2 DEF ScreenInv
  <2>4. /\ passed' \cap dead' = {} /\ waiting' \cap (passed' \cup dead') = {}
        /\ (waiting' \cup passed' \cup dead') \cap Udp = {}
        /\ passed' \subseteq Cands /\ dead' \subseteq Cands
    BY <2>1, <2>3 DEF TypeOK
  <2>5. CASE UNCHANGED <<phase, active, prepared, ranked, counts, remaining, exhausted>>
    <3>1. UNCHANGED <<phase, active, prepared, ranked, reports, working>>
      BY <2>5 DEF counts
    <3>2. Verdicts' = Verdicts
      BY <2>2, <3>1 DEF Verdicts
    <3>3. Counted'
      BY <3>1, <3>2 DEF Counted, MeasuredOnce
    <3>4. QueueInv'
      BY <2>2, <3>1 DEF QueueInv, Queue, Fresh, Aliases
    <3>5. ScreenInv'
      BY <2>2, <2>3, <2>4, <3>1 DEF ScreenInv
    <3> QED  BY <2>2, <3>1, <3>3, <3>4, <3>5 DEF DeadInv
  <2>6. CASE Prepare((Cands \cap Udp) \cup passed', dead')
    <3>1. /\ (Cands \cap Udp) \cup passed' \in SUBSET Cands /\ dead' \in SUBSET Cands
          /\ ((Cands \cap Udp) \cup passed') \cap dead' = {}
      BY <2>4
    <3>2. batch' = [s \in Slots |-> Idle]
      BY <2>2, <2>3
    <3>3. Counted' /\ QueueInv' /\ DeadInv' /\ phase' = "loop"
      BY <2>3, <2>6, <3>1, <3>2, PrepareMeasures
    <3> QED  BY <3>3 DEF ScreenInv
  <2> QED  BY <1>5, <2>5, <2>6 DEF SweepAnswer
<1>6. CASE BeginWave
  <2>1. /\ phase = "loop" /\ phase' = "fill"
        /\ UNCHANGED <<active, dead, prepared, batch, ranked, reports, working>>
    BY <1>6 DEF BeginWave, screen, counts
  <2> QED  BY <2>1, PhaseOnly DEF ScreenInv
<1>7. CASE QueueBatch
  <2>1. PICK s \in Slots, S \in SUBSET prepared :
         /\ prepared' = prepared \ S
         /\ batch' = [batch EXCEPT ![s] =
              [Idle EXCEPT !.st = "starting", !.entries = S,
                           !.exhausted = policy.previous # {} /\ ToSearch(S) = 0]]
    BY <1>7 DEF QueueBatch
  <2>2. /\ phase = "fill" /\ phase' = "fill"
        /\ UNCHANGED <<active, dead, ranked, reports, working>>
    BY <1>7 DEF QueueBatch, screen, counts
  <2> DEFINE n == [Idle EXCEPT !.st = "starting", !.entries = S,
                               !.exhausted = policy.previous # {} /\ ToSearch(S) = 0]
  <2>3. n.entries = S /\ n.pending = {} /\ n.ranked = {} /\ n.got = {}
    BY DEF Idle
  <2>4. batch'[s] = n /\ \A t \in Slots \ {s} : batch'[t] = batch[t]
    BY <2>1 DEF TypeOK
  <2> HIDE DEF n
  <2>5. WorkOf(n) = S /\ Chunked(n)
    BY <2>3 DEF WorkOf, Chunked
  <2>6. Verdicts' \subseteq Verdicts
    BY <2>2, <2>3, <2>4 DEF Verdicts
  <2>7. /\ Counted' /\ DeadInv'
        /\ \A c \in Queue : c \in active' /\ \A x \in Aliases(c)' : reports'[x] = 0
    BY <2>2, <2>6, MeasuresNothing DEF counts
  <2>8. Queue' \subseteq Queue
    BY <2>1, <2>4, <2>5 DEF Queue
  <2>9. Fresh(Queue)'
    BY <2>7, <2>8 DEF Fresh
  <2>10. \A t \in Slots : Chunked(batch'[t]) /\ prepared' \cap WorkOf(batch'[t]) = {}
    BY <2>1, <2>4, <2>5 DEF QueueInv
  <2>11. \A t, u \in Slots : t # u => WorkOf(batch'[t]) \cap WorkOf(batch'[u]) = {}
    <3>1. \A t \in Slots : prepared \cap WorkOf(batch[t]) = {}
      BY DEF QueueInv
    <3>2. \A t, u \in Slots : t # u => WorkOf(batch[t]) \cap WorkOf(batch[u]) = {}
      BY DEF QueueInv
    <3> QED  BY <2>4, <2>5, <3>1, <3>2
  <2>12. \A c, d \in Queue' : DefOf[c] = DefOf[d] => c = d
    BY <2>8 DEF QueueInv
  <2>13. QueueInv'
    BY <2>9, <2>10, <2>11, <2>12 DEF QueueInv
  <2> QED  BY <2>2, <2>7, <2>13 DEF ScreenInv
<1>8. CASE LaunchWave
  <2>1. /\ phase = "fill" /\ UNCHANGED <<active, dead, prepared, reports, working>>
    BY <1>8 DEF LaunchWave, screen, counts
  <2>2. CASE phase' = "wave" /\ UNCHANGED <<batch, search, cancel, ranked>>
    BY <2>1, <2>2, PhaseOnly DEF ScreenInv
  <2>3. CASE EndWave(ranked, cancel)
    <3>1. /\ \A t \in Slots : WorkOf(batch'[t]) = {} /\ Chunked(batch'[t])
          /\ Verdicts' \subseteq ranked /\ phase' = "loop"
      BY <2>3, EndWaveWork
    <3>2. Verdicts' \subseteq Verdicts
      BY <3>1 DEF Verdicts
    <3>3. /\ Counted' /\ DeadInv'
          /\ \A c \in Queue : c \in active' /\ \A x \in Aliases(c)' : reports'[x] = 0
      BY <2>1, <3>2, MeasuresNothing DEF counts
    <3>4. Queue' \subseteq Queue
      BY <2>1, <3>1 DEF Queue
    <3>5. QueueInv'
      BY <2>1, <3>1, <3>3, <3>4, QueueShrinks
    <3> QED  BY <3>1, <3>3, <3>5 DEF ScreenInv
  <2> QED  BY <1>8, <2>2, <2>3 DEF LaunchWave
<1>9. CASE Finish
  <2>1. /\ phase = "loop" /\ phase' = "done" /\ ranked' = ranked \cup Failed(dead)
        /\ UNCHANGED <<active, dead, prepared, batch, reports, working>>
    BY <1>9 DEF Finish, screen, counts
  <2>2. \A r \in Verdicts' : r \in Verdicts \/ r \in Failed(dead)
    BY <2>1 DEF Verdicts
  <2>3. \A r \in Failed(dead) :
          /\ r.cand \in dead /\ r.reachable = FALSE /\ r = [cand |-> r.cand, reachable |-> FALSE]
    BY DEF Failed, Verdict
  <2>4. \A c \in dead : reports[c] = 1 /\ c \notin working /\ \A r \in Verdicts : r.cand # c
    BY <2>1 DEF DeadInv
  <2>5. \A q, r \in Verdicts' : q.cand = r.cand => q = r
    <3>1. \A q, r \in Verdicts : q.cand = r.cand => q = r
      BY DEF Counted, MeasuredOnce
    <3>2. \A q, r \in Failed(dead) : q.cand = r.cand => q = r
      <4> SUFFICES ASSUME NEW q \in Failed(dead), NEW r \in Failed(dead), q.cand = r.cand
                   PROVE  q = r
        OBVIOUS
      <4> QED  BY <2>3
    <3>3. \A q \in Failed(dead), r \in Verdicts : q.cand # r.cand
      BY <2>3, <2>4
    <3> HIDE DEF Verdicts
    <3> QED  BY <2>2, <3>1, <3>2, <3>3
  <2>6. \A r \in Verdicts' : reports'[r.cand] = 1 /\ (r.reachable <=> r.cand \in working')
    BY <2>1, <2>2, <2>3, <2>4 DEF Counted, MeasuredOnce
  <2>7. Counted'
    BY <2>1, <2>5, <2>6 DEF Counted, MeasuredOnce
  <2>8. QueueInv'
    BY <2>1 DEF QueueInv, Queue, Fresh, Aliases
  <2> QED  BY <2>1, <2>7, <2>8 DEF ScreenInv, DeadInv
<1>10. CASE phase = "wave" /\ \E s \in Slots : BatchStep(s)
  <2>1. PICK s \in Slots : BatchStep(s)
    BY <1>10
  <2> QED  BY <1>10, <2>1, BatchMeasures DEF ScreenInv
<1>11. CASE DeadlinePasses
  <2>1. UNCHANGED <<phase, waiting, passed, active, dead, prepared, batch, ranked, reports, working>>
    BY <1>11 DEF DeadlinePasses, screen, counts
  <2>2. Verdicts' = Verdicts
    BY <2>1 DEF Verdicts
  <2> QED  BY <2>1, <2>2 DEF Counted, MeasuredOnce, QueueInv, Queue, Fresh, Aliases,
                             ScreenInv, DeadInv
<1>12. CASE UNCHANGED vars
  BY <1>12 DEF vars, Counted, MeasuredOnce, QueueInv, Queue, Fresh, Aliases, ScreenInv,
               DeadInv, Verdicts
<1> QED
  BY <1>1, <1>2, <1>3, <1>4, <1>5, <1>6, <1>7, <1>8, <1>9, <1>10, <1>11, <1>12
     DEF Next, Proceed

LEMMA InitMeasures == Init => MeasureInv
<1> SUFFICES ASSUME Init PROVE MeasureInv
  OBVIOUS
<1>1. \A s \in Slots : WorkOf(batch[s]) = {} /\ Chunked(batch[s])
                       /\ batch[s].ranked = {} /\ batch[s].got = {}
  BY IdleWork DEF Init
<1>2. Verdicts = {} /\ Queue = {}
  BY <1>1 DEF Init, Verdicts, Queue
<1>3. TypeOK
  BY InitTypes
<1>4. Counted /\ QueueInv /\ ScreenInv /\ DeadInv
  BY <1>1, <1>2 DEF Init, Counted, MeasuredOnce, QueueInv, Fresh, ScreenInv, DeadInv
<1> QED  BY <1>3, <1>4 DEF MeasureInv

(* Whatever sing-box rejects, however batches are split, retried, stopped  *)
(* or dropped, and whatever shares an outbound: a candidate is counted as  *)
(* tested at most once, and the results and the counters agree.            *)
THEOREM Measured == Spec => []MeasuredOnce
<1>1. Init => MeasureInv
  BY InitMeasures
<1>2. MeasureInv /\ [Next]_vars => MeasureInv'
  BY StepTypes, StepMeasures DEF MeasureInv
<1>3. MeasureInv => MeasuredOnce
  BY DEF MeasureInv, Counted
<1> QED  BY <1>1, <1>2, <1>3, PTL DEF Spec

-------------------------------------------------------------------------------
(* The early stop is earned.                                               *)

Working(R) == \A r \in R : r.reachable => r.cand \in working
EnoughWork == ~policy.scanAll /\ Cardinality(working) >= policy.topN

LEMMA EnoughEarns ==
    ASSUME TypeOK, NEW R \in SUBSET Results, NEW W \in SUBSET Cands, NEW e,
           \A r \in R : r.reachable => r.cand \in W, Enough(R, e)
    PROVE  ~policy.scanAll /\ Cardinality(W) >= policy.topN
<1>1. Reached(R) \subseteq W
  BY DEF Reached
<1>2. IsFiniteSet(W)
  BY ProbeAssumption, FS_Subset
<1>3. Cardinality(Reached(R)) <= Cardinality(W)
  BY <1>1, <1>2, FS_Subset
<1>4. Reached(R) \in SUBSET Cands
  BY <1>1
<1>5. Cardinality(Reached(R)) \in Nat /\ Cardinality(W) \in Nat
  BY <1>4, CountCands
<1>6. policy.topN \in Nat
  BY DEF TypeOK, PolicyType
<1>7. ~policy.scanAll /\ Cardinality(Reached(R)) >= policy.topN
  BY DEF Enough
<1> HIDE DEF Reached
<1> QED  BY <1>3, <1>5, <1>6, <1>7

LEMMA EndWaveEarns ==
    ASSUME TypeOK, NEW R \in SUBSET Results, NEW c \in BOOLEAN, Working(R), EndWave(R, c)
    PROVE  cancel' => c \/ EnoughWork
<1>1. cancel' = (c \/ Enough(R, exhausted'))
  BY DEF EndWave
<1>2. working \in SUBSET Cands
  BY DEF TypeOK
<1>3. Enough(R, exhausted') => EnoughWork
  BY <1>2, EnoughEarns DEF Working, EnoughWork
<1> QED  BY <1>1, <1>3

LEMMA AttemptEarns ==
    ASSUME TypeOK, NEW s \in Slots, NEW b \in Batches, Working(ranked), Working(b.ranked),
           AttemptEnds(s, b)
    PROVE  cancel' => cancel \/ EnoughWork
<1>1. CASE NextChunk(s, b)
  BY <1>1 DEF NextChunk
<1>2. CASE Deliver(s, b)
  <2> DEFINE R == ranked \cup b.ranked
             stop == cancel \/ StopsAt(b) \/ Enough(R, exhausted)
  <2>1. R \in SUBSET Results /\ b.ranked \in SUBSET Results /\ stop \in BOOLEAN
        /\ working \in SUBSET Cands
    BY DEF TypeOK, Batches
  <2>2. Working(R)
    BY DEF Working
  <2>3. Enough(R, exhausted) => EnoughWork
    BY <2>1, <2>2, EnoughEarns DEF Working, EnoughWork
  <2>4. StopsAt(b) => EnoughWork
    BY <2>1, EnoughEarns DEF Working, EnoughWork, StopsAt
  <2>5. stop => cancel \/ EnoughWork
    BY <2>3, <2>4
  <2>6. EndWave(R, stop) \/ cancel' = cancel
    BY <1>2 DEF Deliver
  <2> HIDE DEF R, stop
  <2>7. EndWave(R, stop) => (cancel' => stop \/ EnoughWork)
    BY <2>1, <2>2, EndWaveEarns
  <2> QED  BY <2>5, <2>6, <2>7
<1> QED  BY <1>1, <1>2 DEF AttemptEnds

LEMMA HeldWork ==
    ASSUME MeasureInv, NEW s \in Slots
    PROVE  /\ Working(ranked) /\ Working(batch[s].ranked) /\ Working(batch[s].got)
           /\ \A S : Working(Failed(S))
BY DEF MeasureInv, Counted, MeasuredOnce, Working, Verdicts, Failed, Verdict

LEMMA StopEarned ==
    ASSUME MeasureInv, TypeOK', [Next]_vars
    PROVE  cancel' => cancel \/ EnoughWork'
<1> USE DEF MeasureInv
<1>1. ASSUME cancel' = cancel
      PROVE  cancel' => cancel \/ EnoughWork'
  BY <1>1
<1>2. CASE \/ Unavailable \/ StartActive \/ StartSweep \/ TcpAnswer \/ SweepAnswer
           \/ BeginWave \/ QueueBatch \/ Finish \/ DeadlinePasses \/ UNCHANGED vars
  <2>1. cancel' = cancel
    BY <1>2 DEF Unavailable, StartActive, StartSweep, TcpAnswer, SweepAnswer, BeginWave,
                QueueBatch, Finish, DeadlinePasses, vars, flags
  <2> QED  BY <2>1
<1>3. CASE LaunchWave
  <2>1. working' = working /\ policy' = policy
    BY <1>3 DEF LaunchWave, counts
  <2>2. cancel' = cancel \/ EndWave(ranked, cancel)
    BY <1>3 DEF LaunchWave
  <2>3. ranked \in SUBSET Results /\ cancel \in BOOLEAN /\ Working(ranked)
    BY DEF TypeOK, Counted, MeasuredOnce, Working, Verdicts
  <2>4. cancel' => cancel \/ EnoughWork
    BY <2>2, <2>3, EndWaveEarns
  <2> QED  BY <2>1, <2>4 DEF EnoughWork
<1>4. ASSUME NEW s \in Slots, NEW b \in Batches, AttemptEnds(s, b), Working(b.ranked),
             working' = working, policy' = policy
      PROVE  cancel' => cancel \/ EnoughWork'
  <2>1. cancel' => cancel \/ EnoughWork
    BY <1>4, HeldWork, AttemptEarns
  <2> QED  BY <1>4, <2>1 DEF EnoughWork
<1>5. ASSUME NEW s \in Slots, BatchStep(s)
      PROVE  cancel' => cancel \/ EnoughWork'
  <2>0. batch[s] \in Batches
    BY DEF TypeOK
  <2>1. CASE Ready(s) \/ AnswerLost(s)
    BY <2>1 DEF Ready, AnswerLost
  <2>2. CASE Answer(s)
    <3>1. PICK c \in batch[s].entries, ok \in BOOLEAN :
            /\ Report({c}, IF ok THEN {c} ELSE {})
            /\ cancel' = Enough(batch[s].ranked \cup (batch[s].got \cup Verdict({c}, ok)),
                                batch[s].exhausted)
      BY <2>2 DEF Answer
    <3> DEFINE R == batch[s].ranked \cup (batch[s].got \cup Verdict({c}, ok))
    <3>2. policy' = policy /\ working' = working \cup (IF ok THEN {c} ELSE {})
      BY <2>2, <3>1 DEF Answer, OfBatch, Report
    <3>3. c \in Cands
      BY <2>0 DEF Batches
    <3>4. R \in SUBSET Results
      BY <2>0, <3>3, VerdictTypes DEF Batches
    <3>5. \A r \in R : r.reachable => r.cand \in working'
      BY <3>2, HeldWork DEF Working, Verdict
    <3>6. working' \in SUBSET Cands
      BY DEF TypeOK
    <3> HIDE DEF R
    <3>7. cancel' => Enough(R, batch[s].exhausted)
      BY <3>1 DEF R
    <3>8. cancel' => ~policy.scanAll /\ Cardinality(working') >= policy.topN
      BY <3>4, <3>5, <3>6, <3>7, EnoughEarns
    <3> QED  BY <3>2, <3>8 DEF EnoughWork
  <2>3. CASE Rejects(s)
    <3>1. PICK c \in batch[s].entries : Report(Aliases(c), {}) /\ AttemptEnds(s, Without(s, c))
      BY <2>3 DEF Rejects
    <3>2. working' = working /\ policy' = policy
      BY <2>3, <3>1 DEF Rejects, OfBatch, Report
    <3>3. Without(s, c).ranked = batch[s].ranked \cup Failed({c})
      BY <2>0 DEF Without, Batches
    <3>4. Working(Without(s, c).ranked)
      BY <3>3, HeldWork DEF Working
    <3> QED  BY <1>4, <3>1, <3>2, <3>4, AttemptRecords
  <2>4. CASE Splits(s)
    <3>1. PICK left \in SUBSET batch[s].entries : AttemptEnds(s, Halved(s, left))
      BY <2>4 DEF Splits
    <3>2. working' = working /\ policy' = policy
      BY <2>4 DEF Splits, OfBatch, counts
    <3>3. Halved(s, left).ranked = batch[s].ranked
      BY <2>0 DEF Halved, Batches
    <3>4. Working(Halved(s, left).ranked)
      BY <3>3, HeldWork
    <3> QED  BY <1>4, <3>1, <3>2, <3>4, AttemptRecords
  <2>5. CASE GivesUp(s)
    <3>1. Report(EntryOf(batch[s].entries), {}) /\ AttemptEnds(s, GivenUp(s))
      BY <2>5 DEF GivesUp
    <3>2. working' = working /\ policy' = policy
      BY <2>5, <3>1 DEF GivesUp, OfBatch, Report
    <3>3. GivenUp(s).ranked = batch[s].ranked \cup Failed(batch[s].entries)
      BY <2>0 DEF GivenUp, Batches
    <3>4. Working(GivenUp(s).ranked)
      BY <3>3, HeldWork DEF Working
    <3> QED  BY <1>4, <3>1, <3>2, <3>4, AttemptRecords
  <2>6. CASE Cleanup(s)
    <3>1. AttemptEnds(s, Returned(s)) /\ working' = working /\ policy' = policy
      BY <2>6 DEF Cleanup, OfBatch, counts
    <3>3. Returned(s).ranked = batch[s].ranked \cup batch[s].got
      BY <2>0 DEF Returned, Batches
    <3>4. Working(Returned(s).ranked)
      BY <3>3, HeldWork DEF Working
    <3> QED  BY <1>4, <3>1, <3>4, AttemptRecords
  <2> QED  BY <1>5, <2>1, <2>2, <2>3, <2>4, <2>5, <2>6 DEF BatchStep
<1> QED
  BY <1>2, <1>3, <1>5 DEF Next, Proceed

LEMMA WorkGrows ==
    ASSUME TypeOK, TypeOK', [Next]_vars
    PROVE  EnoughWork => EnoughWork'
<1>1. policy' = policy
  BY DEF Next, Proceed, Unavailable, StartActive, StartSweep, TcpAnswer, SweepAnswer,
         BeginWave, QueueBatch, LaunchWave, Finish, DeadlinePasses, BatchStep, Ready,
         Rejects, Splits, GivesUp, Answer, AnswerLost, Cleanup, OfBatch, vars
<1>2. working \subseteq working'
  BY DEF Next, Proceed, Unavailable, StartActive, StartSweep, TcpAnswer, SweepAnswer,
         Prepare, Report, BeginWave, QueueBatch, LaunchWave, Finish, DeadlinePasses,
         BatchStep, Ready, Rejects, Splits, GivesUp, Answer, AnswerLost, Cleanup, counts, vars
<1>3. working' \in SUBSET Cands /\ working \in SUBSET Cands
  BY DEF TypeOK
<1>4. Cardinality(working) <= Cardinality(working')
  BY <1>2, <1>3, ProbeAssumption, FS_Subset
<1>5. Cardinality(working) \in Nat /\ Cardinality(working') \in Nat
  BY <1>3, CountCands
<1>6. policy.topN \in Nat
  BY DEF TypeOK, PolicyType
<1> QED  BY <1>1, <1>4, <1>5, <1>6 DEF EnoughWork

(* The early stop is earned: never in a full scan, and only once as many   *)
(* configs as were asked for have been reported as working.                *)
THEOREM Earned == Spec => []EarnedStop
<1> DEFINE Inv == MeasureInv /\ EarnedStop
<1>1. Init => Inv
  BY InitMeasures DEF Init, EarnedStop
<1>2. Inv /\ [Next]_vars => Inv'
  <2> SUFFICES ASSUME Inv, [Next]_vars PROVE Inv'
    OBVIOUS
  <2>1. TypeOK' /\ MeasureInv'
    BY StepTypes, StepMeasures DEF MeasureInv
  <2>2. cancel' => cancel \/ EnoughWork'
    BY <2>1, StopEarned
  <2>3. EnoughWork => EnoughWork'
    BY <2>1, WorkGrows DEF MeasureInv
  <2> QED  BY <2>1, <2>2, <2>3 DEF EarnedStop, EnoughWork
<1>3. Inv => EarnedStop
  OBVIOUS
<1> QED  BY <1>1, <1>2, <1>3, PTL DEF Spec

-------------------------------------------------------------------------------
(* Nothing is lost.  So long as nothing stops the run, every candidate is     *)
(* dead, or has a result somewhere, or is queued somewhere, itself or by one  *)
(* that stands for it; and what was counted has a result also when the        *)
(* deadline has passed.                                                       *)

(* d, or a result about d, stands for c.                                   *)
Stands(d, c) == \/ d = c
                \/ {c, d} \subseteq active /\ DefOf[c] = DefOf[d] /\ DefOf[c] # Unsupported
Held(c)      == \E r \in Verdicts : Stands(r.cand, c)
Queued(c)    == \E d \in Queue : Stands(d, c)

(* What a batch holds between its attempts.                                *)
BatchesInv ==
    /\ \A s \in Slots : /\ batch[s].st = "idle" => batch[s] = Idle
                        /\ batch[s].st = "starting" => batch[s].got = {}
                        /\ batch[s].st = "stopping" => batch[s].entries = {}
    /\ phase = "loop" => \A s \in Slots : batch[s] = Idle

CoverInv ==
    /\ phase = "screen" => Cands \subseteq waiting \cup passed \cup dead \cup Udp
    /\ phase = "tcp" => \A c \in Cands : c \in waiting \/ \E r \in ranked : r.cand = c
    /\ phase \in {"loop", "fill", "wave"} =>
         /\ \A d \in Queue : DefOf[d] # Unsupported
         /\ ~cancel => \A c \in Cands : reports[c] > 0 => c \in dead \/ Held(c)
         /\ ~cancel /\ ~deadline => \A c \in Cands : c \in dead \/ Held(c) \/ Queued(c)
    /\ Flushed /\ FullRun

NothingLost == MeasureInv /\ BatchesInv /\ CoverInv

LEMMA HasVerdict ==
    \A S, ok : \A c \in S : \E r \in Verdict(S, ok) : r.cand = c
<1> SUFFICES ASSUME NEW S, NEW ok, NEW c \in S
             PROVE  \E r \in Verdict(S, ok) : r.cand = c
  OBVIOUS
<1>1. [cand |-> c, reachable |-> ok] \in Verdict(S, ok)
  BY DEF Verdict
<1> QED  BY <1>1

LEMMA WorkLeft ==
    ASSUME NEW s \in Slots, NEW Gone, prepared' = prepared,
           \A t \in Slots \ {s} : batch'[t] = batch[t],
           WorkOf(batch[s]) \subseteq WorkOf(batch'[s]) \cup Gone
    PROVE  \A d \in Queue : d \in Queue' \/ d \in Gone
<1> SUFFICES ASSUME NEW d \in Queue PROVE d \in Queue' \/ d \in Gone
  OBVIOUS
<1>1. CASE d \in prepared
  BY <1>1 DEF Queue
<1>2. ASSUME NEW t \in Slots, d \in WorkOf(batch[t])
      PROVE  d \in Queue' \/ d \in Gone
  BY <1>2 DEF Queue
<1> QED  BY <1>1, <1>2, InQueue

(* A step on the way that keeps results and work, but for what it measures.  *)
LEMMA Covers ==
    ASSUME CoverInv, phase \in {"loop", "fill", "wave"}, phase' \in {"loop", "fill", "wave"},
           active' = active, dead' = dead, Queue' \subseteq Queue,
           cancel => cancel', deadline => deadline',
           ~cancel' => /\ Verdicts \subseteq Verdicts'
                       /\ \A d \in Queue : d \in Queue' \/ \E r \in Verdicts' : r.cand = d
                       /\ \A c \in Cands : reports'[c] > 0 =>
                             reports[c] > 0 \/ \E r \in Verdicts' : Stands(r.cand, c)
    PROVE  CoverInv'
<1>1. \A d, c : Stands(d, c)' <=> Stands(d, c)
  BY DEF Stands
<1>2. \A d \in Queue' : DefOf[d] # Unsupported
  BY DEF CoverInv
<1>3. ASSUME ~cancel', NEW c \in Cands, Held(c)
      PROVE  Held(c)'
  BY <1>1, <1>3 DEF Held
<1>4. ASSUME ~cancel', NEW c \in Cands, reports'[c] > 0
      PROVE  c \in dead' \/ Held(c)'
  <2>1. CASE reports[c] > 0
    BY <1>3, <1>4, <2>1 DEF CoverInv
  <2>2. CASE \E r \in Verdicts' : Stands(r.cand, c)
    BY <1>1, <2>2 DEF Held
  <2> QED  BY <1>4, <2>1, <2>2
<1>5. ASSUME ~cancel', ~deadline', NEW c \in Cands
      PROVE  c \in dead' \/ Held(c)' \/ Queued(c)'
  <2>1. c \in dead \/ Held(c) \/ Queued(c)
    BY <1>5 DEF CoverInv
  <2>2. ASSUME NEW d \in Queue, Stands(d, c)
        PROVE  Held(c)' \/ Queued(c)'
    <3>1. CASE d \in Queue'
      BY <1>1, <2>2, <3>1 DEF Queued
    <3>2. ASSUME NEW r \in Verdicts', r.cand = d
          PROVE  Held(c)'
      BY <1>1, <2>2, <3>2 DEF Held
    <3> QED  BY <1>5, <3>1, <3>2
  <2> QED  BY <1>3, <1>5, <2>1, <2>2 DEF Queued
<1> QED  BY <1>2, <1>4, <1>5 DEF CoverInv, Flushed, FullRun

(* What the end of an attempt of batch s leaves.  A wave that ends without a  *)
(* stop has no other batch left, and this one no chunk.                       *)
LEMMA AttemptCovers ==
    ASSUME TypeOK, BatchesInv, phase = "wave", NEW s \in Slots, NEW b \in Batches,
           b.entries = {}, b.got = {}, AttemptEnds(s, b)
    PROVE  /\ BatchesInv' /\ (cancel => cancel') /\ phase' \in {"loop", "wave"}
           /\ ~cancel' => /\ \A t \in Slots \ {s} : batch'[t] = batch[t]
                          /\ WorkOf(b) \subseteq WorkOf(batch'[s])
                          /\ ranked \cup b.ranked \subseteq ranked' \cup batch'[s].ranked
                          /\ ranked \subseteq ranked'
<1>0. DOMAIN batch = Slots
  BY DEF TypeOK
<1>i. Idle.st = "idle" /\ Idle.got = {} /\ Idle.entries = {}
  BY DEF Idle
<1>1. CASE NextChunk(s, b)
  <2>1. PICK S \in b.pending :
          batch' = [batch EXCEPT ![s] =
                      [b EXCEPT !.st = "starting", !.entries = S, !.pending = @ \ {S}]]
    BY <1>1 DEF NextChunk
  <2> DEFINE n == [b EXCEPT !.st = "starting", !.entries = S, !.pending = @ \ {S}]
  <2>2. n.entries = S /\ n.pending = b.pending \ {S} /\ n.ranked = b.ranked /\ n.got = {}
        /\ n.st = "starting"
    BY DEF Batches
  <2>3. batch'[s] = n /\ \A t \in Slots \ {s} : batch'[t] = batch[t]
    BY <1>0, <2>1
  <2>4. ranked' = ranked /\ phase' = phase /\ cancel' = cancel
    BY <1>1 DEF NextChunk
  <2> HIDE DEF n
  <2>5. BatchesInv'
    BY <2>2, <2>3, <2>4 DEF BatchesInv
  <2>6. WorkOf(b) \subseteq WorkOf(n)
    BY <2>2 DEF WorkOf
  <2> QED  BY <2>2, <2>3, <2>4, <2>5, <2>6
<1>2. CASE Deliver(s, b)
  <2> DEFINE R == ranked \cup b.ranked
             stop == cancel \/ StopsAt(b) \/ Enough(R, exhausted)
  <2>1. IsOver(b)
    BY <1>2 DEF Deliver
  <2>2. CASE (stop \/ \A t \in Slots \ {s} : batch[t].st = "idle") /\ EndWave(R, stop)
    <3>1. /\ batch' = [t \in Slots |-> Idle] /\ ranked' = R /\ phase' = "loop"
          /\ (stop => cancel')
      BY <2>2 DEF EndWave
    <3>2. BatchesInv'
      BY <1>i, <3>1 DEF BatchesInv
    <3>3. ~cancel' => ~cancel /\ b.pending = {} /\ \A t \in Slots \ {s} : batch[t] = Idle
      BY <2>1, <2>2, <3>1 DEF IsOver, BatchesInv
    <3>4. b.pending = {} => WorkOf(b) = {}
      BY DEF WorkOf
    <3> HIDE DEF stop
    <3> QED  BY <3>1, <3>2, <3>3, <3>4
  <2>3. CASE ~stop /\ ranked' = R /\ batch' = [batch EXCEPT ![s] = Idle] /\ UNCHANGED <<phase, cancel>>
    <3>1. batch'[s] = Idle /\ \A t \in Slots \ {s} : batch'[t] = batch[t]
      BY <1>0, <2>3
    <3>2. BatchesInv'
      BY <1>i, <2>3, <3>1 DEF BatchesInv
    <3>3. b.pending = {}
      BY <2>1, <2>3 DEF IsOver
    <3>4. WorkOf(b) = {}
      BY <3>3 DEF WorkOf
    <3> QED  BY <2>3, <3>1, <3>2, <3>4
  <2> HIDE DEF stop, R
  <2>4. \/ (stop \/ \A t \in Slots \ {s} : batch[t].st = "idle") /\ EndWave(R, stop)
        \/ ~stop /\ ranked' = R /\ batch' = [batch EXCEPT ![s] = Idle] /\ UNCHANGED <<phase, cancel>>
    BY <1>2 DEF Deliver, R, stop
  <2> QED  BY <2>2, <2>3, <2>4
<1> QED  BY <1>1, <1>2 DEF AttemptEnds

(* An attempt that has measured Gone ends.                                    *)
LEMMA EndCovers ==
    ASSUME NothingLost, phase = "wave", NEW s \in Slots, NEW b \in Batches, NEW Gone,
           Chunked(b), b.entries = {}, b.got = {}, AttemptEnds(s, b),
           WorkOf(b) \subseteq WorkOf(batch[s]), WorkOf(batch[s]) \subseteq WorkOf(b) \cup Gone,
           batch[s].ranked \cup batch[s].got \subseteq b.ranked,
           \A d \in Gone : \E r \in b.ranked : r.cand = d,
           \A c \in Cands : reports'[c] > 0 => reports[c] > 0 \/ \E d \in Gone : Stands(d, c),
           UNCHANGED <<active, dead, prepared, deadline>>
    PROVE  BatchesInv' /\ CoverInv'
<1>1. TypeOK /\ BatchesInv /\ CoverInv /\ \A t \in Slots : Chunked(batch[t])
  BY DEF NothingLost, MeasureInv, QueueInv
<1>2. /\ BatchesInv' /\ (cancel => cancel') /\ phase' \in {"loop", "wave"}
      /\ ~cancel' => /\ \A t \in Slots \ {s} : batch'[t] = batch[t]
                     /\ WorkOf(b) \subseteq WorkOf(batch'[s])
                     /\ ranked \cup b.ranked \subseteq ranked' \cup batch'[s].ranked
                     /\ ranked \subseteq ranked'
  BY <1>1, AttemptCovers
<1>3. /\ \A t \in Slots \ {s} : WorkOf(batch'[t]) \subseteq WorkOf(batch[t])
      /\ WorkOf(batch'[s]) \subseteq WorkOf(b)
  BY <1>1, AttemptWork
<1>4. Queue' \subseteq Queue
  BY <1>3 DEF Queue
<1>5. ASSUME ~cancel'
      PROVE  /\ Verdicts \subseteq Verdicts' /\ b.ranked \subseteq Verdicts'
             /\ \A d \in Queue : d \in Queue' \/ d \in Gone
  <2>1. b.ranked \subseteq Verdicts' /\ ranked \subseteq Verdicts'
    BY <1>2, <1>5 DEF Verdicts
  <2>2. \A t \in Slots \ {s} : batch[t].ranked \cup batch[t].got \subseteq Verdicts'
    <3>1. \A t \in Slots : batch'[t].ranked \cup batch'[t].got \subseteq Verdicts'
      BY DEF Verdicts
    <3> QED  BY <1>2, <1>5, <3>1
  <2>3. Verdicts \subseteq Verdicts'
    <3> SUFFICES ASSUME NEW r \in Verdicts PROVE r \in Verdicts'
      OBVIOUS
    <3> QED  BY <2>1, <2>2, IsVerdict
  <2>4. WorkOf(batch[s]) \subseteq WorkOf(batch'[s]) \cup Gone
    BY <1>2, <1>5
  <2> QED  BY <1>2, <1>5, <2>1, <2>3, <2>4, WorkLeft
<1>6. ~cancel' => /\ Verdicts \subseteq Verdicts'
                  /\ \A d \in Queue : d \in Queue' \/ \E r \in Verdicts' : r.cand = d
                  /\ \A c \in Cands : reports'[c] > 0 =>
                        reports[c] > 0 \/ \E r \in Verdicts' : Stands(r.cand, c)
  BY <1>5
<1> QED  BY <1>1, <1>2, <1>4, <1>6, Covers

LEMMA BatchCovers ==
    ASSUME NothingLost, phase = "wave", NEW s \in Slots, BatchStep(s)
    PROVE  BatchesInv' /\ CoverInv'
<1>0. /\ batch[s] \in Batches /\ Chunked(batch[s]) /\ DOMAIN batch = Slots
      /\ batch[s].entries \subseteq WorkOf(batch[s]) /\ WorkOf(batch[s]) \subseteq Queue
      /\ \A d \in Queue : d \in active /\ d \in Cands /\ DefOf[d] # Unsupported
      /\ CoverInv /\ BatchesInv /\ TypeOK
  BY DEF NothingLost, MeasureInv, TypeOK, QueueInv, Fresh, CoverInv, Queue, WorkOf
<1>1. UNCHANGED <<active, dead, prepared, deadline>>
  BY DEF BatchStep, Ready, Rejects, Splits, GivesUp, Answer, AnswerLost, Cleanup,
         OfBatch, screen
<1>2. CASE Ready(s) \/ AnswerLost(s)
  <2>1. /\ UNCHANGED counts /\ ranked' = ranked /\ phase' = phase /\ cancel' = cancel
        /\ batch[s].st \in {"starting", "testing"}
    BY <1>2 DEF Ready, AnswerLost
  <2>2. CASE cancel /\ batch' = [batch EXCEPT ![s] = [batch[s] EXCEPT !.st = "stopping", !.entries = {}]]
    <3> DEFINE n == [batch[s] EXCEPT !.st = "stopping", !.entries = {}]
    <3>1. n.entries = {} /\ n.pending = batch[s].pending /\ n.st = "stopping"
      BY <1>0 DEF Batches
    <3> HIDE DEF n
    <3>2. batch'[s] = n /\ \A t \in Slots \ {s} : batch'[t] = batch[t]
      BY <1>0, <2>2 DEF n
    <3>3. BatchesInv'
      BY <1>0, <2>1, <3>1, <3>2 DEF BatchesInv
    <3>4. Queue' \subseteq Queue
      BY <1>1, <3>1, <3>2 DEF Queue, WorkOf
    <3> QED  BY <1>0, <1>1, <2>1, <2>2, <3>3, <3>4, Covers
  <2>3. CASE ~cancel /\ batch' = [batch EXCEPT ![s] = [batch[s] EXCEPT !.st = "testing"]]
    <3> DEFINE n == [batch[s] EXCEPT !.st = "testing"]
    <3>1. /\ n.entries = batch[s].entries /\ n.pending = batch[s].pending /\ n.st = "testing"
          /\ n.ranked = batch[s].ranked /\ n.got = batch[s].got
      BY <1>0 DEF Batches
    <3> HIDE DEF n
    <3>2. batch'[s] = n /\ \A t \in Slots \ {s} : batch'[t] = batch[t]
      BY <1>0, <2>3 DEF n
    <3>3. BatchesInv'
      BY <1>0, <2>1, <3>1, <3>2 DEF BatchesInv
    <3>4. Queue' = Queue /\ Verdicts' = Verdicts
      <4>1. \A t \in Slots : /\ WorkOf(batch'[t]) = WorkOf(batch[t])
                            /\ batch'[t].ranked = batch[t].ranked /\ batch'[t].got = batch[t].got
        BY <3>1, <3>2 DEF WorkOf
      <4> QED  BY <1>1, <2>1, <4>1 DEF Queue, Verdicts
    <3>5. reports' = reports
      BY <2>1 DEF counts
    <3> QED  BY <1>0, <1>1, <2>1, <3>3, <3>4, <3>5, Covers
  <2>4. \/ cancel /\ batch' = [batch EXCEPT ![s] = [batch[s] EXCEPT !.st = "stopping", !.entries = {}]]
        \/ ~cancel /\ batch' = [batch EXCEPT ![s] = [batch[s] EXCEPT !.st = "testing"]]
    BY <1>2 DEF Ready, AnswerLost
  <2> QED  BY <2>2, <2>3, <2>4
<1>3. CASE Answer(s)
  <2>1. PICK c \in batch[s].entries, ok \in BOOLEAN :
          LET got  == batch[s].got \cup Verdict({c}, ok)
              rest == batch[s].entries \ {c}
              stop == Enough(batch[s].ranked \cup got, batch[s].exhausted)
          IN /\ Report({c}, IF ok THEN {c} ELSE {})
             /\ cancel' = stop
             /\ batch' = [batch EXCEPT ![s] =
                  [batch[s] EXCEPT !.got = got,
                            !.entries = IF stop THEN {} ELSE rest,
                            !.st = IF stop \/ rest = {} THEN "stopping" ELSE @]]
    BY <1>3 DEF Answer
  <2> DEFINE rest == batch[s].entries \ {c}
  <2>2. /\ batch'[s].entries = IF cancel' THEN {} ELSE rest
        /\ batch'[s].pending = batch[s].pending
        /\ batch'[s].ranked = batch[s].ranked
        /\ batch'[s].got = batch[s].got \cup Verdict({c}, ok)
        /\ batch'[s].st = IF cancel' \/ rest = {} THEN "stopping" ELSE batch[s].st
        /\ \A t \in Slots \ {s} : batch'[t] = batch[t]
    BY <1>0, <2>1 DEF Batches
  <2>3. ranked' = ranked /\ phase' = phase /\ ~cancel /\ batch[s].st = "testing"
    BY <1>3 DEF Answer
  <2> HIDE DEF rest
  <2>4. BatchesInv'
    BY <1>0, <2>2, <2>3 DEF BatchesInv
  <2>5. WorkOf(batch'[s]) \subseteq WorkOf(batch[s])
    BY <2>2 DEF WorkOf, rest
  <2>6. Queue' \subseteq Queue
    BY <1>1, <2>2, <2>5 DEF Queue
  <2>7. Verdicts \subseteq Verdicts' /\ \E r \in Verdicts' : r.cand = c
    <3> DEFINE V == Verdict({c}, ok)
    <3>1. batch'[s].got = batch[s].got \cup V /\ \E r \in V : r.cand = c
      BY <2>2, HasVerdict
    <3> HIDE DEF V
    <3> QED  BY <2>2, <2>3, <3>1 DEF Verdicts
  <2>8. ~cancel' => WorkOf(batch[s]) \subseteq WorkOf(batch'[s]) \cup {c}
    BY <2>2 DEF WorkOf, rest
  <2>9. ~cancel' => \A d \in Queue : d \in Queue' \/ d \in {c}
    BY <1>1, <2>2, <2>8, WorkLeft
  <2>10. \A d \in Cands : reports'[d] > 0 => reports[d] > 0 \/ Stands(c, d)
    BY <2>1 DEF Report, Stands
  <2> QED  BY <1>0, <1>1, <2>3, <2>4, <2>6, <2>7, <2>9, <2>10, Covers
<1>4. CASE Rejects(s)
  <2>1. PICK c \in batch[s].entries : Report(Aliases(c), {}) /\ AttemptEnds(s, Without(s, c))
    BY <1>4 DEF Rejects
  <2> DEFINE b == Without(s, c)
             rest == batch[s].entries \ {c}
  <2>2. /\ b \in Batches /\ b.entries = {} /\ b.got = batch[s].got
        /\ b.ranked = batch[s].ranked \cup Failed({c})
        /\ b.pending = IF rest = {} THEN batch[s].pending ELSE batch[s].pending \cup {rest}
    BY <1>0, AttemptRecords DEF Without, Batches
  <2> HIDE DEF b
  <2>3. b.got = {}
    BY <1>0, <1>4, <2>2 DEF Rejects, BatchesInv
  <2>4. Chunked(b)
    <3>0. \A P, Q \in batch[s].pending : P = Q \/ P \cap Q = {}
      BY <1>0 DEF Chunked
    <3>1. \A P \in batch[s].pending : P \cap rest = {}
      BY <1>0 DEF Chunked
    <3> HIDE DEF rest
    <3>2. \A P \in b.pending : P \in batch[s].pending \/ P = rest
      BY <2>2
    <3>3. \A P, Q \in b.pending : P = Q \/ P \cap Q = {}
      BY <3>0, <3>1, <3>2
    <3> QED  BY <2>2, <3>3 DEF Chunked
  <2>5. WorkOf(b) \subseteq WorkOf(batch[s]) /\ WorkOf(batch[s]) \subseteq WorkOf(b) \cup {c}
    <3>1. UNION b.pending = rest \cup UNION batch[s].pending
      BY <2>2
    <3> QED  BY <2>2, <3>1 DEF WorkOf
  <2>6. \E r \in b.ranked : r.cand = c
    <3>1. \E r \in Failed({c}) : r.cand = c
      BY HasVerdict DEF Failed
    <3> QED  BY <2>2, <3>1
  <2>7. batch[s].ranked \cup batch[s].got \subseteq b.ranked
    BY <2>2, <2>3
  <2>8. \A d \in Cands : reports'[d] > 0 => reports[d] > 0 \/ Stands(c, d)
    BY <1>0, <2>1 DEF Report, Stands, Aliases
  <2>9. AttemptEnds(s, b)
    BY <2>1 DEF b
  <2> QED  BY <1>1, <2>2, <2>3, <2>4, <2>5, <2>6, <2>7, <2>8, <2>9, EndCovers
<1>5. CASE Splits(s)
  <2>1. PICK left \in SUBSET batch[s].entries : AttemptEnds(s, Halved(s, left))
    BY <1>5 DEF Splits
  <2> DEFINE b == Halved(s, left)
             right == batch[s].entries \ left
  <2>2. /\ b \in Batches /\ b.entries = {} /\ b.got = batch[s].got
        /\ b.ranked = batch[s].ranked /\ b.pending = batch[s].pending \cup {left, right}
    BY <1>0, AttemptRecords DEF Halved, Batches
  <2>3. AttemptEnds(s, b)
    BY <2>1
  <2> HIDE DEF b
  <2>4. b.got = {}
    BY <1>0, <1>5, <2>2 DEF Splits, BatchesInv
  <2>5. Chunked(b)
    <3>1. /\ \A P \in batch[s].pending : P \cap left = {} /\ P \cap right = {}
          /\ \A P, Q \in batch[s].pending : P = Q \/ P \cap Q = {}
          /\ left \cap right = {}
      BY <1>0, <2>1 DEF Chunked
    <3> HIDE DEF right
    <3>2. \A P \in b.pending : P \in batch[s].pending \/ P = left \/ P = right
      BY <2>2
    <3>3. \A P, Q \in b.pending : P = Q \/ P \cap Q = {}
      BY <3>1, <3>2
    <3> QED  BY <2>2, <3>3 DEF Chunked
  <2>6. WorkOf(b) \subseteq WorkOf(batch[s]) /\ WorkOf(batch[s]) \subseteq WorkOf(b) \cup {}
    <3>1. UNION b.pending = (left \cup right) \cup UNION batch[s].pending
      BY <2>2
    <3>2. left \cup right = batch[s].entries
      BY <2>1
    <3> QED  BY <2>2, <3>1, <3>2 DEF WorkOf
  <2>7. batch[s].ranked \cup batch[s].got \subseteq b.ranked
    BY <2>2, <2>4
  <2>8. reports' = reports
    BY <1>5 DEF Splits, counts
  <2> QED  BY <1>1, <2>2, <2>3, <2>4, <2>5, <2>6, <2>7, <2>8, EndCovers
<1>6. CASE GivesUp(s)
  <2> DEFINE b == GivenUp(s)
             E == batch[s].entries
  <2>1. Report(EntryOf(E), {}) /\ AttemptEnds(s, b)
    BY <1>6 DEF GivesUp
  <2>2. /\ b \in Batches /\ b.entries = {} /\ b.got = batch[s].got
        /\ b.ranked = batch[s].ranked \cup Failed(E) /\ b.pending = batch[s].pending
    BY <1>0, AttemptRecords DEF GivenUp, Batches
  <2> HIDE DEF b
  <2>3. b.got = {} /\ Chunked(b)
    BY <1>0, <1>6, <2>2 DEF GivesUp, BatchesInv, Chunked
  <2>4. WorkOf(b) \subseteq WorkOf(batch[s]) /\ WorkOf(batch[s]) \subseteq WorkOf(b) \cup E
    BY <2>2 DEF WorkOf
  <2>5. \A d \in E : \E r \in b.ranked : r.cand = d
    <3>1. \A d \in E : \E r \in Failed(E) : r.cand = d
      BY HasVerdict DEF Failed
    <3> HIDE DEF E
    <3> QED  BY <2>2, <3>1
  <2>6. batch[s].ranked \cup batch[s].got \subseteq b.ranked
    BY <2>2, <2>3
  <2>7. \A c \in Cands : reports'[c] > 0 => reports[c] > 0 \/ \E d \in E : Stands(d, c)
    <3>1. \A c \in EntryOf(E) : \E d \in E : Stands(d, c)
      BY <1>0 DEF EntryOf, Aliases, Stands
    <3> QED  BY <2>1, <3>1 DEF Report
  <2> QED  BY <1>1, <2>1, <2>2, <2>3, <2>4, <2>5, <2>6, <2>7, EndCovers
<1>7. CASE Cleanup(s)
  <2> DEFINE b == Returned(s)
  <2>1. AttemptEnds(s, b) /\ reports' = reports /\ batch[s].entries = {}
    BY <1>0, <1>7 DEF Cleanup, counts, BatchesInv
  <2>2. /\ b \in Batches /\ b.entries = batch[s].entries /\ b.got = {}
        /\ b.ranked = batch[s].ranked \cup batch[s].got /\ b.pending = batch[s].pending
    BY <1>0, AttemptRecords DEF Returned, Batches
  <2> HIDE DEF b
  <2>3. /\ Chunked(b) /\ WorkOf(b) \subseteq WorkOf(batch[s])
        /\ WorkOf(batch[s]) \subseteq WorkOf(b) \cup {}
    BY <1>0, <2>2 DEF Chunked, WorkOf
  <2> QED  BY <1>1, <2>1, <2>2, <2>3, EndCovers
<1> QED  BY <1>2, <1>3, <1>4, <1>5, <1>6, <1>7 DEF BatchStep

(* The queue covers everything that is neither dead nor already failed.      *)
LEMMA PrepareCovers ==
    ASSUME TypeOK, NEW A \in SUBSET Cands, NEW D \in SUBSET Cands, Prepare(A, D), dead' = D,
           batch' = [s \in Slots |-> Idle], \A c \in Cands : reports[c] = 0,
           ~deadline' => A \cup D = Cands
    PROVE  BatchesInv' /\ CoverInv' /\ phase' = "loop"
<1> DEFINE bad == {c \in A : DefOf[c] = Unsupported}
<1>1. /\ ranked' = Failed(bad) /\ active' = A /\ prepared' \subseteq A \ bad
      /\ phase' = "loop" /\ Report(D \cup bad, {})
      /\ \A c \in A \ bad : \E r \in prepared' : DefOf[r] = DefOf[c]
  BY DEF Prepare
<1>2. Queue' = prepared' /\ Verdicts' = ranked'
  BY IdleWork DEF Queue, Verdicts
<1>3. \A c \in bad : Held(c)'
  <2>1. \A c \in bad : \E r \in Failed(bad) : r.cand = c
    BY HasVerdict DEF Failed
  <2> QED  BY <1>1, <1>2, <2>1 DEF Held, Stands
<1>4. \A c \in Cands : reports'[c] > 0 => c \in dead' \/ Held(c)'
  BY <1>1, <1>3 DEF Report
<1>5. \A c \in A \ bad : Queued(c)'
  <2> SUFFICES ASSUME NEW c \in A \ bad PROVE Queued(c)'
    OBVIOUS
  <2>1. PICK r \in prepared' : DefOf[r] = DefOf[c]
    BY <1>1
  <2>2. Stands(r, c)'
    BY <1>1, <2>1 DEF Stands
  <2> QED  BY <1>2, <2>1, <2>2 DEF Queued
<1>6. BatchesInv'
  BY DEF BatchesInv, Idle
<1>7. \A d \in Queue' : DefOf[d] # Unsupported
  BY <1>1, <1>2
<1> QED  BY <1>1, <1>3, <1>4, <1>5, <1>6, <1>7 DEF CoverInv, Flushed, FullRun

LEMMA StepCovers ==
    ASSUME NothingLost, [Next]_vars
    PROVE  BatchesInv' /\ CoverInv'
<1> USE DEF NothingLost, MeasureInv
<1>1. CASE Unavailable
  <2>1. /\ phase = "start" /\ phase' = "done" /\ ranked' = Failed(Cands) /\ batch' = batch
        /\ batch = [s \in Slots |-> Idle]
    BY <1>1 DEF Unavailable, ScreenInv
  <2>2. \A c \in Cands : \E r \in ranked' : r.cand = c
    BY <2>1, HasVerdict DEF Failed
  <2>3. \A c \in Cands : Answered(c)'
    BY <2>2 DEF Answered
  <2>4. BatchesInv'
    BY <2>1 DEF BatchesInv, Idle
  <2> QED  BY <2>1, <2>3, <2>4 DEF CoverInv, Flushed, FullRun
<1>2. CASE StartActive
  <2>1. /\ Prepare(Cands, {}) /\ UNCHANGED <<dead, batch>> /\ phase = "start"
    BY <1>2 DEF StartActive
  <2>2. dead = {} /\ batch = [s \in Slots |-> Idle] /\ \A c \in Cands : reports[c] = 0
    BY <2>1 DEF ScreenInv
  <2>3. Cands \in SUBSET Cands /\ {} \in SUBSET Cands /\ Cands \cup {} = Cands
    OBVIOUS
  <2> QED  BY <2>1, <2>2, <2>3, PrepareCovers
<1>3. CASE StartSweep
  <2>1. /\ phase = "start" /\ UNCHANGED <<passed, dead, batch, ranked>>
        /\ batch = [s \in Slots |-> Idle]
        /\ \/ phase' = "tcp" /\ waiting' = Cands
           \/ phase' = "screen" /\ waiting' = Cands \ Udp
    BY <1>3 DEF StartSweep, ScreenInv
  <2>2. BatchesInv'
    BY <2>1 DEF BatchesInv, Idle
  <2> QED  BY <2>1, <2>2 DEF CoverInv, Flushed, FullRun
<1>4. CASE TcpAnswer
  <2>1. PICK c \in waiting, ok \in BOOLEAN :
          waiting' = waiting \ {c} /\ ranked' = ranked \cup Verdict({c}, ok)
    BY <1>4 DEF TcpAnswer
  <2>2. /\ phase = "tcp" /\ batch' = batch /\ phase' = IF waiting' = {} THEN "done" ELSE "tcp"
        /\ batch = [s \in Slots |-> Idle]
    BY <1>4 DEF TcpAnswer, ScreenInv
  <2>3. \A d \in Cands : d \in waiting' \/ \E r \in ranked' : r.cand = d
    <3>1. \E r \in Verdict({c}, ok) : r.cand = c
      BY HasVerdict
    <3> QED  BY <2>1, <2>2, <3>1 DEF CoverInv
  <2>4. phase' = "done" => \A d \in Cands : Answered(d)'
    BY <2>2, <2>3 DEF Answered
  <2>5. BatchesInv'
    BY <2>2 DEF BatchesInv, Idle
  <2> QED  BY <2>2, <2>3, <2>4, <2>5 DEF CoverInv, Flushed, FullRun
<1>5. CASE SweepAnswer
  <2>1. PICK c \in waiting, ok \in BOOLEAN :
         /\ waiting' = waiting \ {c}
         /\ passed' = IF ok THEN passed \cup {c} ELSE passed
         /\ dead' = IF ok THEN dead ELSE dead \cup {c}
    BY <1>5 DEF SweepAnswer
  <2>2. /\ phase = "screen" /\ UNCHANGED <<batch, deadline>> /\ batch = [s \in Slots |-> Idle]
        /\ \A d \in Cands : reports[d] = 0
        /\ Cands \subseteq waiting \cup passed \cup dead \cup Udp
    BY <1>5 DEF SweepAnswer, ScreenInv, CoverInv, flags
  <2>3. Cands \subseteq waiting' \cup passed' \cup dead' \cup Udp
    BY <2>1, <2>2
  <2>4. CASE phase' = phase
    BY <2>2, <2>3, <2>4 DEF BatchesInv, Idle, CoverInv, Flushed, FullRun
  <2>5. CASE (waiting' = {} \/ deadline) /\ Prepare((Cands \cap Udp) \cup passed', dead')
    <3> DEFINE A == (Cands \cap Udp) \cup passed'
    <3>1. A \in SUBSET Cands /\ dead' \in SUBSET Cands
      BY <2>1 DEF TypeOK
    <3>2. ~deadline' => A \cup dead' = Cands
      BY <2>2, <2>3, <2>5, <3>1
    <3>3. Prepare(A, dead') /\ batch' = [s \in Slots |-> Idle]
      BY <2>2, <2>5
    <3> HIDE DEF A
    <3> QED  BY <2>2, <3>1, <3>2, <3>3, PrepareCovers
  <2> QED  BY <1>5, <2>4, <2>5 DEF SweepAnswer
<1>6. CASE BeginWave
  <2>1. /\ phase = "loop" /\ phase' = "fill"
        /\ UNCHANGED <<active, dead, prepared, batch, ranked, reports, cancel, deadline>>
    BY <1>6 DEF BeginWave, screen, counts, flags
  <2>2. Queue' = Queue /\ Verdicts' = Verdicts
    BY <2>1 DEF Queue, Verdicts
  <2>3. BatchesInv'
    BY <2>1 DEF BatchesInv
  <2> QED  BY <2>1, <2>2, <2>3, Covers
<1>7. CASE QueueBatch
  <2>1. PICK s \in Slots, S \in SUBSET prepared :
         /\ batch[s].st = "idle" /\ prepared' = prepared \ S
         /\ batch' = [batch EXCEPT ![s] =
              [Idle EXCEPT !.st = "starting", !.entries = S,
                           !.exhausted = policy.previous # {} /\ ToSearch(S) = 0]]
    BY <1>7 DEF QueueBatch
  <2>2. /\ phase = "fill" /\ phase' = "fill"
        /\ UNCHANGED <<active, dead, ranked, reports, cancel, deadline>>
    BY <1>7 DEF QueueBatch, screen, counts, flags
  <2> DEFINE n == [Idle EXCEPT !.st = "starting", !.entries = S,
                               !.exhausted = policy.previous # {} /\ ToSearch(S) = 0]
  <2>3. n.entries = S /\ n.pending = {} /\ n.ranked = {} /\ n.got = {} /\ n.st = "starting"
    BY DEF Idle
  <2>4. batch'[s] = n /\ \A t \in Slots \ {s} : batch'[t] = batch[t]
    BY <2>1 DEF TypeOK
  <2> HIDE DEF n
  <2>5. batch[s] = Idle /\ WorkOf(n) = S
    BY <2>1, <2>3 DEF BatchesInv, WorkOf
  <2>6. Verdicts' = Verdicts
    BY <2>2, <2>3, <2>4, <2>5, IdleWork DEF Verdicts
  <2>7. Queue' = Queue
    <3>1. \A t \in Slots \ {s} : WorkOf(batch'[t]) = WorkOf(batch[t])
      BY <2>4
    <3>2. WorkOf(batch'[s]) = S /\ WorkOf(batch[s]) = {}
      BY <2>4, <2>5, IdleWork
    <3>3. Queue' \subseteq Queue
      BY <2>1, <3>1, <3>2 DEF Queue
    <3>4. Queue \subseteq Queue'
      BY <2>1, <3>1, <3>2, ZenonT(60) DEF Queue
    <3> QED  BY <3>3, <3>4
  <2>8. BatchesInv'
    BY <2>2, <2>3, <2>4 DEF BatchesInv
  <2> QED  BY <2>2, <2>6, <2>7, <2>8, Covers
<1>8. CASE LaunchWave
  <2>1. phase = "fill" /\ UNCHANGED <<active, dead, prepared, reports, deadline>>
    BY <1>8 DEF LaunchWave, screen, counts
  <2>2. CASE phase' = "wave" /\ UNCHANGED <<batch, search, cancel, ranked>>
    <3>1. Queue' = Queue /\ Verdicts' = Verdicts
      BY <2>1, <2>2 DEF Queue, Verdicts
    <3>2. BatchesInv'
      BY <2>2 DEF BatchesInv
    <3> QED  BY <2>1, <2>2, <3>1, <3>2, Covers
  <2>3. CASE (\A s \in Slots : batch[s].st = "idle") /\ EndWave(ranked, cancel)
    <3>1. /\ batch' = [s \in Slots |-> Idle] /\ ranked' = ranked /\ phase' = "loop"
          /\ (cancel => cancel') /\ \A s \in Slots : batch[s] = Idle
      BY <2>3 DEF EndWave, BatchesInv
    <3>2. Queue' = Queue /\ Verdicts' = Verdicts
      BY <2>1, <3>1 DEF Queue, Verdicts
    <3>3. BatchesInv'
      BY <3>1 DEF BatchesInv, Idle
    <3> QED  BY <2>1, <3>1, <3>2, <3>3, Covers
  <2> QED  BY <1>8, <2>2, <2>3 DEF LaunchWave
<1>9. CASE Finish
  <2>1. /\ phase = "loop" /\ ~MayQueue /\ phase' = "done" /\ ranked' = ranked \cup Failed(dead)
        /\ UNCHANGED <<active, prepared, batch, reports, cancel, deadline>>
        /\ \A s \in Slots : batch[s] = Idle
    BY <1>9 DEF Finish, screen, flags, counts, BatchesInv
  <2>2. Verdicts = ranked /\ Queue = prepared
    BY <2>1, IdleWork DEF Verdicts, Queue
  <2>3. \A c \in dead : Answered(c)'
    <3>1. \A c \in dead : \E r \in Failed(dead) : r.cand = c
      BY HasVerdict DEF Failed
    <3> QED  BY <2>1, <3>1 DEF Answered
  <2>4. \A c \in Cands : Held(c) => Answered(c)'
    BY <2>1, <2>2 DEF Held, Stands, Answered
  <2>5. Flushed'
    BY <2>1, <2>3, <2>4 DEF Flushed, CoverInv
  <2>6. FullRun'
    <3>1. ~cancel /\ ~deadline => \A c \in Cands : ~Queued(c)
      BY <2>1, <2>2 DEF MayQueue, Queued
    <3> QED  BY <2>1, <2>3, <2>4, <3>1 DEF FullRun, CoverInv
  <2>7. BatchesInv'
    BY <2>1 DEF BatchesInv, Idle
  <2> QED  BY <2>1, <2>5, <2>6, <2>7 DEF CoverInv
<1>10. CASE phase = "wave" /\ \E s \in Slots : BatchStep(s)
  <2>1. PICK s \in Slots : BatchStep(s)
    BY <1>10
  <2> QED  BY <1>10, <2>1, BatchCovers
<1>11. CASE DeadlinePasses
  <2>1. /\ UNCHANGED <<phase, waiting, passed, active, dead, prepared, batch, ranked, reports, cancel>>
        /\ phase # "done" /\ deadline'
    BY <1>11 DEF DeadlinePasses, screen, counts
  <2>2. Queue' = Queue /\ Verdicts' = Verdicts
    BY <2>1 DEF Queue, Verdicts
  <2>3. \A c : Held(c) => Held(c)'
    BY <2>1, <2>2 DEF Held, Stands
  <2>4. BatchesInv'
    BY <2>1 DEF BatchesInv
  <2> QED  BY <2>1, <2>2, <2>3, <2>4 DEF CoverInv, Flushed, FullRun
<1>12. CASE UNCHANGED vars
  <2>1. UNCHANGED <<phase, waiting, passed, active, dead, prepared, batch, ranked, reports,
                    cancel, deadline>>
    BY <1>12 DEF vars
  <2>2. Queue' = Queue /\ Verdicts' = Verdicts
    BY <2>1 DEF Queue, Verdicts
  <2>3. \A c : (Held(c) <=> Held(c)') /\ (Queued(c) <=> Queued(c)') /\ (Answered(c) <=> Answered(c)')
    BY <2>1, <2>2 DEF Held, Queued, Stands, Answered
  <2>4. BatchesInv'
    BY <2>1 DEF BatchesInv
  <2> QED  BY <2>1, <2>2, <2>3, <2>4 DEF CoverInv, Flushed, FullRun
<1> QED
  BY <1>1, <1>2, <1>3, <1>4, <1>5, <1>6, <1>7, <1>8, <1>9, <1>10, <1>11, <1>12
     DEF Next, Proceed

LEMMA NeverLost == Spec => []NothingLost
<1>1. Init => NothingLost
  BY InitMeasures DEF Init, NothingLost, BatchesInv, Idle, CoverInv, Flushed, FullRun
<1>2. NothingLost /\ [Next]_vars => NothingLost'
  BY StepTypes, StepMeasures, StepCovers DEF NothingLost, MeasureInv
<1> QED  BY <1>1, <1>2, PTL DEF Spec

(* What was counted as tested is in the answer, also when the deadline cuts  *)
(* the run (worker_contract.md): no split, retry or wave loses a result.     *)
THEOREM AllFlushed == Spec => []Flushed
<1>1. NothingLost => Flushed
  BY DEF NothingLost, CoverInv
<1> QED  BY <1>1, NeverLost, PTL

(* A run that nothing stopped has an answer for every loaded candidate,      *)
(* however probe_active_batch_with_fallback has cut its batches up.          *)
THEOREM Complete == Spec => []FullRun
<1>1. NothingLost => FullRun
  BY DEF NothingLost, CoverInv
<1> QED  BY <1>1, NeverLost, PTL
===============================================================================
