----------------------------- MODULE ProbeEngine -----------------------------
(***************************************************************************)
(* One call of probe_candidates (V2RayDAR-main/src/probe.rs): the TCP      *)
(* pre-filter, the queue of test definitions, waves of sing-box batches    *)
(* that run concurrently, their fallback, and the early stop.              *)
(*                                                                         *)
(* Candidates with equal outbounds share one definition; the first of them *)
(* in the schedule stands for all, so queues and batches are sets of such  *)
(* representatives. Their order is left open: a queue of many sources can  *)
(* have any. Everything between two awaits is one action.                  *)
(***************************************************************************)
EXTENDS Integers, FiniteSets

CONSTANTS
    Cands,          \* loaded candidates; a candidate is its own dedup_key
    DefOf,          \* [Cands -> outbound definitions]
    Unsupported,    \* DefOf of a link that has no sing-box outbound
    Udp,            \* candidates the pre-filter lets through untested
    Policies,       \* the settings of the call: ProbeConfig and ProbeStopPolicy
    Procs,          \* process_concurrency: batches per wave
    SizeStart, SizeMin, SizeMax     \* of the ActiveBatchSizer

PolicyType ==
    [mode : {"active", "tcp"}, prefilter : BOOLEAN, scanAll : BOOLEAN,
     topN : Nat, stability : BOOLEAN, previous : SUBSET Cands]

ASSUME ProbeAssumption ==
    /\ IsFiniteSet(Cands) /\ DOMAIN DefOf = Cands
    /\ Udp \subseteq Cands
    /\ Policies \subseteq PolicyType
    /\ Procs \in Nat \ {0}
    /\ SizeStart \in Nat \ {0} /\ SizeMin \in Nat \ {0} /\ SizeMax \in Nat \ {0}

VARIABLES
    policy,
    phase,
    waiting,        \* candidates the TCP sweep has not answered
    passed, dead,   \* those it has
    active,         \* the candidates of the active test
    prepared,       \* the queue: representatives not yet in a batch
    size,           \* batch_sizer.current
    batch,          \* [1..Procs -> Batches]: the wave
    wavePrevious,   \* wave_previous_working
    remaining,      \* stop_state.remaining_previous_working
    exhausted,      \* stop_state.stability_search_exhausted
    cancel,         \* the internal flag: enough was found
    deadline,       \* cancel_flag: Ctrl+C or the worker's time limit
    ranked,         \* the results so far; at the end, the answer
    reports,        \* [Cands -> Nat]: times counted as tested in a progress delta
    working         \* candidates counted as working in a progress delta

flags  == <<cancel, deadline>>
screen == <<waiting, passed, dead, active>>
search == <<wavePrevious, remaining, exhausted>>
counts == <<reports, working>>
vars   == <<policy, phase, waiting, passed, dead, active, prepared, size, batch,
            wavePrevious, remaining, exhausted, cancel, deadline, ranked,
            reports, working>>

Slots  == 1..Procs
Phases == {"start", "screen", "tcp", "loop", "fill", "wave", "done"}

Results == [cand : Cands, reachable : BOOLEAN]
Verdict(S, ok) == {[cand |-> c, reachable |-> ok] : c \in S}
Failed(S)      == Verdict(S, FALSE)
Reached(R)     == {r.cand : r \in {q \in R : q.reachable}}

(* A batch: its stack of chunks still to be tried, the entries of the      *)
(* current attempt, what that attempt and the earlier ones found, its own  *)
(* stop state and statistics.                                              *)
Batches ==
    [st : {"idle", "starting", "testing", "stopping"}, pending : SUBSET SUBSET Cands,
     entries : SUBSET Cands, got : SUBSET Results, ranked : SUBSET Results,
     exhausted : BOOLEAN, produced : Nat, trouble : BOOLEAN]

Idle == [st |-> "idle", pending |-> {}, entries |-> {}, got |-> {}, ranked |-> {},
         exhausted |-> FALSE, produced |-> 0, trouble |-> FALSE]

Smaller(m, n) == IF m < n THEN m ELSE n
Larger(m, n)  == IF m > n THEN m ELSE n

(* The candidates an entry stands for, itself among them.                  *)
Aliases(c)      == {x \in active : DefOf[x] = DefOf[c]}
EntryOf(S)      == UNION {Aliases(c) : c \in S}
WithPrevious(S) == {c \in S : Aliases(c) \cap policy.previous # {}}

Init ==
    /\ policy \in Policies
    /\ phase = "start"
    /\ waiting = {} /\ passed = {} /\ dead = {} /\ active = {} /\ prepared = {}
    /\ size = Larger(Smaller(SizeStart, SizeMax), 1)
    /\ batch = [s \in Slots |-> Idle]
    /\ wavePrevious = 0 /\ remaining = 0 /\ exhausted = FALSE
    /\ cancel = FALSE /\ deadline = FALSE
    /\ ranked = {}
    /\ reports = [c \in Cands |-> 0] /\ working = {}

(* send_probe_delta(|S|, |W|)                                              *)
Report(S, W) ==
    /\ reports' = [c \in Cands |-> IF c \in S THEN reports[c] + 1 ELSE reports[c]]
    /\ working' = working \cup W

-------------------------------------------------------------------------------
(* When to stop: probe_stop_reason over results R.                         *)

(* Mutant: failed results count too.                                       *)
EnoughTested(R, searched) ==
    ~policy.scanAll /\ policy.topN > 0 /\ Cardinality(R) >= policy.topN

Enough(R, searched) ==
    LET found == Reached(R)
    IN /\ ~policy.scanAll /\ policy.topN > 0
       /\ Cardinality(found) >= policy.topN
       /\ \/ ~policy.stability
          \/ Cardinality(found \cap policy.previous) >=
               Smaller(policy.topN - policy.topN \div 2, Cardinality(policy.previous))
          \/ searched

(* ProbeStopState::new for the entries S.                                  *)
Searches    == policy.stability /\ ~policy.scanAll
ToSearch(S) == IF Searches THEN Cardinality(WithPrevious(S)) ELSE 0

-------------------------------------------------------------------------------
(* Up to the queue.                                                        *)

(* sing-box does not answer "version": everything fails.                   *)
Unavailable ==
    /\ phase = "start" /\ policy.mode = "active"
    /\ ranked' = Failed(Cands)
    /\ Report(Cands, {})
    /\ phase' = "done"
    /\ UNCHANGED <<policy, screen, prepared, size, batch, search, flags>>

(* prepare_active_candidates for A, with the dead of the pre-filter        *)
(* reported before it.                                                     *)
Prepare(A, D) ==
    LET bad == {c \in A : DefOf[c] = Unsupported}
    IN /\ phase' = "loop"
       /\ active' = A
       /\ prepared' \in SUBSET (A \ bad)
       /\ \A c \in A \ bad : \E r \in prepared' : DefOf[r] = DefOf[c]
       /\ \A q, r \in prepared' : DefOf[q] = DefOf[r] => q = r
       /\ ranked' = Failed(bad)
       /\ Report(D \cup bad, {})
       /\ remaining' =
            IF Searches
            THEN Cardinality({r \in prepared' : \E x \in A \cap policy.previous :
                                                   DefOf[x] = DefOf[r]})
            ELSE 0
       /\ exhausted' = (policy.previous # {} /\ remaining' = 0)

StartActive ==
    /\ phase = "start" /\ policy.mode = "active"
    /\ ~policy.prefilter \/ Cands \subseteq Udp
    /\ Prepare(Cands, {})
    /\ UNCHANGED <<policy, waiting, passed, dead, size, batch, wavePrevious, flags>>

(* The TCP sweep, or the whole of a run in TCP mode, begins.               *)
StartSweep ==
    /\ phase = "start"
    /\ \/ policy.mode = "tcp" /\ phase' = "tcp" /\ waiting' = Cands
       \/ /\ policy.mode = "active" /\ policy.prefilter
          /\ ~(Cands \subseteq Udp)
          /\ phase' = "screen" /\ waiting' = Cands \ Udp
    /\ UNCHANGED <<policy, passed, dead, active, prepared, size, batch, search,
                   flags, ranked, counts>>

(* TCP diagnostic mode knows no early stop and no deadline.                *)
TcpAnswer ==
    /\ phase = "tcp"
    /\ \E c \in waiting, ok \in BOOLEAN :
         /\ waiting' = waiting \ {c}
         /\ ranked' = ranked \cup Verdict({c}, ok)
         /\ Report({c}, IF ok THEN {c} ELSE {})
    /\ phase' = IF waiting' = {} THEN "done" ELSE "tcp"
    /\ UNCHANGED <<policy, passed, dead, active, prepared, size, batch, search, flags>>

(* Once the deadline has passed the next answer ends the sweep; what was   *)
(* not screened is not tested at all.                                      *)
SweepAnswer ==
    /\ phase = "screen"
    /\ \E c \in waiting, ok \in BOOLEAN :
         /\ waiting' = waiting \ {c}
         /\ passed' = IF ok THEN passed \cup {c} ELSE passed
         /\ dead' = IF ok THEN dead ELSE dead \cup {c}
    /\ \/ /\ waiting' # {} /\ ~deadline
          /\ UNCHANGED <<phase, active, prepared, ranked, counts, remaining, exhausted>>
       \/ /\ waiting' = {} \/ deadline
          /\ Prepare((Cands \cap Udp) \cup passed', dead')
    /\ UNCHANGED <<policy, size, batch, wavePrevious, flags>>

-------------------------------------------------------------------------------
(* The loop of probe_active_batched: fill a wave, run it.                  *)

MayQueue == prepared # {} /\ ~cancel /\ ~deadline

BeginWave ==
    /\ phase = "loop" /\ MayQueue
    /\ phase' = "fill" /\ wavePrevious' = 0
    /\ UNCHANGED <<policy, screen, prepared, size, batch, remaining, exhausted,
                   flags, ranked, counts>>

QueueBatch ==
    /\ phase = "fill" /\ MayQueue
    /\ \E s \in Slots, S \in SUBSET prepared :
         /\ batch[s].st = "idle" /\ \A t \in Slots : t < s => batch[t].st # "idle"
         /\ Cardinality(S) = Smaller(Cardinality(prepared), size)
         /\ prepared' = prepared \ S
         /\ wavePrevious' = wavePrevious + Cardinality(WithPrevious(S))
         /\ batch' = [batch EXCEPT ![s] =
              [Idle EXCEPT !.st = "starting", !.entries = S,
                           !.exhausted = policy.previous # {} /\ ToSearch(S) = 0]]
    /\ UNCHANGED <<policy, phase, screen, size, remaining, exhausted, flags, ranked, counts>>

(* The wave is over, with results R and the flag at c; batches that are    *)
(* still running are dropped and with them what they have found.           *)
EndWave(R, c) ==
    LET left == IF remaining > wavePrevious THEN remaining - wavePrevious ELSE 0
        seeking == Searches /\ ~exhausted
    IN /\ remaining' = IF seeking THEN left ELSE remaining
       /\ exhausted' = (exhausted \/ (seeking /\ policy.previous # {} /\ left = 0))
       /\ cancel' = (c \/ Enough(R, exhausted'))
       /\ ranked' = R
       /\ batch' = [s \in Slots |-> Idle]
       /\ phase' = "loop"
       /\ UNCHANGED wavePrevious

(* No further batch fits, or the deadline passed while the wave was filled *)
(* (possibly before its first batch).                                      *)
LaunchWave ==
    /\ phase = "fill"
    /\ ~MayQueue \/ \A s \in Slots : batch[s].st # "idle"
    /\ \/ /\ \E s \in Slots : batch[s].st # "idle"
          /\ phase' = "wave"
          /\ UNCHANGED <<batch, search, cancel, ranked>>
       \/ /\ \A s \in Slots : batch[s].st = "idle"
          /\ EndWave(ranked, cancel)
    /\ UNCHANGED <<policy, screen, prepared, size, deadline, counts>>

(* The answer: what was ranked and the dead of the pre-filter.             *)
Finish ==
    /\ phase = "loop" /\ ~MayQueue
    /\ ranked' = ranked \cup Failed(dead)
    /\ phase' = "done"
    /\ UNCHANGED <<policy, screen, prepared, size, batch, search, flags, counts>>

-------------------------------------------------------------------------------
(* A batch: probe_active_batch_with_fallback around probe_active_batch.    *)

Observed(b) ==
    IF b.trouble THEN Larger(size \div 2, SizeMin)
    ELSE IF b.produced >= size THEN Larger(Smaller(2 * size, SizeMax), SizeMin)
    ELSE size

StopsAt(b) == Enough(b.ranked, b.exhausted)
IsOver(b)  == cancel \/ StopsAt(b) \/ b.pending = {}

(* An attempt of batch s has ended and left b: the next chunk is tried ... *)
NextChunk(s, b) ==
    /\ ~IsOver(b)
    /\ \E S \in b.pending :
         batch' = [batch EXCEPT ![s] =
                     [b EXCEPT !.st = "starting", !.entries = S, !.pending = @ \ {S}]]
    /\ UNCHANGED <<phase, size, search, cancel, ranked>>

(* ... or the batch returns and its outcome is consumed.                   *)
Deliver(s, b) ==
    LET R    == ranked \cup b.ranked
        stop == cancel \/ StopsAt(b) \/ Enough(R, exhausted)
    IN /\ IsOver(b)
       /\ size' = Observed(b)
       /\ \/ /\ stop \/ \A t \in Slots \ {s} : batch[t].st = "idle"
             /\ EndWave(R, stop)
          \/ /\ ~stop /\ \E t \in Slots \ {s} : batch[t].st # "idle"
             /\ ranked' = R
             /\ batch' = [batch EXCEPT ![s] = Idle]
             /\ UNCHANGED <<phase, search, cancel>>

AttemptEnds(s, b) == NextChunk(s, b) \/ Deliver(s, b)

OfBatch == <<policy, screen, prepared, deadline>>

(* The local proxies of batch s answer; a stop meanwhile ends the attempt. *)
Ready(s) ==
    /\ batch[s].st = "starting"
    /\ batch' = [batch EXCEPT ![s] =
                   IF cancel
                   THEN [batch[s] EXCEPT !.st = "stopping", !.entries = {}]
                   ELSE [batch[s] EXCEPT !.st = "testing"]]
    /\ UNCHANGED <<OfBatch, phase, size, search, cancel, ranked, counts>>

(* sing-box names an outbound it rejects: that entry fails, the others are *)
(* tried again.                                                            *)
Without(s, c) ==
    LET rest == batch[s].entries \ {c}
    IN [batch[s] EXCEPT !.entries = {}, !.trouble = TRUE,
                        !.ranked = @ \cup Failed({c}),
                        !.pending = IF rest = {} THEN @ ELSE @ \cup {rest}]

Rejects(s) ==
    /\ batch[s].st = "starting"
    /\ \E c \in batch[s].entries : Report(Aliases(c), {}) /\ AttemptEnds(s, Without(s, c))
    /\ UNCHANGED OfBatch

(* The proxies are not ready in time: two halves are tried apart.          *)
(* Mutant: the right half is a copy of the whole chunk.                    *)
HalvedCopy(s, left) ==
    [batch[s] EXCEPT !.entries = {}, !.trouble = TRUE,
                     !.pending = @ \cup {left, batch[s].entries}]
(* Mutant: the right half is dropped.                                      *)
HalvedDrop(s, left) ==
    [batch[s] EXCEPT !.entries = {}, !.trouble = TRUE, !.pending = @ \cup {left}]
Halved(s, left) ==
    [batch[s] EXCEPT !.entries = {}, !.trouble = TRUE,
                     !.pending = @ \cup {left, batch[s].entries \ left}]

(* Mutant: a single entry is split too.                                    *)
SplittableAny(s) == batch[s].entries # {}
Splittable(s) == Cardinality(batch[s].entries) > 1

Splits(s) ==
    /\ batch[s].st = "starting" /\ Splittable(s)
    /\ \E left \in SUBSET batch[s].entries :
         /\ Cardinality(left) = Cardinality(batch[s].entries) \div 2
         /\ AttemptEnds(s, Halved(s, left))
    /\ UNCHANGED <<OfBatch, counts>>

(* A single entry that does not start, or no port, file or process at all. *)
GivenUp(s) ==
    [batch[s] EXCEPT !.entries = {}, !.trouble = TRUE,
                     !.ranked = @ \cup Failed(batch[s].entries)]

GivesUp(s) ==
    /\ batch[s].st = "starting"
    /\ Report(EntryOf(batch[s].entries), {})
    /\ AttemptEnds(s, GivenUp(s))
    /\ UNCHANGED OfBatch

(* An entry is answered. After a stop the answer is thrown away; otherwise *)
(* it is reported and may be the one that makes it enough.                 *)
Answer(s) ==
    /\ batch[s].st = "testing" /\ ~cancel
    /\ \E c \in batch[s].entries, ok \in BOOLEAN :
         LET got  == batch[s].got \cup Verdict({c}, ok)
             rest == batch[s].entries \ {c}
             stop == Enough(batch[s].ranked \cup got, batch[s].exhausted)
         IN /\ Report({c}, IF ok THEN {c} ELSE {})
            /\ cancel' = stop
            /\ batch' = [batch EXCEPT ![s] =
                 [batch[s] EXCEPT !.got = got,
                                  !.entries = IF stop THEN {} ELSE rest,
                                  !.st = IF stop \/ rest = {} THEN "stopping" ELSE @]]
    /\ UNCHANGED <<OfBatch, phase, size, search, ranked>>

AnswerLost(s) ==
    /\ batch[s].st = "testing" /\ cancel
    /\ batch' = [batch EXCEPT ![s] = [batch[s] EXCEPT !.st = "stopping", !.entries = {}]]
    /\ UNCHANGED <<OfBatch, phase, size, search, cancel, ranked, counts>>

(* The sing-box process is gone and the attempt returns what it has.       *)
(* Mutant: the results of earlier attempts are overwritten.                *)
ReturnedOnly(s) ==
    [batch[s] EXCEPT !.got = {}, !.ranked = batch[s].got,
                     !.produced = @ + Cardinality(batch[s].got)]
Returned(s) ==
    [batch[s] EXCEPT !.got = {}, !.ranked = @ \cup batch[s].got,
                     !.produced = @ + Cardinality(batch[s].got)]

Cleanup(s) ==
    /\ batch[s].st = "stopping"
    /\ AttemptEnds(s, Returned(s))
    /\ UNCHANGED <<OfBatch, counts>>

BatchStep(s) ==
    \/ Ready(s) \/ Rejects(s) \/ Splits(s) \/ GivesUp(s)
    \/ Answer(s) \/ AnswerLost(s) \/ Cleanup(s)

-------------------------------------------------------------------------------
(* Ctrl+C, or the time limit of worker mode less its margin.               *)
DeadlinePasses ==
    /\ ~deadline /\ phase # "done"
    /\ deadline' = TRUE
    /\ UNCHANGED <<policy, phase, screen, prepared, size, batch, search, cancel,
                   ranked, counts>>

Proceed ==
    \/ Unavailable \/ StartActive \/ StartSweep \/ TcpAnswer \/ SweepAnswer
    \/ BeginWave \/ QueueBatch \/ LaunchWave \/ Finish
    \/ phase = "wave" /\ \E s \in Slots : BatchStep(s)

Next == Proceed \/ DeadlinePasses

Spec     == Init /\ [][Next]_vars
FairSpec == Spec /\ WF_vars(Proceed)

-------------------------------------------------------------------------------
(* Properties.                                                             *)

TypeOK ==
    /\ policy \in PolicyType /\ phase \in Phases
    /\ waiting \subseteq Cands /\ passed \subseteq Cands /\ dead \subseteq Cands
    /\ active \subseteq Cands /\ prepared \subseteq active
    /\ size \in Nat \ {0} /\ size <= Larger(SizeMax, SizeMin)
    /\ batch \in [Slots -> Batches]
    /\ wavePrevious \in Nat /\ remaining \in Nat
    /\ exhausted \in BOOLEAN /\ cancel \in BOOLEAN /\ deadline \in BOOLEAN
    /\ ranked \subseteq Results
    /\ reports \in [Cands -> Nat] /\ working \subseteq Cands

(* However batches are rejected, split and retried, no candidate is        *)
(* counted as tested twice (the "tested" total of the progress display     *)
(* never passes the number of loaded configs), and the results contradict  *)
(* neither each other nor what was counted.                                *)
Verdicts == ranked \cup UNION {batch[s].ranked \cup batch[s].got : s \in Slots}
MeasuredOnce ==
    /\ \A c \in Cands : reports[c] <= 1
    /\ \A q, r \in Verdicts : q.cand = r.cand => q = r
    /\ \A r \in Verdicts : /\ reports[r.cand] = 1
                           /\ r.reachable <=> r.cand \in working

(* c is in the answer, or the candidate that stands for it is.             *)
Answered(c) ==
    \E r \in ranked : \/ r.cand = c
                      \/ /\ {c, r.cand} \subseteq active
                         /\ DefOf[c] = DefOf[r.cand] /\ DefOf[c] # Unsupported

(* Without an early stop, the answer holds everything that was counted as  *)
(* tested, also when the deadline cuts the run ("flushes already validated *)
(* configs to stdout", worker_contract.md).                                *)
Flushed ==
    phase = "done" /\ ~cancel => \A c \in Cands : reports[c] > 0 => Answered(c)

(* A run that nothing stopped has an answer for every candidate, and all   *)
(* candidates are counted once, aliases of answered entries apart.         *)
FullRun ==
    phase = "done" /\ ~cancel /\ ~deadline => \A c \in Cands : Answered(c)

(* The early stop is earned: never in a full scan, and only after as many  *)
(* configs as were asked for had been reported as working.                 *)
EarnedStop ==
    cancel => ~policy.scanAll /\ Cardinality(working) >= policy.topN

(* Every run ends, whatever is rejected, split and retried.                *)
Ends == <>(phase = "done")

(* worker_contract.md: probing halts as soon as that many reachable        *)
(* configs are found; so a run that halted early returns that many.        *)
FoundKept ==
    phase = "done" /\ cancel => Cardinality(Reached(ranked)) >= policy.topN

(* guide.md: the previous run's saved top-N are not skipped before they    *)
(* get a chance to be confirmed; so a run that halted early has enough of  *)
(* them or has measured them all.                                          *)
PreviousConfirmed ==
    phase = "done" /\ cancel /\ policy.stability =>
      \/ Cardinality(working \cap policy.previous) >=
           Smaller(policy.topN - policy.topN \div 2, Cardinality(policy.previous))
      \/ \A c \in policy.previous : reports[c] = 1
===============================================================================
