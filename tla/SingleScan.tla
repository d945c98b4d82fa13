------------------------------ MODULE SingleScan ------------------------------
(***************************************************************************)
(* What the panel promises about scans, with no locks in sight: a run is   *)
(* waiting, running or over, never goes back, and runs one at a time in    *)
(* the whole installation.  The detailed coordination of                   *)
(* services/automation_service.py is shown to implement it.                *)
(***************************************************************************)
CONSTANT Tasks

VARIABLE phase    \* [Tasks -> Phases]

Phases == {"waiting", "running", "over"}

Init == phase = [t \in Tasks |-> "waiting"]

(* A run begins only when no other run is under way.                       *)
Start(t) ==
    /\ phase[t] = "waiting"
    /\ \A u \in Tasks : phase[u] # "running"
    /\ phase' = [phase EXCEPT ![t] = "running"]

(* Runs end, are refused, or die with the worker process they live in: any *)
(* number of them in one step.                                             *)
Stop(S) ==
    phase' = [t \in Tasks |-> IF t \in S THEN "over" ELSE phase[t]]

Next == \/ \E t \in Tasks : Start(t)
        \/ \E S \in SUBSET Tasks : Stop(S)

Spec == Init /\ [][Next]_phase

(* At most one run is under way.                                           *)
OneAtATime ==
    \A t, u \in Tasks : phase[t] = "running" /\ phase[u] = "running" => t = u
================================================================================
