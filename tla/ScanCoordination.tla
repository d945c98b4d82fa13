--------------------------- MODULE ScanCoordination ---------------------------
(***************************************************************************)
(* How the gunicorn workers of the panel keep at most one scan running:    *)
(* services/automation_service.py (SCAN_LOCK, SCAN_FILE_LOCK, the cancel   *)
(* flag, run_scan, run_manual_test), utils/process_lock.py and the routes  *)
(* that start and cancel scans.                                            *)
(*                                                                         *)
(* A task is one thread of work: a scan run together with the handler that *)
(* spawned it, a cancel request, or a backup restore's restart_services.   *)
(* Tasks are one-shot; a worker that dies is respawned by gunicorn under   *)
(* the same name with fresh memory.                                        *)
(***************************************************************************)
EXTENDS Naturals

CONSTANTS
    Workers,        \* gunicorn worker processes
    Tasks,          \* threads of work, each used once
    KindOf,         \* [Tasks -> Kinds]
    NoWorker,       \* "no process holds the flock"
    NoTask,         \* "no thread holds it"
    EarlyFaults,    \* TRUE: get_db may raise before run_scan's try block
    AtExitWindow,   \* TRUE: daemon threads still run during a worker's atexit handlers
    MaxDeaths       \* bound on worker deaths in one behaviour

ScanKinds == {"discovery", "health", "manual"}
Kinds     == ScanKinds \cup {"cancel", "restart"}

ASSUME ScanAssumption ==
    /\ KindOf \in [Tasks -> Kinds]
    /\ NoWorker \notin Workers
    /\ NoTask \notin Tasks
    /\ EarlyFaults \in BOOLEAN /\ AtExitWindow \in BOOLEAN
    /\ MaxDeaths \in Nat

VARIABLES
    scanLock,       \* [Workers -> Tasks + NoTask]: SCAN_LOCK of each process
    flock,          \* Workers + NoWorker: who holds scan.lock; _fh # None there
    guard,          \* [Workers -> Tasks + NoTask]: InterProcessLock._guard kept over a probe
    cancelMem,      \* [Workers -> BOOLEAN]: _CANCEL_REQUESTED of each process
    cancelFile,     \* BOOLEAN: scan_cancel.flag exists
    life,           \* [Workers -> Lives]
    deaths,         \* worker deaths so far
    host,           \* [Tasks -> Workers + NoWorker]
    pc,             \* [Tasks -> Pcs]
    engine,         \* [Tasks -> EngineStates]: the task's V2RayDAR subprocess
    verdict,        \* [Tasks -> RowStates]: `status` of run_scan, decided and not yet written
    row,            \* [Tasks -> RowStates]: its scan_history row
    slot,           \* the manual-test state file: which test, in which state
    newestTest,     \* history: the test whose 'running' was published last
    aimed           \* history: [Tasks -> AimStates], see SetCancelFile

locks    == <<scanLock, flock, guard>>
flags    == <<cancelMem, cancelFile>>
world    == <<life, deaths>>
history  == <<newestTest, aimed>>
outcome  == <<verdict, row>>
vars == <<scanLock, flock, guard, cancelMem, cancelFile, life, deaths, host,
          pc, engine, verdict, row, slot, newestTest, aimed>>

Lives        == {"up", "killed", "released"}
EngineStates == {"none", "live", "ok", "err"}
RowStates    == {"none", "running", "success", "cancelled", "failed", "skipped"}
AimStates    == {"no", "partly", "early", "late", "fully", "exposed"}
SlotStates   == {"none", "running", "done", "error"}
Pcs == {"free", "probe", "probing", "spawned", "fileLock", "backOff",
        "clearMem", "clearFile", "record", "prepare", "engine", "refine",
        "import", "finish", "write", "writeFailed", "unlockFile", "unlockThread", "leaked",
        "setMem", "setFile", "terminate", "unlink",
        "done", "refused", "dead"}

(* Between taking SCAN_FILE_LOCK and giving it back.                       *)
Inside    == {"clearMem", "clearFile", "record", "prepare", "engine", "refine",
              "import", "finish", "write", "writeFailed", "unlockFile", "leaked"}
(* Holding SCAN_LOCK of the host process.                                  *)
HasThread == Inside \cup {"fileLock", "backOff", "unlockThread"}
Over      == {"done", "refused", "dead"}

(* A process between ExitRelease and its death no longer claims the lock.  *)
Holds(t) == pc[t] \in Inside /\ life[host[t]] # "released"

TypeOK ==
    /\ scanLock \in [Workers -> Tasks \cup {NoTask}]
    /\ flock \in Workers \cup {NoWorker}
    /\ guard \in [Workers -> Tasks \cup {NoTask}]
    /\ cancelMem \in [Workers -> BOOLEAN]
    /\ cancelFile \in BOOLEAN
    /\ life \in [Workers -> Lives]
    /\ deaths \in 0 .. MaxDeaths
    /\ host \in [Tasks -> Workers \cup {NoWorker}]
    /\ pc \in [Tasks -> Pcs]
    /\ engine \in [Tasks -> EngineStates]
    /\ verdict \in [Tasks -> RowStates]
    /\ row \in [Tasks -> RowStates]
    /\ slot \in [job : Tasks \cup {NoTask}, state : SlotStates]
    /\ newestTest \in Tasks \cup {NoTask}
    /\ aimed \in [Tasks -> AimStates]

Init ==
    /\ scanLock = [w \in Workers |-> NoTask]
    /\ flock = NoWorker
    /\ guard = [w \in Workers |-> NoTask]
    /\ cancelMem = [w \in Workers |-> FALSE]
    /\ cancelFile \in BOOLEAN           \* a flag file may be left from a past boot
    /\ life = [w \in Workers |-> "up"]
    /\ deaths = 0
    /\ host = [t \in Tasks |-> NoWorker]
    /\ pc = [t \in Tasks |-> "free"]
    /\ engine = [t \in Tasks |-> "none"]
    /\ verdict = [t \in Tasks |-> "none"]
    /\ row = [t \in Tasks |-> "none"]
    /\ slot = [job |-> NoTask, state |-> "none"]
    /\ newestTest = NoTask
    /\ aimed = [t \in Tasks |-> "no"]

Goto(t, label) == pc' = [pc EXCEPT ![t] = label]

(* is_cancel_requested, as evaluated in process w.                         *)
CancelRequested(w) == cancelMem[w] \/ cancelFile

(* The subprocesses of w that are still alive, all killed together by      *)
(* terminate_all_subprocesses; a killed engine exits non-zero.             *)
TerminateAll(w) ==
    [t \in Tasks |-> IF host[t] = w /\ pc[t] \in {"engine", "refine"} /\ engine[t] = "live"
                     THEN "err" ELSE engine[t]]

(* A manual test publishes its outcome in the single shared slot; other    *)
(* kinds have no slot.                                                     *)
Publish(t, state) ==
    slot' = IF KindOf[t] = "manual" THEN [job |-> t, state |-> state] ELSE slot

(* The runs that may still look at the flag: WriteRow, too, after an error. *)
MayLook == {u \in Tasks : pc[u] \in Inside \ {"writeFailed", "unlockFile", "leaked"}}

(* Whom a written flag file reaches: a run about to clear the flag erases  *)
(* it, for one that has decided it comes too late, one whose process has   *)
(* given the locks back may lose it to the next run, and every other one   *)
(* must see it.                                                            *)
AimFile ==
    aimed' = [u \in Tasks |->
                 CASE u \notin MayLook                    -> aimed[u]
                   [] pc[u] \in {"clearMem", "clearFile"} -> "early"
                   [] pc[u] = "write"                     ->
                          IF aimed[u] = "fully" THEN "fully" ELSE "late"
                   [] OTHER                               ->
                          IF life[host[u]] = "released" THEN "exposed" ELSE "fully"]

(* Somebody who does not hold the locks removes the file, or a process     *)
(* gives its locks up: the cancels of the runs in S may be lost from here. *)
Expose(S) ==
    aimed' = [u \in Tasks |-> IF u \in S /\ aimed[u] = "fully" THEN "exposed" ELSE aimed[u]]

-------------------------------------------------------------------------------
(* is_scan_active: a handler or the scheduler asks before it acts.         *)

(* A scan handler told "inactive" spawns the run; a cancel handler needs   *)
(* "active".  start_manual_test publishes 'running' before it spawns.      *)
AnswerActive(t) ==
    /\ Goto(t, IF KindOf[t] = "cancel" THEN "setMem" ELSE "refused")
    /\ UNCHANGED <<slot, newestTest>>

AnswerInactive(t) ==
    /\ Goto(t, IF KindOf[t] = "cancel" THEN "refused" ELSE "spawned")
    /\ Publish(t, "running")
    /\ newestTest' = IF KindOf[t] = "manual" THEN t ELSE newestTest

(* SCAN_LOCK.locked(), evaluated first, short-circuits the file probe.     *)
Ask(t, w) ==
    /\ pc[t] = "free" /\ KindOf[t] # "restart" /\ life[w] = "up"
    /\ host' = [host EXCEPT ![t] = w]
    /\ IF scanLock[w] # NoTask
       THEN AnswerActive(t)
       ELSE Goto(t, "probe") /\ UNCHANGED <<slot, newestTest>>
    /\ UNCHANGED <<locks, flags, world, engine, outcome, aimed>>

(* is_locked_elsewhere: not locked "elsewhere" when this process has it;   *)
(* otherwise the probe takes the lock for real before it gives it back.    *)
Probe(t) ==
    /\ pc[t] = "probe" /\ guard[host[t]] = NoTask
    /\ \/ /\ flock = host[t]
          /\ AnswerInactive(t)
          /\ UNCHANGED locks
       \/ /\ flock \notin {host[t], NoWorker}
          /\ AnswerActive(t)
          /\ UNCHANGED locks
       \/ /\ flock = NoWorker
          /\ flock' = host[t]
          /\ guard' = [guard EXCEPT ![host[t]] = t]
          /\ Goto(t, "probing")
          /\ UNCHANGED <<scanLock, slot, newestTest>>
    /\ UNCHANGED <<flags, world, host, engine, outcome, aimed>>

(* Mutant: _guard is not released after the probe.                         *)
EndProbeKeepsGuard(t) ==
    /\ pc[t] = "probing"
    /\ flock' = NoWorker
    /\ UNCHANGED guard
    /\ AnswerInactive(t)
    /\ UNCHANGED <<scanLock, flags, world, host, engine, outcome, aimed>>

EndProbe(t) ==
    /\ pc[t] = "probing"
    /\ flock' = NoWorker
    /\ guard' = [guard EXCEPT ![host[t]] = NoTask]
    /\ AnswerInactive(t)
    /\ UNCHANGED <<scanLock, flags, world, host, engine, outcome, aimed>>

-------------------------------------------------------------------------------
(* run_scan and run_manual_test.                                           *)

AcquireScanLock(t) ==
    /\ pc[t] = "spawned"
    /\ IF scanLock[host[t]] = NoTask
       THEN /\ scanLock' = [scanLock EXCEPT ![host[t]] = t]
            /\ Goto(t, "fileLock")
            /\ UNCHANGED slot
       ELSE /\ Goto(t, "refused")
            /\ Publish(t, "error")
            /\ UNCHANGED scanLock
    /\ UNCHANGED <<flock, guard, flags, world, host, engine, outcome, history>>

(* Mutant: the run goes on whatever acquire() answers.                     *)
AcquireFileLockIgnored(t) ==
    /\ pc[t] = "fileLock" /\ guard[host[t]] = NoTask
    /\ flock' = IF flock = NoWorker THEN host[t] ELSE flock
    /\ Goto(t, "clearMem")
    /\ UNCHANGED <<scanLock, guard, flags, world, host, engine, outcome, slot, history>>

(* acquire() succeeds when this very process already has the file open.    *)
AcquireFileLock(t) ==
    /\ pc[t] = "fileLock" /\ guard[host[t]] = NoTask
    /\ IF flock \in {NoWorker, host[t]}
       THEN flock' = host[t] /\ Goto(t, "clearMem")
       ELSE UNCHANGED flock /\ Goto(t, "backOff")
    /\ UNCHANGED <<scanLock, guard, flags, world, host, engine, outcome, slot, history>>

(* Mutant: the slot gets no state at all.                                  *)
BackOffSilently(t) ==
    /\ pc[t] = "backOff"
    /\ scanLock' = [scanLock EXCEPT ![host[t]] = NoTask]
    /\ Goto(t, "refused")
    /\ UNCHANGED <<flock, guard, flags, world, host, engine, outcome, slot, history>>

BackOff(t) ==
    /\ pc[t] = "backOff"
    /\ scanLock' = [scanLock EXCEPT ![host[t]] = NoTask]
    /\ Publish(t, "error")
    /\ Goto(t, "refused")
    /\ UNCHANGED <<flock, guard, flags, world, host, engine, outcome, history>>

(* set_cancel_requested(False): memory first, then the file.               *)
ClearMem(t) ==
    /\ pc[t] = "clearMem"
    /\ cancelMem' = [cancelMem EXCEPT ![host[t]] = FALSE]
    /\ Goto(t, "clearFile")
    /\ UNCHANGED <<locks, cancelFile, world, host, engine, outcome, slot, history>>

(* Mutant: only the in-memory flag is reset.                               *)
ClearFileForgotten(t) ==
    /\ pc[t] = "clearFile"
    /\ Goto(t, IF KindOf[t] = "manual" THEN "prepare" ELSE "record")
    /\ UNCHANGED <<locks, flags, world, host, engine, outcome, slot, history>>

ClearFile(t) ==
    /\ pc[t] = "clearFile"
    /\ cancelFile' = FALSE
    /\ Expose(IF Holds(t) THEN {} ELSE Tasks)
    /\ Goto(t, IF KindOf[t] = "manual" THEN "prepare" ELSE "record")
    /\ UNCHANGED <<locks, cancelMem, world, host, engine, outcome, slot, newestTest>>

(* The 'running' row is written before the try block whose finally gives   *)
(* the locks back: an exception here (get_db) keeps both for good.  An     *)
(* error of the INSERT itself is swallowed and leaves no row.              *)
RecordHistory(t) ==
    /\ pc[t] = "record"
    /\ \/ \E r \in {"running", "none"} :
             row' = [row EXCEPT ![t] = r] /\ Goto(t, "prepare")
       \/ EarlyFaults /\ Goto(t, "leaked") /\ UNCHANGED row
    /\ UNCHANGED <<locks, flags, world, host, engine, verdict, slot, history>>

(* update_scan_history; without a row id it does nothing.                  *)
UpdateRow(t, status) ==
    row' = IF row[t] = "none" THEN row ELSE [row EXCEPT ![t] = status]

FailedStatus(t)  == IF CancelRequested(host[t]) THEN "cancelled" ELSE "failed"
EndStatus(t)     == IF CancelRequested(host[t]) THEN "cancelled" ELSE "success"

(* run_scan looks at the flag for the last time, fixes `status`, and calls *)
(* update_scan_history with it; a manual test keeps no row.                *)
Decide(t, status) ==
    IF KindOf[t] = "manual"
    THEN Goto(t, "unlockFile") /\ UNCHANGED verdict
    ELSE Goto(t, "write") /\ verdict' = [verdict EXCEPT ![t] = status]

(* Build the engine's input: nothing to scan (pool full, no source, no     *)
(* config) skips the run, an exception fails it, else the engine starts.   *)
Prepare(t) ==
    /\ pc[t] = "prepare"
    /\ \/ /\ Decide(t, "skipped") /\ Publish(t, "error")
          /\ UNCHANGED engine
       \/ /\ Decide(t, FailedStatus(t)) /\ Publish(t, "error")
          /\ UNCHANGED engine
       \/ /\ engine' = [engine EXCEPT ![t] = "live"]
          /\ Goto(t, "engine") /\ UNCHANGED <<verdict, slot>>
    /\ UNCHANGED <<locks, flags, world, host, row, history>>

(* The engine exits by itself, with a result or an error; run_subprocess   *)
(* kills it at its timeout.  An orphan of a dead worker also ends here.    *)
EngineExit(t) ==
    /\ engine[t] = "live"
    /\ \E r \in {"ok", "err"} : engine' = [engine EXCEPT ![t] = r]
    /\ UNCHANGED <<locks, flags, world, host, pc, outcome, slot, history>>

(* _watch_for_cancel, one thread per subprocess.                           *)
WatchForCancel(t) ==
    /\ pc[t] \in {"engine", "refine"} /\ engine[t] = "live"
    /\ CancelRequested(host[t])
    /\ engine' = TerminateAll(host[t])
    /\ UNCHANGED <<locks, flags, world, host, pc, outcome, slot, history>>

(* communicate() returns: a failed engine ends the run; a good one is      *)
(* parsed (which may fail too).  Discovery goes on to refine and import, a *)
(* health check applies its results, a manual test publishes them.         *)
EngineReaped(t) ==
    /\ pc[t] = "engine" /\ engine[t] \in {"ok", "err"}
    /\ \/ /\ Decide(t, FailedStatus(t)) /\ Publish(t, "error")
       \/ /\ engine[t] = "ok"
          /\ Goto(t, CASE KindOf[t] = "discovery" -> "refine"
                       [] KindOf[t] = "health"    -> "finish"
                       [] OTHER                   -> "unlockFile")
          /\ Publish(t, "done")
          /\ UNCHANGED verdict
    /\ engine' = [engine EXCEPT ![t] = "none"]
    /\ UNCHANGED <<locks, flags, world, host, row, history>>

(* RefinementPass.run: chunk after chunk, each its own engine process.  A  *)
(* cancel seen between chunks, the time budget or the end of the shortlist *)
(* leaves the loop; a failed chunk does not.                               *)
RefineChunk(t) ==
    /\ pc[t] = "refine" /\ engine[t] # "live" /\ ~ CancelRequested(host[t])
    /\ engine' = [engine EXCEPT ![t] = "live"]
    /\ UNCHANGED <<locks, flags, world, host, pc, outcome, slot, history>>

EndRefine(t) ==
    /\ pc[t] = "refine" /\ engine[t] # "live"
    /\ Goto(t, "import")
    /\ engine' = [engine EXCEPT ![t] = "none"]
    /\ UNCHANGED <<locks, flags, world, host, outcome, slot, history>>

(* import_discovered_configs and the per-source bookkeeping, which an      *)
(* exception may cut short.                                                *)
ImportResults(t) ==
    /\ pc[t] = "import"
    /\ \/ Goto(t, "finish") /\ UNCHANGED verdict
       \/ Decide(t, FailedStatus(t))
    /\ UNCHANGED <<locks, flags, world, host, engine, row, slot, history>>

Finish(t) ==
    /\ pc[t] = "finish"
    /\ Decide(t, EndStatus(t))
    /\ UNCHANGED <<locks, flags, world, host, engine, row, slot, history>>

(* The row is written in a transaction of its own, after the look at the   *)
(* flag.  An error of the UPDATE is swallowed and the row stays as it was; *)
(* one of get_db reaches run_scan's except, which decides once more.       *)
WriteRow(t) ==
    /\ pc[t] = "write"
    /\ \/ /\ UpdateRow(t, verdict[t]) \/ UNCHANGED row
          /\ Goto(t, "unlockFile") /\ verdict' = [verdict EXCEPT ![t] = "none"]
       \/ /\ verdict' = [verdict EXCEPT ![t] = FailedStatus(t)]
          /\ Goto(t, "writeFailed") /\ UNCHANGED row
    /\ UNCHANGED <<locks, flags, world, host, engine, slot, history>>

(* The except branch writes what it decided, or raises out of run_scan.    *)
WriteFailedRow(t) ==
    /\ pc[t] = "writeFailed"
    /\ UpdateRow(t, verdict[t]) \/ UNCHANGED row
    /\ Goto(t, "unlockFile") /\ verdict' = [verdict EXCEPT ![t] = "none"]
    /\ UNCHANGED <<locks, flags, world, host, engine, slot, history>>

(* The finally block: the file lock first, SCAN_LOCK second.               *)
UnlockFile(t) ==
    /\ pc[t] = "unlockFile" /\ guard[host[t]] = NoTask
    /\ flock' = IF flock = host[t] THEN NoWorker ELSE flock
    /\ Goto(t, "unlockThread")
    /\ UNCHANGED <<scanLock, guard, flags, world, host, engine, outcome, slot, history>>

UnlockThread(t) ==
    /\ pc[t] = "unlockThread"
    /\ scanLock' = [scanLock EXCEPT ![host[t]] = NoTask]
    /\ Goto(t, "done")
    /\ UNCHANGED <<flock, guard, flags, world, host, engine, outcome, slot, history>>

-------------------------------------------------------------------------------
(* cancel_scan, after cancel_automation saw an active scan.                *)

SetCancelMem(t) ==
    /\ pc[t] = "setMem"
    /\ cancelMem' = [cancelMem EXCEPT ![host[t]] = TRUE]
    /\ aimed' = [u \in Tasks |-> IF u \in MayLook /\ aimed[u] = "no"
                                 THEN "partly" ELSE aimed[u]]
    /\ Goto(t, "setFile")
    /\ UNCHANGED <<locks, cancelFile, world, host, engine, outcome, slot, newestTest>>

(* Mutant: the cancel request stays in the memory of the worker it reached. *)
SetCancelFileMissing(t) ==
    /\ pc[t] = "setFile"
    /\ AimFile
    /\ Goto(t, IF KindOf[t] = "cancel" THEN "terminate" ELSE "unlink")
    /\ UNCHANGED <<locks, flags, world, host, engine, outcome, slot, newestTest>>

SetCancelFile(t) ==
    /\ pc[t] = "setFile"
    /\ cancelFile' = TRUE
    /\ AimFile
    /\ Goto(t, IF KindOf[t] = "cancel" THEN "terminate" ELSE "unlink")
    /\ UNCHANGED <<locks, cancelMem, world, host, engine, outcome, slot, newestTest>>

TerminateSubprocesses(t) ==
    /\ pc[t] = "terminate"
    /\ engine' = TerminateAll(host[t])
    /\ Goto(t, "done")
    /\ UNCHANGED <<locks, flags, world, host, outcome, slot, history>>

(* BackupService.restart_services writes the flag file and removes it.     *)
RestartServices(t, w) ==
    /\ pc[t] = "free" /\ KindOf[t] = "restart" /\ life[w] = "up"
    /\ host' = [host EXCEPT ![t] = w]
    /\ Goto(t, "setFile")
    /\ UNCHANGED <<locks, flags, world, engine, outcome, slot, history>>

UnlinkFlag(t) ==
    /\ pc[t] = "unlink"
    /\ cancelFile' = FALSE
    /\ Expose(Tasks)
    /\ Goto(t, "done")
    /\ UNCHANGED <<locks, cancelMem, world, host, engine, outcome, slot, newestTest>>

-------------------------------------------------------------------------------
(* Worker processes come and go (--max-requests recycles them, --timeout   *)
(* kills them).                                                            *)

(* cleanup_on_exit: daemon threads still run while atexit handlers do.     *)
ExitKill(w) ==
    /\ AtExitWindow /\ life[w] = "up" /\ deaths < MaxDeaths
    /\ life' = [life EXCEPT ![w] = "killed"]
    /\ engine' = TerminateAll(w)
    /\ UNCHANGED <<locks, flags, deaths, host, pc, outcome, slot, history>>

ExitRelease(w) ==
    /\ life[w] = "killed" /\ guard[w] = NoTask
    /\ life' = [life EXCEPT ![w] = "released"]
    /\ flock' = IF flock = w THEN NoWorker ELSE flock
    /\ scanLock' = [scanLock EXCEPT ![w] = NoTask]
    /\ Expose({t \in Tasks : host[t] = w})
    /\ UNCHANGED <<guard, flags, deaths, host, pc, engine, outcome, slot, newestTest>>

(* The process is gone, at the end of its exit or by a kill: the OS drops  *)
(* its flock, its threads vanish and its engine, if any, is orphaned.      *)
Die(w) ==
    /\ deaths < MaxDeaths
    /\ deaths' = deaths + 1
    /\ life' = [life EXCEPT ![w] = "up"]
    /\ flock' = IF flock = w THEN NoWorker ELSE flock
    /\ scanLock' = [scanLock EXCEPT ![w] = NoTask]
    /\ guard' = [guard EXCEPT ![w] = NoTask]
    /\ cancelMem' = [cancelMem EXCEPT ![w] = FALSE]
    /\ pc' = [t \in Tasks |-> IF host[t] = w /\ pc[t] \notin Over THEN "dead" ELSE pc[t]]
    /\ UNCHANGED <<cancelFile, host, engine, outcome, slot, history>>

-------------------------------------------------------------------------------
RunStep(t) ==
    \/ Probe(t) \/ EndProbe(t)
    \/ AcquireScanLock(t) \/ AcquireFileLock(t) \/ BackOff(t)
    \/ ClearMem(t) \/ ClearFile(t) \/ RecordHistory(t)
    \/ Prepare(t) \/ EngineReaped(t) \/ EndRefine(t) \/ ImportResults(t) \/ Finish(t)
    \/ WriteRow(t) \/ WriteFailedRow(t)
    \/ UnlockFile(t) \/ UnlockThread(t)
    \/ SetCancelMem(t) \/ SetCancelFile(t) \/ TerminateSubprocesses(t) \/ UnlinkFlag(t)

Next ==
    \/ \E t \in Tasks : RunStep(t) \/ RefineChunk(t) \/ EngineExit(t) \/ WatchForCancel(t)
    \/ \E t \in Tasks, w \in Workers : Ask(t, w) \/ RestartServices(t, w)
    \/ \E w \in Workers : ExitKill(w) \/ ExitRelease(w) \/ Die(w)

Spec == Init /\ [][Next]_vars

(* Threads of a living process get CPU time; an engine ends because        *)
(* run_subprocess kills it at its timeout, and refinement because of its   *)
(* MAX_SECONDS budget.  Requests and deaths are never owed.                *)
Fairness ==
    \A t \in Tasks :
        /\ WF_vars(RunStep(t))
        /\ WF_vars(EngineExit(t))
        /\ SF_vars(EndRefine(t))

FairSpec == Spec /\ Fairness

-------------------------------------------------------------------------------
(* Properties.                                                             *)

(* No two runs are between taking and returning the scan lock, in whatever *)
(* processes they live: SCAN_LOCK and scan.lock together exclude them.     *)
MutualExclusion ==
    \A t, u \in Tasks : Holds(t) /\ Holds(u) => t = u

(* A cancel flag left over from an earlier run never ends this one: a run  *)
(* is recorded as cancelled only if a cancel (or a restart) was set while  *)
(* it was under way (set_cancel_requested(False) at the start of a run).   *)
NoStaleCancel ==
    \A t \in Tasks : row[t] = "cancelled" => aimed[t] # "no"

(* A cancel whose flag file is written after the run has reset the flag    *)
(* and before the run's last look at it, from whatever process and however *)
(* the run goes on (a failed engine, an exception, a write of the row that *)
(* fails), is never lost: the run is not recorded as a success.  The one   *)
(* excuse is "exposed": a restore's restart_services, or a thread of a     *)
(* worker that has given its locks back at exit, removed the file.         *)
CancelEffective ==
    \A t \in Tasks : aimed[t] = "fully" => row[t] # "success"

(* Whatever was spawned ends: every run gives its locks back or dies.      *)
RunsEnd ==
    \A t \in Tasks : pc[t] = "spawned" ~> pc[t] \in Over

(* The panel stops polling: a manual test shown as running is replaced by  *)
(* an outcome, its own or that of another test.                            *)
TestSettles ==
    \A t \in Tasks :
        slot = [job |-> t, state |-> "running"] ~> slot # [job |-> t, state |-> "running"]

(* Every run that enters the critical region leaves it.                    *)
LocksFreed ==
    \A t \in Tasks : pc[t] \in Inside ~> pc[t] \notin Inside

(* Never two V2RayDAR processes at once, orphans included.                 *)
OneEngine ==
    \A t, u \in Tasks : engine[t] = "live" /\ engine[u] = "live" => t = u

(* The slot holds the outcome of the most recent test.                     *)
SlotIsNewest == slot.job = newestTest

(* Not true of the code: a cancel accepted while a run has the locks ends  *)
(* it.  One before the reset is erased, one after the last look at the     *)
(* flag, while the row is being written, comes too late.                   *)
CancelSticks ==
    \A t \in Tasks : aimed[t] \in {"early", "late", "fully"} => row[t] # "success"

(* is_scan_active answers "active" only if some run has a scan lock.       *)
ActiveMeansRunning ==
    [][\A t \in Tasks :
         pc[t] = "probe" /\ pc'[t] \in {"refused", "setMem"} /\ KindOf[t] # "cancel"
            => \E u \in Tasks : pc[u] \in HasThread]_vars

-------------------------------------------------------------------------------
(* The abstract specification: waiting, running, over.                     *)
Phase(t) == CASE Holds(t)              -> "running"
              [] pc[t] \in Inside \cup {"unlockThread"} \cup Over -> "over"
              [] OTHER                 -> "waiting"

Abstract == INSTANCE SingleScan WITH phase <- [t \in Tasks |-> Phase(t)]

(* Runs start one at a time and never restart: the lock protocol           *)
(* implements SingleScan.                                                  *)
ImplementsSingleScan == Abstract!Spec
================================================================================
