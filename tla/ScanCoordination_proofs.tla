------------------------ MODULE ScanCoordination_proofs ------------------------
(***************************************************************************)
(* Proofs about ScanCoordination for any set of workers and tasks.         *)
(*                                                                         *)
(* Mutual exclusion is not inductive by itself: it follows from who owns   *)
(* SCAN_LOCK in each process (ThreadOwner), from the flock belonging to    *)
(* the process of the run inside (FileOwner), and from a probe never       *)
(* overlapping a run, because it holds _guard and the flock (ProbeOwner,   *)
(* ProbeExcludes).  The cancel properties relate the flag to the history   *)
(* of whom it was meant for, one direction each (FlagMeansAimed,           *)
(* AimedMeansFlag).                                                        *)
(***************************************************************************)
EXTENDS ScanCoordination, TLAPS

Hosted == \A t \in Tasks : host[t] \notin Workers => pc[t] = "free" /\ host[t] = NoWorker

ThreadOwner ==
    \A t \in Tasks : pc[t] \in HasThread /\ life[host[t]] # "released"
                         => scanLock[host[t]] = t

FileOwner == \A t \in Tasks : Holds(t) => flock = host[t]

ProbeOwner ==
    \A t \in Tasks : pc[t] = "probing" => guard[host[t]] = t /\ flock = host[t]

ProbeExcludes ==
    \A t, u \in Tasks : ~ (Holds(t) /\ pc[u] = "probing")

USE DEF locks, flags, world, history, outcome, Goto

-------------------------------------------------------------------------------
(* Type correctness.                                                       *)

(* A fresh panel: no lock taken, no task begun.                            *)
LEMMA TypeInit == Init => TypeOK
BY ScanAssumption DEF Init, TypeOK, Lives, Pcs, EngineStates, RowStates, SlotStates, AimStates

(* Every step keeps the types, and only a task that has not begun has no   *)
(* process (Ask and RestartServices give it one).                          *)
LEMMA TypeStep == TypeOK /\ Hosted /\ [Next]_vars => TypeOK' /\ Hosted'
<1> SUFFICES ASSUME TypeOK, Hosted, [Next]_vars PROVE TypeOK' /\ Hosted'
    OBVIOUS
<1> USE ScanAssumption DEF TypeOK, Hosted, Lives, Pcs, EngineStates, RowStates, SlotStates,
        AimStates, Publish, UpdateRow, Decide, AimFile, Expose, AnswerActive, AnswerInactive
<1>1. ASSUME NEW t \in Tasks, NEW w \in Workers, Ask(t, w) PROVE TypeOK' /\ Hosted'
    BY <1>1 DEF Ask
<1>2. ASSUME NEW t \in Tasks, Probe(t) PROVE TypeOK' /\ Hosted'
    BY <1>2 DEF Probe
<1>3. ASSUME NEW t \in Tasks, EndProbe(t) PROVE TypeOK' /\ Hosted'
    BY <1>3 DEF EndProbe
<1>4. ASSUME NEW t \in Tasks, AcquireScanLock(t) PROVE TypeOK' /\ Hosted'
    BY <1>4 DEF AcquireScanLock
<1>5. ASSUME NEW t \in Tasks, AcquireFileLock(t) PROVE TypeOK' /\ Hosted'
    BY <1>5 DEF AcquireFileLock
<1>6. ASSUME NEW t \in Tasks, BackOff(t) PROVE TypeOK' /\ Hosted'
    BY <1>6 DEF BackOff
<1>7. ASSUME NEW t \in Tasks, ClearMem(t) \/ ClearFile(t) PROVE TypeOK' /\ Hosted'
    <2>1. CASE ClearMem(t)
        BY <2>1 DEF ClearMem
    <2>2. CASE ClearFile(t)
        <3>1. aimed' \in [Tasks -> AimStates]
            BY <2>2 DEF ClearFile
        <3>2. pc' \in [Tasks -> Pcs] /\ \A u \in Tasks : pc'[u] = "free" <=> pc[u] = "free"
            BY <2>2 DEF ClearFile
        <3> QED
            BY <2>2, <3>1, <3>2 DEF ClearFile
    <2> QED
        BY <1>7, <2>1, <2>2
<1>8. ASSUME NEW t \in Tasks, RecordHistory(t) PROVE TypeOK' /\ Hosted'
    BY <1>8 DEF RecordHistory
<1>9. ASSUME NEW t \in Tasks, Prepare(t) PROVE TypeOK' /\ Hosted'
    BY <1>9 DEF Prepare, FailedStatus
<1>10. ASSUME NEW t \in Tasks, EngineReaped(t) PROVE TypeOK' /\ Hosted'
    BY <1>10 DEF EngineReaped, FailedStatus
<1>11. ASSUME NEW t \in Tasks, RefineChunk(t) \/ EndRefine(t) PROVE TypeOK' /\ Hosted'
    <2>1. CASE RefineChunk(t)
        BY <2>1 DEF RefineChunk
    <2>2. CASE EndRefine(t)
        BY <2>2 DEF EndRefine
    <2> QED
        BY <1>11, <2>1, <2>2
<1>12. ASSUME NEW t \in Tasks, ImportResults(t) \/ Finish(t) PROVE TypeOK' /\ Hosted'
    <2>1. CASE ImportResults(t)
        BY <2>1 DEF ImportResults, FailedStatus
    <2>2. CASE Finish(t)
        BY <2>2 DEF Finish, EndStatus
    <2> QED
        BY <1>12, <2>1, <2>2
<1>23. ASSUME NEW t \in Tasks, WriteRow(t) \/ WriteFailedRow(t) PROVE TypeOK' /\ Hosted'
    <2>1. CASE WriteRow(t)
        BY <2>1 DEF WriteRow, FailedStatus
    <2>2. CASE WriteFailedRow(t)
        BY <2>2 DEF WriteFailedRow
    <2> QED
        BY <1>23, <2>1, <2>2
<1>13. ASSUME NEW t \in Tasks, UnlockFile(t) \/ UnlockThread(t) PROVE TypeOK' /\ Hosted'
    <2>1. CASE UnlockFile(t)
        BY <2>1 DEF UnlockFile
    <2>2. CASE UnlockThread(t)
        BY <2>2 DEF UnlockThread
    <2> QED
        BY <1>13, <2>1, <2>2
<1>14. ASSUME NEW t \in Tasks, SetCancelMem(t) PROVE TypeOK' /\ Hosted'
    BY <1>14 DEF SetCancelMem
<1>15. ASSUME NEW t \in Tasks, SetCancelFile(t) PROVE TypeOK' /\ Hosted'
    BY <1>15 DEF SetCancelFile
<1>16. ASSUME NEW t \in Tasks, TerminateSubprocesses(t) PROVE TypeOK' /\ Hosted'
    <2>1. engine' \in [Tasks -> EngineStates]
        BY <1>16 DEF TerminateSubprocesses, TerminateAll
    <2>2. pc' \in [Tasks -> Pcs]
        BY <1>16 DEF TerminateSubprocesses
    <2> QED
        BY <1>16, <2>1, <2>2 DEF TerminateSubprocesses
<1>17. ASSUME NEW t \in Tasks, UnlinkFlag(t) PROVE TypeOK' /\ Hosted'
    BY <1>17 DEF UnlinkFlag
<1>18. ASSUME NEW t \in Tasks, EngineExit(t) \/ WatchForCancel(t) PROVE TypeOK' /\ Hosted'
    <2>1. CASE EngineExit(t)
        BY <2>1 DEF EngineExit
    <2>2. CASE WatchForCancel(t)
        BY <2>2 DEF WatchForCancel, TerminateAll
    <2> QED
        BY <1>18, <2>1, <2>2
<1>19. ASSUME NEW t \in Tasks, NEW w \in Workers, RestartServices(t, w)
       PROVE TypeOK' /\ Hosted'
    BY <1>19 DEF RestartServices
<1>20. ASSUME NEW w \in Workers, ExitKill(w) \/ ExitRelease(w) PROVE TypeOK' /\ Hosted'
    <2>1. CASE ExitKill(w)
        BY <2>1 DEF ExitKill, TerminateAll
    <2>2. CASE ExitRelease(w)
        BY <2>2 DEF ExitRelease
    <2> QED
        BY <1>20, <2>1, <2>2
<1>21. ASSUME NEW w \in Workers, Die(w) PROVE TypeOK' /\ Hosted'
    BY <1>21 DEF Die
<1>22. CASE UNCHANGED vars
    BY <1>22 DEF vars
<1> QED
    BY <1>1, <1>2, <1>3, <1>4, <1>5, <1>6, <1>7, <1>8, <1>9, <1>10, <1>11, <1>12, <1>13,
       <1>14, <1>15, <1>16, <1>17, <1>18, <1>19, <1>20, <1>21, <1>22, <1>23
       DEF Next, RunStep

-------------------------------------------------------------------------------
(* The lock protocol.                                                      *)

Protocol == ThreadOwner /\ FileOwner /\ ProbeOwner /\ ProbeExcludes

(* Steps that leave the locks and lives alone and move a task only inside  *)
(* the critical region, or only outside it.                                *)
LEMMA QuietStep ==
    ASSUME TypeOK, Protocol, NEW t \in Tasks, NEW to \in Pcs,
           UNCHANGED <<locks, life>>, Goto(t, to),
           host' = host \/ pc[t] = "free",
           \A u \in Tasks \ {t} : host'[u] = host[u],
           pc[t] # "probing", to # "probing",
           to \in Inside => pc[t] \in Inside,
           to \in HasThread => pc[t] \in HasThread
    PROVE  Protocol'
BY DEF TypeOK, Protocol, ThreadOwner, FileOwner, ProbeOwner, ProbeExcludes, Holds,
       Inside, HasThread

(* Steps that move no task and touch no lock.                              *)
LEMMA StillStep ==
    ASSUME Protocol, UNCHANGED <<locks, life, host, pc>>
    PROVE  Protocol'
BY DEF Protocol, ThreadOwner, FileOwner, ProbeOwner, ProbeExcludes, Holds

(* Every step of a thread, a probe or a dying worker keeps the ownership   *)
(* of SCAN_LOCK, scan.lock and _guard.                                     *)
LEMMA ProtocolStep == TypeOK /\ Hosted /\ Protocol /\ [Next]_vars => Protocol'
<1> SUFFICES ASSUME TypeOK, Hosted, Protocol, [Next]_vars PROVE Protocol'
    OBVIOUS
<1> DEFINE Quiet(t) ==
        \/ ClearMem(t) \/ ClearFile(t) \/ RecordHistory(t) \/ Prepare(t)
        \/ EngineReaped(t) \/ EndRefine(t) \/ ImportResults(t) \/ Finish(t)
        \/ WriteRow(t) \/ WriteFailedRow(t)
        \/ SetCancelMem(t) \/ SetCancelFile(t) \/ TerminateSubprocesses(t) \/ UnlinkFlag(t)
        \/ \E w \in Workers : RestartServices(t, w) \/ Ask(t, w)
<1>1. ASSUME NEW t \in Tasks, Quiet(t) PROVE Protocol'
    <2>1. PICK to \in Pcs :
              /\ UNCHANGED <<locks, life>> /\ Goto(t, to)
              /\ host' = host \/ pc[t] = "free"
              /\ \A u \in Tasks \ {t} : host'[u] = host[u]
              /\ pc[t] # "probing" /\ to # "probing"
              /\ to \in Inside => pc[t] \in Inside
              /\ to \in HasThread => pc[t] \in HasThread
        BY <1>1 DEF TypeOK, Pcs, Inside, HasThread, ClearMem, ClearFile, RecordHistory, Prepare,
           EngineReaped, EndRefine, ImportResults, Finish, Decide, WriteRow, WriteFailedRow,
           SetCancelMem, SetCancelFile, TerminateSubprocesses, UnlinkFlag, RestartServices, Ask,
           AnswerActive
    <2> QED
        BY <2>1, QuietStep
<1>2. ASSUME NEW t \in Tasks, RefineChunk(t) \/ EngineExit(t) \/ WatchForCancel(t)
      PROVE Protocol'
    BY <1>2, StillStep DEF RefineChunk, EngineExit, WatchForCancel
<1>3. ASSUME NEW t \in Tasks, Probe(t) PROVE Protocol'
    <2>1. host[t] \in Workers /\ UNCHANGED <<host, life>>
        BY <1>3 DEF Probe, Hosted, TypeOK
    <2>2. \A u \in Tasks \ {t} : pc'[u] = pc[u]
        BY <1>3 DEF Probe, AnswerActive, AnswerInactive, TypeOK
    <2>3. /\ UNCHANGED scanLock
          /\ pc[t] = "probe" /\ guard[host[t]] = NoTask
          /\ \/ pc'[t] \in {"refused", "setMem", "spawned"} /\ UNCHANGED <<flock, guard>>
             \/ /\ flock = NoWorker /\ flock' = host[t] /\ pc'[t] = "probing"
                /\ guard' = [guard EXCEPT ![host[t]] = t]
        BY <1>3 DEF Probe, AnswerActive, AnswerInactive, TypeOK
    <2>4. ThreadOwner'
        BY <2>1, <2>2, <2>3, ScanAssumption DEF TypeOK, Hosted, Protocol, ThreadOwner, Inside,
           HasThread
    <2>5. FileOwner'
        BY <2>1, <2>2, <2>3, ScanAssumption DEF TypeOK, Hosted, Protocol, FileOwner, ProbeOwner,
           ThreadOwner, Holds, Inside, HasThread
    <2>6. ProbeOwner'
        BY <2>1, <2>2, <2>3, ScanAssumption DEF TypeOK, Hosted, Protocol, ProbeOwner, FileOwner,
           ThreadOwner, Holds, Inside, HasThread
    <2>7. ProbeExcludes'
        BY <2>1, <2>2, <2>3, ScanAssumption DEF TypeOK, Hosted, Protocol, ProbeExcludes,
           FileOwner, ProbeOwner, Holds, Inside
    <2> QED
        BY <2>4, <2>5, <2>6, <2>7 DEF Protocol
<1>4. ASSUME NEW t \in Tasks, EndProbe(t) PROVE Protocol'
    BY <1>4 DEF EndProbe, AnswerInactive, TypeOK, Hosted, Protocol, ThreadOwner,
       FileOwner, ProbeOwner, ProbeExcludes, Holds, Inside, HasThread
<1>5. ASSUME NEW t \in Tasks, AcquireScanLock(t) PROVE Protocol'
    <2>1. host[t] \in Workers /\ UNCHANGED <<host, life>>
        BY <1>5 DEF AcquireScanLock, Hosted, TypeOK
    <2>2. \A u \in Tasks \ {t} : pc'[u] = pc[u]
        BY <1>5 DEF AcquireScanLock, AnswerActive, AnswerInactive, TypeOK
    <2>3. /\ UNCHANGED <<flock, guard>>
          /\ pc[t] = "spawned"
          /\ \/ pc'[t] = "refused" /\ UNCHANGED scanLock
             \/ /\ pc'[t] = "fileLock" /\ scanLock[host[t]] = NoTask
                /\ scanLock' = [scanLock EXCEPT ![host[t]] = t]
        BY <1>5 DEF AcquireScanLock, TypeOK
    <2>4. ThreadOwner'
        BY <2>1, <2>2, <2>3, ScanAssumption DEF TypeOK, Hosted, Protocol, ThreadOwner, Inside,
           HasThread
    <2>5. FileOwner'
        BY <2>1, <2>2, <2>3, ScanAssumption DEF TypeOK, Hosted, Protocol, FileOwner, ProbeOwner,
           ThreadOwner, Holds, Inside, HasThread
    <2>6. ProbeOwner'
        BY <2>1, <2>2, <2>3, ScanAssumption DEF TypeOK, Hosted, Protocol, ProbeOwner, FileOwner,
           ThreadOwner, Holds, Inside, HasThread
    <2>7. ProbeExcludes'
        BY <2>1, <2>2, <2>3, ScanAssumption DEF TypeOK, Hosted, Protocol, ProbeExcludes,
           FileOwner, ProbeOwner, Holds, Inside
    <2> QED
        BY <2>4, <2>5, <2>6, <2>7 DEF Protocol
<1>6. ASSUME NEW t \in Tasks, AcquireFileLock(t) PROVE Protocol'
    <2>1. host[t] \in Workers /\ UNCHANGED <<host, life>>
        BY <1>6 DEF AcquireFileLock, Hosted, TypeOK
    <2>2. \A u \in Tasks \ {t} : pc'[u] = pc[u]
        BY <1>6 DEF AcquireFileLock, AnswerActive, AnswerInactive, TypeOK
    <2>3. /\ UNCHANGED <<scanLock, guard>>
          /\ pc[t] = "fileLock" /\ guard[host[t]] = NoTask
          /\ \/ pc'[t] = "backOff" /\ UNCHANGED flock
             \/ pc'[t] = "clearMem" /\ flock \in {NoWorker, host[t]} /\ flock' = host[t]
        BY <1>6 DEF AcquireFileLock, TypeOK
    <2>4. ThreadOwner'
        BY <2>1, <2>2, <2>3, ScanAssumption DEF TypeOK, Hosted, Protocol, ThreadOwner, Inside,
           HasThread
    <2>5. FileOwner'
        BY <2>1, <2>2, <2>3, ScanAssumption DEF TypeOK, Hosted, Protocol, FileOwner, ProbeOwner,
           ThreadOwner, Holds, Inside, HasThread
    <2>6. ProbeOwner'
        BY <2>1, <2>2, <2>3, ScanAssumption DEF TypeOK, Hosted, Protocol, ProbeOwner, FileOwner,
           ThreadOwner, Holds, Inside, HasThread
    <2>7. ProbeExcludes'
        BY <2>1, <2>2, <2>3, ScanAssumption DEF TypeOK, Hosted, Protocol, ProbeExcludes,
           FileOwner, ProbeOwner, Holds, Inside
    <2> QED
        BY <2>4, <2>5, <2>6, <2>7 DEF Protocol
<1>7. ASSUME NEW t \in Tasks, BackOff(t) PROVE Protocol'
    BY <1>7 DEF BackOff, TypeOK, Hosted, Protocol, ThreadOwner,
       FileOwner, ProbeOwner, ProbeExcludes, Holds, Inside, HasThread
<1>8. ASSUME NEW t \in Tasks, UnlockFile(t) PROVE Protocol'
    <2>1. host[t] \in Workers /\ UNCHANGED <<host, life>>
        BY <1>8 DEF UnlockFile, Hosted, TypeOK
    <2>2. \A u \in Tasks \ {t} : pc'[u] = pc[u]
        BY <1>8 DEF UnlockFile, AnswerActive, AnswerInactive, TypeOK
    <2>3. /\ UNCHANGED <<scanLock, guard>>
          /\ pc[t] = "unlockFile" /\ guard[host[t]] = NoTask
          /\ flock' = IF flock = host[t] THEN NoWorker ELSE flock
          /\ pc'[t] = "unlockThread"
        BY <1>8 DEF UnlockFile, TypeOK
    <2>4. ThreadOwner'
        BY <2>1, <2>2, <2>3, ScanAssumption DEF TypeOK, Hosted, Protocol, ThreadOwner, Inside,
           HasThread
    <2>5. FileOwner'
        BY <2>1, <2>2, <2>3, ScanAssumption DEF TypeOK, Hosted, Protocol, FileOwner, ProbeOwner,
           ThreadOwner, Holds, Inside, HasThread
    <2>6. ProbeOwner'
        BY <2>1, <2>2, <2>3, ScanAssumption DEF TypeOK, Hosted, Protocol, ProbeOwner, FileOwner,
           ThreadOwner, Holds, Inside, HasThread
    <2>7. ProbeExcludes'
        BY <2>1, <2>2, <2>3, ScanAssumption DEF TypeOK, Hosted, Protocol, ProbeExcludes,
           FileOwner, ProbeOwner, Holds, Inside
    <2> QED
        BY <2>4, <2>5, <2>6, <2>7 DEF Protocol
<1>9. ASSUME NEW t \in Tasks, UnlockThread(t) PROVE Protocol'
    BY <1>9 DEF UnlockThread, TypeOK, Hosted, Protocol, ThreadOwner,
       FileOwner, ProbeOwner, ProbeExcludes, Holds, Inside, HasThread
<1>10. ASSUME NEW w \in Workers, ExitKill(w) PROVE Protocol'
    BY <1>10 DEF ExitKill, TypeOK, Hosted, Protocol, ThreadOwner,
       FileOwner, ProbeOwner, ProbeExcludes, Holds, Inside, HasThread
<1>11. ASSUME NEW w \in Workers, ExitRelease(w) PROVE Protocol'
    BY <1>11, ScanAssumption DEF ExitRelease, TypeOK, Hosted, Protocol, ThreadOwner,
       FileOwner, ProbeOwner, ProbeExcludes, Holds, Inside, HasThread
<1>12. ASSUME NEW w \in Workers, Die(w) PROVE Protocol'
    BY <1>12, ScanAssumption DEF Die, TypeOK, Hosted, Protocol, ThreadOwner,
       FileOwner, ProbeOwner, ProbeExcludes, Holds, Inside, HasThread, Over
<1>13. CASE UNCHANGED vars
    BY <1>13, StillStep DEF vars
<1> QED
    BY <1>1, <1>2, <1>3, <1>4, <1>5, <1>6, <1>7, <1>8, <1>9, <1>10, <1>11, <1>12, <1>13
       DEF Next, RunStep

(* The inductive invariant of the lock protocol.                           *)
LEMMA Inductive == Spec => [](TypeOK /\ Hosted /\ Protocol)
<1>1. Init => TypeOK /\ Hosted /\ Protocol
    BY TypeInit, ScanAssumption DEF Init, Hosted, Protocol, ThreadOwner, FileOwner, ProbeOwner,
       ProbeExcludes, Holds, Inside, HasThread
<1>2. TypeOK /\ Hosted /\ Protocol /\ [Next]_vars => (TypeOK /\ Hosted /\ Protocol)'
    BY TypeStep, ProtocolStep
<1> QED
    BY <1>1, <1>2, PTL DEF Spec

(* Every variable of the lock protocol keeps its type, whatever workers    *)
(* die and whatever tasks the requests start.                              *)
THEOREM TypeCorrect == Spec => []TypeOK
BY Inductive, PTL

(* SCAN_LOCK and scan.lock admit one run at a time in all worker processes *)
(* together: two runs inside have the same process, whose SCAN_LOCK has    *)
(* one owner.                                                              *)
THEOREM Exclusion == Spec => []MutualExclusion
<1>1. Protocol => MutualExclusion
    BY DEF Protocol, ThreadOwner, FileOwner, MutualExclusion, Holds, HasThread
<1> QED
    BY <1>1, Inductive, PTL

-------------------------------------------------------------------------------
(* The refinement of SingleScan.                                           *)

(* Only taking the file lock can begin a run; every other step leaves a    *)
(* task in its phase or ends it.                                           *)
LEMMA PhaseStep ==
    TypeOK /\ Hosted /\ Protocol /\ [Next]_vars =>
        \/ \E t \in Tasks : Abstract!Start(t)
        \/ \A t \in Tasks : Phase(t)' \in {Phase(t), "over"}
<1> SUFFICES ASSUME TypeOK, Hosted, Protocol, [Next]_vars
             PROVE  \/ \E t \in Tasks : Abstract!Start(t)
                    \/ \A t \in Tasks : Phase(t)' \in {Phase(t), "over"}
    OBVIOUS
<1> USE DEF Phase, Holds, Inside, Over, TypeOK
<1>1. ASSUME NEW t \in Tasks, AcquireFileLock(t), Phase(t)' = "running"
      PROVE  Abstract!Start(t)
    <2>1. Phase(t) = "waiting"
        BY <1>1 DEF AcquireFileLock
    <2>2. \A u \in Tasks : Phase(u) # "running"
        <3> SUFFICES ASSUME NEW u \in Tasks, Holds(u) PROVE FALSE
            OBVIOUS
        <3>1. flock = host[t] /\ host[u] = host[t]
            BY <1>1, ScanAssumption DEF AcquireFileLock, Hosted, Protocol, FileOwner
        <3>2. scanLock[host[u]] = u /\ scanLock[host[t]] = t
            BY <1>1, <3>1 DEF AcquireFileLock, Protocol, ThreadOwner, HasThread
        <3> QED
            BY <1>1, <3>1, <3>2 DEF AcquireFileLock
    <2>3. [u \in Tasks |-> Phase(u)'] = [[u \in Tasks |-> Phase(u)] EXCEPT ![t] = "running"]
        BY <1>1 DEF AcquireFileLock
    <2> QED
        BY <2>1, <2>2, <2>3 DEF Abstract!Start
<1>2. ASSUME NEW t \in Tasks, AcquireFileLock(t), Phase(t)' # "running"
      PROVE  \A u \in Tasks : Phase(u)' \in {Phase(u), "over"}
    BY <1>2 DEF AcquireFileLock
<1>3. ASSUME NEW t \in Tasks, RunStep(t), ~ AcquireFileLock(t)
      PROVE  \A u \in Tasks : Phase(u)' \in {Phase(u), "over"}
    <2>1. UNCHANGED <<host, life>> /\ \A u \in Tasks \ {t} : pc'[u] = pc[u]
        BY <1>3 DEF RunStep, Probe, EndProbe, AnswerActive, AnswerInactive, AcquireScanLock,
           BackOff, ClearMem, ClearFile, RecordHistory, Prepare, EngineReaped, EndRefine,
           ImportResults, Finish, Decide, WriteRow, WriteFailedRow, UnlockFile, UnlockThread,
           SetCancelMem, SetCancelFile, TerminateSubprocesses, UnlinkFlag
    <2>2. \/ pc[t] \notin Inside \cup {"unlockThread"} \cup Over /\ pc'[t] \notin Inside \cup {"unlockThread"}
          \/ pc[t] \in Inside /\ pc'[t] \in Inside \cup {"unlockThread"}
          \/ pc[t] = "unlockThread" /\ pc'[t] = "done"
        BY <1>3 DEF RunStep, Probe, EndProbe, AnswerActive, AnswerInactive, AcquireScanLock,
           BackOff, ClearMem, ClearFile, RecordHistory, Prepare, EngineReaped, EndRefine,
           ImportResults, Finish, Decide, WriteRow, WriteFailedRow, UnlockFile, UnlockThread,
           SetCancelMem, SetCancelFile, TerminateSubprocesses, UnlinkFlag
    <2> QED
        BY <2>1, <2>2
<1>4. ASSUME NEW t \in Tasks, RefineChunk(t) \/ EngineExit(t) \/ WatchForCancel(t)
      PROVE  \A u \in Tasks : Phase(u)' \in {Phase(u), "over"}
    BY <1>4 DEF RefineChunk, EngineExit, WatchForCancel
<1>5. ASSUME NEW t \in Tasks, NEW w \in Workers, Ask(t, w) \/ RestartServices(t, w)
      PROVE  \A u \in Tasks : Phase(u)' \in {Phase(u), "over"}
    BY <1>5 DEF Ask, AnswerActive, RestartServices
<1>6. ASSUME NEW w \in Workers, ExitKill(w) \/ ExitRelease(w) \/ Die(w)
      PROVE  \A u \in Tasks : Phase(u)' \in {Phase(u), "over"}
    BY <1>6 DEF ExitKill, ExitRelease, Die
<1>7. CASE UNCHANGED vars
    BY <1>7 DEF vars
<1> QED
    BY <1>1, <1>2, <1>3, <1>4, <1>5, <1>6, <1>7 DEF Next

(* The lock protocol implements SingleScan: a run that takes the file lock *)
(* begins while no other is under way, and all other steps only end runs.  *)
THEOREM Refinement == Spec => ImplementsSingleScan
<1>1. Init => Abstract!Init
    BY DEF Init, Abstract!Init, Phase, Holds, Inside, Over
<1>2. TypeOK /\ Hosted /\ Protocol /\ [Next]_vars => [Abstract!Next]_[t \in Tasks |-> Phase(t)]
    <2> SUFFICES ASSUME TypeOK, Hosted, Protocol, [Next]_vars PROVE Abstract!Next
        OBVIOUS
    <2>1. CASE \E t \in Tasks : Abstract!Start(t)
        BY <2>1 DEF Abstract!Next
    <2>2. CASE \A t \in Tasks : Phase(t)' \in {Phase(t), "over"}
        <3> DEFINE S == {t \in Tasks : Phase(t)' = "over"}
        <3>1. Abstract!Stop(S)
            BY <2>2 DEF Abstract!Stop
        <3> QED
            BY <3>1 DEF Abstract!Next
    <2> QED
        BY <2>1, <2>2, PhaseStep
<1> QED
    BY <1>1, <1>2, Inductive, PTL DEF Spec, ImplementsSingleScan, Abstract!Spec
-------------------------------------------------------------------------------
(* Cancelling, beyond the locks.                                           *)

(* Past the reset of the flag and before the last look at it.              *)
Looking == {"record", "prepare", "engine", "refine", "import", "finish"}

(* Where a look at the flag decides the outcome: the write of the row, too, *)
(* which looks again after an error.                                       *)
Deciding == Looking \cup {"write"}

(* No look at the flag is ahead of such a run, unless after an error.      *)
Decided == {"write", "writeFailed", "unlockFile", "unlockThread", "done", "dead", "leaked"}

(* A flag that a run can see was set while it was under way: first by the  *)
(* memory of its process, which it resets first, then by the file.         *)
FlagMeansAimed ==
    /\ \A t \in Tasks : pc[t] \in Deciding /\ CancelRequested(host[t]) => aimed[t] # "no"
    /\ \A t \in Tasks : pc[t] = "clearFile" /\ cancelMem[host[t]] => aimed[t] # "no"

(* Between the look and the write the outcome is a local variable.         *)
NoStaleVerdict == \A t \in Tasks : verdict[t] = "cancelled" => aimed[t] # "no"

Flagged == FlagMeansAimed /\ NoStaleVerdict /\ NoStaleCancel

(* Steps that neither touch the flag nor take away an aim, and do not move *)
(* a task into the part of a run that looks at the flag.                   *)
LEMMA FlagUntouched ==
    ASSUME TypeOK, Flagged, UNCHANGED flags,
           \A u \in Tasks : /\ aimed[u] # "no" => aimed'[u] # "no"
                            /\ pc'[u] # pc[u] /\ pc'[u] \in Deciding => pc[u] \in Deciding
                            /\ pc'[u] # pc[u] => pc'[u] # "clearFile"
                            /\ pc'[u] \in Deciding \cup {"clearFile"} => host'[u] = host[u]
                            /\ verdict'[u] = "cancelled" =>
                                   \/ verdict[u] = "cancelled"
                                   \/ pc[u] \in Deciding /\ CancelRequested(host[u])
                            /\ row'[u] = "cancelled" =>
                                   row[u] = "cancelled" \/ verdict[u] = "cancelled"
    PROVE  Flagged'
BY DEF Flagged, FlagMeansAimed, NoStaleVerdict, NoStaleCancel, CancelRequested, Deciding,
   Looking, TypeOK

(* A run resets the flag of its process, then the file, before it looks;   *)
(* whoever sets either one aims at it.                                     *)
LEMMA FlaggedStep == TypeOK /\ Hosted /\ Flagged /\ [Next]_vars => Flagged'
<1> SUFFICES ASSUME TypeOK, Hosted, Flagged, [Next]_vars PROVE Flagged'
    OBVIOUS
<1> USE DEF TypeOK, Looking, Deciding
<1>1. ASSUME NEW t \in Tasks, ClearMem(t) PROVE Flagged'
    BY <1>1 DEF ClearMem, Hosted, Flagged, FlagMeansAimed, NoStaleVerdict, NoStaleCancel,
       CancelRequested
<1>2. ASSUME NEW t \in Tasks, ClearFile(t) PROVE Flagged'
    BY <1>2 DEF ClearFile, Expose, Flagged, FlagMeansAimed, NoStaleVerdict, NoStaleCancel,
       CancelRequested
<1>3. ASSUME NEW t \in Tasks, SetCancelMem(t) PROVE Flagged'
    BY <1>3 DEF SetCancelMem, MayLook, Inside, Flagged, FlagMeansAimed, NoStaleVerdict,
       NoStaleCancel, CancelRequested
<1>4. ASSUME NEW t \in Tasks, SetCancelFile(t) PROVE Flagged'
    <2>1. \A u \in Tasks : aimed[u] # "no" \/ pc[u] \in Deciding => aimed'[u] # "no"
        BY <1>4 DEF SetCancelFile, AimFile, MayLook, Inside
    <2>2. /\ UNCHANGED <<cancelMem, host, verdict, row>>
          /\ \A u \in Tasks : pc'[u] # pc[u] => pc'[u] \in {"terminate", "unlink"}
        BY <1>4 DEF SetCancelFile
    <2> QED
        BY <2>1, <2>2 DEF Flagged, FlagMeansAimed, NoStaleVerdict, NoStaleCancel
<1>5. ASSUME NEW t \in Tasks, UnlinkFlag(t) PROVE Flagged'
    BY <1>5 DEF UnlinkFlag, Expose, Flagged, FlagMeansAimed, NoStaleVerdict, NoStaleCancel,
       CancelRequested
<1>6. ASSUME NEW w \in Workers, Die(w) PROVE Flagged'
    BY <1>6 DEF Die, Flagged, FlagMeansAimed, NoStaleVerdict, NoStaleCancel, CancelRequested
<1>7. ASSUME NEW t \in Tasks,
             \/ Prepare(t) \/ EngineReaped(t) \/ ImportResults(t) \/ Finish(t)
             \/ WriteRow(t) \/ WriteFailedRow(t)
      PROVE  Flagged'
    <2>1. UNCHANGED <<flags, aimed, host>>
        BY <1>7 DEF Prepare, EngineReaped, ImportResults, Finish, WriteRow, WriteFailedRow
    <2>2. \A u \in Tasks :
              u # t => pc'[u] = pc[u] /\ row'[u] = row[u] /\ verdict'[u] = verdict[u]
        BY <1>7 DEF Prepare, EngineReaped, ImportResults, Finish, WriteRow, WriteFailedRow,
           UpdateRow, Decide
    <2>3. pc'[t] # "clearFile" /\ (pc'[t] \in Deciding => pc[t] \in Deciding)
        BY <1>7 DEF Prepare, EngineReaped, ImportResults, Finish, WriteRow, WriteFailedRow, Decide
    <2>4. verdict'[t] = "cancelled" =>
              verdict[t] = "cancelled" \/ (pc[t] \in Deciding /\ CancelRequested(host[t]))
        <3>1. CASE Prepare(t) \/ EngineReaped(t)
            BY <3>1 DEF Prepare, EngineReaped, Decide, FailedStatus
        <3>2. CASE ImportResults(t) \/ Finish(t)
            BY <3>2 DEF ImportResults, Finish, Decide, FailedStatus, EndStatus
        <3>3. CASE WriteRow(t) \/ WriteFailedRow(t)
            BY <3>3 DEF WriteRow, WriteFailedRow, FailedStatus
        <3> QED
            BY <1>7, <3>1, <3>2, <3>3
    <2>5. row'[t] = "cancelled" => row[t] = "cancelled" \/ verdict[t] = "cancelled"
        BY <1>7 DEF Prepare, EngineReaped, ImportResults, Finish, WriteRow, WriteFailedRow,
           UpdateRow
    <2> QED
        BY <2>1, <2>2, <2>3, <2>4, <2>5, FlagUntouched
<1>8. ASSUME NEW t \in Tasks,
             \/ Probe(t) \/ EndProbe(t) \/ AcquireScanLock(t) \/ AcquireFileLock(t) \/ BackOff(t)
             \/ RecordHistory(t) \/ EndRefine(t) \/ UnlockFile(t) \/ UnlockThread(t)
             \/ TerminateSubprocesses(t)
             \/ \E w \in Workers : Ask(t, w) \/ RestartServices(t, w)
      PROVE  Flagged'
    <2>1. UNCHANGED <<flags, aimed, verdict>> /\ (host' = host \/ pc[t] = "free")
        BY <1>8 DEF Probe, EndProbe, AcquireScanLock, AcquireFileLock, BackOff, RecordHistory,
           EndRefine, UnlockFile, UnlockThread, TerminateSubprocesses, Ask, RestartServices
    <2>2. /\ pc'[t] \in Deciding => pc[t] \in Deciding
          /\ pc'[t] # "clearFile"
          /\ pc[t] = "free" => pc'[t] \notin Deciding
        BY <1>8 DEF Probe, EndProbe, AcquireScanLock, AcquireFileLock, BackOff, RecordHistory,
           EndRefine, UnlockFile, UnlockThread, TerminateSubprocesses, Ask, RestartServices,
           AnswerActive, AnswerInactive
    <2>3. \A u \in Tasks : u # t => pc'[u] = pc[u] /\ host'[u] = host[u]
        BY <1>8 DEF Probe, EndProbe, AcquireScanLock, AcquireFileLock, BackOff, RecordHistory,
           EndRefine, UnlockFile, UnlockThread, TerminateSubprocesses, Ask, RestartServices,
           AnswerActive, AnswerInactive
    <2>4. \A u \in Tasks : row'[u] = "cancelled" => row[u] = "cancelled"
        BY <1>8 DEF Probe, EndProbe, AcquireScanLock, AcquireFileLock, BackOff, RecordHistory,
           EndRefine, UnlockFile, UnlockThread, TerminateSubprocesses, Ask, RestartServices
    <2> QED
        BY <2>1, <2>2, <2>3, <2>4, FlagUntouched
<1>9. CASE UNCHANGED <<flags, host, pc, outcome>> /\ \A u \in Tasks : aimed[u] # "no" => aimed'[u] # "no"
    BY <1>9, FlagUntouched
<1>10. ASSUME NEW t \in Tasks, RefineChunk(t) \/ EngineExit(t) \/ WatchForCancel(t)
       PROVE  Flagged'
    BY <1>9, <1>10 DEF RefineChunk, EngineExit, WatchForCancel
<1>11. ASSUME NEW w \in Workers, ExitKill(w) \/ ExitRelease(w) PROVE Flagged'
    BY <1>9, <1>11 DEF ExitKill, ExitRelease, Expose
<1>12. CASE UNCHANGED vars
    BY <1>9, <1>12 DEF vars
<1> QED
    BY <1>1, <1>2, <1>3, <1>4, <1>5, <1>6, <1>7, <1>8, <1>10, <1>11, <1>12 DEF Next, RunStep

(* No run is recorded as cancelled because of a flag that an earlier cancel *)
(* or a past boot left: whatever workers die and whatever is restarted.    *)
THEOREM NeverStale == Spec => []NoStaleCancel
<1>1. Init => Flagged
    BY DEF Init, Flagged, FlagMeansAimed, NoStaleVerdict, NoStaleCancel, Deciding, Looking
<1>2. TypeOK /\ Hosted /\ Flagged /\ [Next]_vars => Flagged'
    BY FlaggedStep
<1>3. Flagged => NoStaleCancel
    BY DEF Flagged
<1> QED
    BY <1>1, <1>2, <1>3, Inductive, PTL DEF Spec

(* A cancel that must be seen leaves the flag file, and its run the locks, *)
(* until the run has looked at the flag for the last time.                 *)
AimedMeansFlag ==
    \A t \in Tasks : aimed[t] = "fully" =>
        /\ pc[t] \in Looking \cup Decided
        /\ pc[t] \in Looking => cancelFile /\ Holds(t)
        /\ verdict[t] # "success"

(* Success is decided at the last look, and recorded after it.             *)
OutcomeLast ==
    \A t \in Tasks : row[t] = "success" \/ verdict[t] = "success" => pc[t] \in Decided

Effective == AimedMeansFlag /\ OutcomeLast /\ CancelEffective

(* A step of one task that leaves the flag file, the aims and the lives    *)
(* alone.                                                                  *)
LEMMA AimKept ==
    ASSUME TypeOK, Effective, NEW t \in Tasks, UNCHANGED <<aimed, life>>,
           cancelFile => cancelFile',
           \A u \in Tasks \ {t} : /\ pc'[u] = pc[u] /\ row'[u] = row[u]
                                  /\ verdict'[u] = verdict[u] /\ host'[u] = host[u],
           pc[t] \in Looking => host'[t] = host[t] /\ pc'[t] \in Looking \cup Decided,
           pc[t] \in Decided => pc'[t] \in Decided,
           \/ verdict'[t] \in {verdict[t], "none", "failed", "cancelled", "skipped"}
           \/ pc[t] \in Looking /\ pc'[t] \in Decided /\ ~ cancelFile,
           row'[t] = "success" => row[t] = "success" \/ verdict[t] = "success"
    PROVE  Effective'
BY DEF Effective, AimedMeansFlag, OutcomeLast, CancelEffective, Looking, Decided, Holds, Inside,
   TypeOK

(* The flag file of a cancel outlives the last look of the run it is aimed *)
(* at: a run that has just taken the locks is alone with them, and whoever *)
(* removes the file without them takes the aim away.                       *)
LEMMA EffectiveStep ==
    ASSUME TypeOK, Hosted, Protocol, Effective, [Next]_vars
    PROVE  Effective'
<1> USE DEF TypeOK
<1>1. ASSUME NEW t \in Tasks, ClearFile(t) PROVE Effective'
    <2>1. ASSUME Holds(t), NEW u \in Tasks, aimed[u] = "fully" PROVE pc[u] \in Decided
        <3>1. CASE pc[u] \in Looking
            <4>1. Holds(u)
                BY <2>1, <3>1 DEF Effective, AimedMeansFlag
            <4>2. u = t
                BY <2>1, <4>1 DEF Protocol, ThreadOwner, FileOwner, Holds, HasThread
            <4> QED
                BY <1>1, <3>1, <4>2 DEF ClearFile, Looking
        <3> QED
            BY <2>1, <3>1 DEF Effective, AimedMeansFlag
    <2>2. aimed'[t] # "fully"
        BY <1>1 DEF ClearFile, Expose, Effective, AimedMeansFlag, Looking, Decided
    <2>3. \A u \in Tasks : aimed'[u] = "fully" => aimed[u] = "fully" /\ pc[u] \in Decided
        BY <1>1, <2>1 DEF ClearFile, Expose
    <2> QED
        BY <1>1, <2>2, <2>3 DEF ClearFile, Effective, AimedMeansFlag, OutcomeLast,
           CancelEffective, Looking, Decided
<1>2. ASSUME NEW t \in Tasks, SetCancelMem(t) PROVE Effective'
    BY <1>2 DEF SetCancelMem, Effective, AimedMeansFlag, OutcomeLast, CancelEffective, Looking,
       Decided, Holds, Inside
<1>3. ASSUME NEW t \in Tasks, SetCancelFile(t) PROVE Effective'
    <2>1. /\ UNCHANGED <<life, host, verdict, row>> /\ cancelFile' /\ pc[t] = "setFile"
          /\ pc'[t] \in {"terminate", "unlink"}
          /\ \A u \in Tasks : u # t => pc'[u] = pc[u]
        BY <1>3 DEF SetCancelFile
    <2>2. \A u \in Tasks : aimed'[u] = "fully" =>
              \/ aimed[u] = "fully" /\ pc[u] \notin Looking
              \/ pc[u] \in Looking /\ Holds(u)
        BY <1>3 DEF SetCancelFile, AimFile, MayLook, Holds, Inside, Looking
    <2> QED
        BY <2>1, <2>2 DEF Effective, AimedMeansFlag, OutcomeLast, CancelEffective, Looking,
           Decided, Holds, Inside
<1>4. ASSUME NEW t \in Tasks, UnlinkFlag(t) PROVE Effective'
    BY <1>4 DEF UnlinkFlag, Expose, Effective, AimedMeansFlag, OutcomeLast, CancelEffective,
       Looking, Decided
<1>5. ASSUME NEW w \in Workers, Die(w) PROVE Effective'
    <2>1. \A u \in Tasks :
              \/ pc'[u] = pc[u] /\ (Holds(u) => Holds(u)')
              \/ pc'[u] = "dead"
        BY <1>5, ScanAssumption DEF Die, Holds, Inside, Over, Hosted
    <2> QED
        BY <1>5, <2>1 DEF Die, Effective, AimedMeansFlag, OutcomeLast, CancelEffective, Looking,
           Decided
<1>6. ASSUME NEW t \in Tasks,
             \/ Prepare(t) \/ EngineReaped(t) \/ ImportResults(t) \/ Finish(t)
             \/ WriteRow(t) \/ WriteFailedRow(t)
      PROVE  Effective'
    <2>1. UNCHANGED <<cancelFile, aimed, life, host>>
        BY <1>6 DEF Prepare, EngineReaped, ImportResults, Finish, WriteRow, WriteFailedRow
    <2>2. /\ pc[t] \in Looking => pc'[t] \in Looking \cup Decided
          /\ pc[t] \in Decided => pc'[t] \in Decided
        BY <1>6 DEF Prepare, EngineReaped, ImportResults, Finish, WriteRow, WriteFailedRow, Decide,
           Looking, Decided
    <2>3. \A u \in Tasks \ {t} :
              pc'[u] = pc[u] /\ row'[u] = row[u] /\ verdict'[u] = verdict[u]
        BY <1>6 DEF Prepare, EngineReaped, ImportResults, Finish, WriteRow, WriteFailedRow,
           UpdateRow, Decide
    <2>4. \/ verdict'[t] \in {verdict[t], "none", "failed", "cancelled", "skipped"}
          \/ pc[t] \in Looking /\ pc'[t] \in Decided /\ ~ cancelFile
        BY <1>6 DEF Prepare, EngineReaped, ImportResults, Finish, WriteRow, WriteFailedRow, Decide,
           FailedStatus, EndStatus, CancelRequested, Looking, Decided
    <2>5. row'[t] = "success" => row[t] = "success" \/ verdict[t] = "success"
        BY <1>6 DEF Prepare, EngineReaped, ImportResults, Finish, WriteRow, WriteFailedRow,
           UpdateRow
    <2> QED
        BY <2>1, <2>2, <2>3, <2>4, <2>5, AimKept
<1>7. ASSUME NEW t \in Tasks,
             \/ Probe(t) \/ EndProbe(t) \/ AcquireScanLock(t) \/ AcquireFileLock(t) \/ BackOff(t)
             \/ ClearMem(t) \/ RecordHistory(t) \/ EndRefine(t) \/ UnlockFile(t)
             \/ UnlockThread(t) \/ TerminateSubprocesses(t)
             \/ \E w \in Workers : Ask(t, w) \/ RestartServices(t, w)
      PROVE  Effective'
    <2>1. UNCHANGED <<cancelFile, aimed, life, verdict>> /\ (host' = host \/ pc[t] = "free")
        BY <1>7 DEF Probe, EndProbe, AcquireScanLock, AcquireFileLock, BackOff, ClearMem,
           RecordHistory, EndRefine, UnlockFile, UnlockThread, TerminateSubprocesses, Ask,
           RestartServices
    <2>2. /\ pc[t] \in Looking => pc'[t] \in Looking \cup {"leaked"}
          /\ pc[t] \in Decided => pc'[t] \in Decided
        BY <1>7 DEF Probe, EndProbe, AcquireScanLock, AcquireFileLock, BackOff, ClearMem,
           RecordHistory, EndRefine, UnlockFile, UnlockThread, TerminateSubprocesses, Ask,
           RestartServices, AnswerActive, AnswerInactive, Looking, Decided
    <2>3. \A u \in Tasks \ {t} : pc'[u] = pc[u] /\ host'[u] = host[u]
        BY <1>7 DEF Probe, EndProbe, AcquireScanLock, AcquireFileLock, BackOff, ClearMem,
           RecordHistory, EndRefine, UnlockFile, UnlockThread, TerminateSubprocesses, Ask,
           RestartServices, AnswerActive, AnswerInactive
    <2>4. \A u \in Tasks : row'[u] = row[u] \/ (u = t /\ row'[u] # "success")
        BY <1>7 DEF Probe, EndProbe, AcquireScanLock, AcquireFileLock, BackOff, ClearMem,
           RecordHistory, EndRefine, UnlockFile, UnlockThread, TerminateSubprocesses, Ask,
           RestartServices
    <2> QED
        BY <2>1, <2>2, <2>3, <2>4, AimKept DEF Looking, Decided
<1>8. CASE UNCHANGED <<cancelFile, aimed, pc, outcome, host, life>>
    BY <1>8 DEF Effective, AimedMeansFlag, OutcomeLast, CancelEffective, Holds
<1>9. ASSUME NEW t \in Tasks, RefineChunk(t) \/ EngineExit(t) \/ WatchForCancel(t)
      PROVE  Effective'
    BY <1>8, <1>9 DEF RefineChunk, EngineExit, WatchForCancel
<1>10. ASSUME NEW w \in Workers, ExitKill(w) PROVE Effective'
    BY <1>10 DEF ExitKill, Effective, AimedMeansFlag, OutcomeLast, CancelEffective, Holds
<1>11. ASSUME NEW w \in Workers, ExitRelease(w) PROVE Effective'
    BY <1>11 DEF ExitRelease, Expose, Effective, AimedMeansFlag, OutcomeLast, CancelEffective,
       Holds
<1>12. CASE UNCHANGED vars
    BY <1>8, <1>12 DEF vars
<1> QED
    BY <1>1, <1>2, <1>3, <1>4, <1>5, <1>6, <1>7, <1>9, <1>10, <1>11, <1>12 DEF Next, RunStep

(* A cancel written after a run has reset the flag and before its last     *)
(* look at it is never lost, for any workers, however they die or exit,    *)
(* whatever exceptions a run meets, and whatever backups are restored: a   *)
(* run that it must reach is not recorded as a success (run_scan,          *)
(* cancel_scan).  Locks taken by two runs, or a reset by a run without the *)
(* locks, would lose it.                                                   *)
THEOREM CancelNeverLost == Spec => []CancelEffective
<1>1. Init => Effective
    BY DEF Init, Effective, AimedMeansFlag, OutcomeLast, CancelEffective
<1>2. TypeOK /\ Hosted /\ Protocol /\ Effective /\ [Next]_vars => Effective'
    BY EffectiveStep
<1>3. Effective => CancelEffective
    BY DEF Effective
<1> QED
    BY <1>1, <1>2, <1>3, Inductive, PTL DEF Spec
================================================================================
