------------------------------- MODULE Scheduler -------------------------------
(***************************************************************************)
(* services/scheduler.py: one thread in one gunicorn worker fires health   *)
(* scans, discovery scans and backups.  Time is counted in ticks, the 10 s *)
(* sleeps of its loop; timers stop counting at their interval.             *)
(*                                                                         *)
(* The scan lock is abstracted to "one run at a time" (SingleScan, which   *)
(* ScanCoordination implements); a run refused by the lock just ends.      *)
(***************************************************************************)
EXTENDS Naturals

CONSTANTS
    Workers, NoWorker,
    ScanInterval, HealthInterval, BackupInterval,   \* settings, in ticks
    MaxRun,         \* a scan ends within this many ticks (scan_timeout)
    MaxIdle,        \* bound of the history counter idleHealth
    MaxDeaths       \* bound on deaths of the scheduling worker

ASSUME SchedulerAssumption ==
    /\ NoWorker \notin Workers
    /\ ScanInterval \in Nat \ {0} /\ HealthInterval \in Nat \ {0}
    /\ BackupInterval \in Nat \ {0} /\ MaxRun \in Nat \ {0}
    /\ MaxIdle \in Nat /\ MaxDeaths \in Nat

VARIABLES
    owner,          \* who holds SCHEDULER_LOCK_FILE and runs the loop
    phase,          \* where its loop is
    sinceDiscovery, \* now - last_discovery
    sinceHealth,    \* now - last_health
    run,            \* the scan in progress: its kind and who started it
    ran,            \* for how many ticks it has run
    spawned,        \* kinds of scan whose thread has not reached the lock yet
    sinceRecorded,  \* now - last_backup_time, a row of settings
    backup,         \* is a scheduled backup being taken
    idleHealth,     \* history: ticks without a scheduled health scan starting
    consumed,       \* history: discovery turns consumed since discovery started
    refused,        \* history: scheduled scans that found the lock taken
    sinceBackup,    \* history: ticks since a scheduled backup began
    rewound,        \* history: a restore put last_backup_time behind that backup
    quiet,          \* history: so far the scheduler had the lock to itself
    brief,          \* history: so far every scan was over before health was due again
    deaths

schedulerVars ==
    <<owner, phase, sinceDiscovery, sinceHealth, run, ran, spawned, sinceRecorded, backup,
      idleHealth, consumed, refused, sinceBackup, rewound, quiet, brief, deaths>>

Kinds   == {"health", "discovery"}
NoRun   == [kind |-> "none", by |-> "nobody"]
Runs    == [kind : Kinds, by : {"scheduler", "admin"}] \cup {NoRun}
Phases  == {"sleep", "check", "fire", "backup", "record", "start"}

SchedulerTypeOK ==
    /\ owner \in Workers \cup {NoWorker}
    /\ phase \in Phases
    /\ sinceDiscovery \in 0 .. ScanInterval
    /\ sinceHealth \in 0 .. HealthInterval
    /\ run \in Runs
    /\ ran \in 0 .. MaxRun
    /\ spawned \in SUBSET Kinds
    /\ sinceRecorded \in 0 .. BackupInterval
    /\ backup \in BOOLEAN
    /\ idleHealth \in 0 .. MaxIdle
    /\ consumed \in 0 .. 2
    /\ refused \in 0 .. 1
    /\ sinceBackup \in 0 .. BackupInterval
    /\ rewound \in BOOLEAN
    /\ quiet \in BOOLEAN /\ brief \in BOOLEAN
    /\ deaths \in 0 .. MaxDeaths

(* No backup was ever taken: last_backup_time is empty.                    *)
SchedulerInit ==
    /\ owner = NoWorker /\ phase = "sleep"
    /\ sinceDiscovery = 0 /\ sinceHealth = 0
    /\ run = NoRun /\ ran = 0 /\ spawned = {}
    /\ sinceRecorded = BackupInterval /\ backup = FALSE
    /\ idleHealth = 0 /\ consumed = 0 /\ refused = 0
    /\ sinceBackup = BackupInterval /\ rewound = FALSE
    /\ quiet = TRUE /\ brief = TRUE
    /\ deaths = 0

timers  == <<sinceDiscovery, sinceHealth>>
scans   == <<run, ran, spawned>>
backups == <<sinceRecorded, backup, sinceBackup, rewound>>
history == <<idleHealth, consumed, refused, quiet, brief>>

UpTo(n, bound) == IF n < bound THEN n + 1 ELSE n

DiscoveryDue == sinceDiscovery = ScanInterval
HealthDue    == sinceHealth = HealthInterval

-------------------------------------------------------------------------------
(* Every worker tries the lock every 30 s; the winner starts both timers.  *)
TakeOver(w) ==
    /\ owner = NoWorker
    /\ owner' = w
    /\ phase' = "sleep"
    /\ sinceDiscovery' = 0 /\ sinceHealth' = 0
    /\ idleHealth' = 0
    /\ UNCHANGED <<scans, backups, consumed, refused, quiet, brief, deaths>>

(* Ten seconds pass.  A spawned thread reaches the lock sooner than that,  *)
(* and a scan is over before its timeout.                                  *)
Tick ==
    /\ owner # NoWorker => phase = "sleep"
    /\ spawned = {}
    /\ run = NoRun \/ ran < MaxRun
    /\ phase' = IF owner = NoWorker THEN phase ELSE "check"
    /\ sinceDiscovery' = UpTo(sinceDiscovery, ScanInterval)
    /\ sinceHealth' = UpTo(sinceHealth, HealthInterval)
    /\ sinceRecorded' = UpTo(sinceRecorded, BackupInterval)
    /\ sinceBackup' = UpTo(sinceBackup, BackupInterval)
    /\ ran' = IF run = NoRun THEN 0 ELSE ran + 1
    /\ idleHealth' = UpTo(idleHealth, MaxIdle)
    /\ brief' = (brief /\ ran' + 1 < HealthInterval)
    /\ UNCHANGED <<owner, run, spawned, backup, rewound, consumed, refused, quiet, deaths>>

(* is_scan_active: false if no scan runs, unless a probe of another worker *)
(* holds the file lock just then.                                          *)
SeesActive   == quiet' = (quiet /\ run # NoRun)
SeesInactive == run = NoRun /\ UNCHANGED quiet

Check ==
    /\ phase = "check" /\ owner # NoWorker
    /\ \/ /\ DiscoveryDue \/ HealthDue
          /\ SeesInactive
          /\ phase' = "fire"
       \/ /\ DiscoveryDue \/ HealthDue
          /\ SeesActive
          /\ phase' = "backup"
       \/ /\ ~ DiscoveryDue /\ ~ HealthDue
          /\ phase' = "backup"
          /\ UNCHANGED quiet
    /\ UNCHANGED <<owner, timers, scans, backups, idleHealth, consumed, refused, brief, deaths>>

(* Mutant: discovery first, as before 1.2.0.                               *)
FireDiscoveryFirst ==
    /\ phase = "fire" /\ owner # NoWorker
    /\ phase' = "backup"
    /\ \/ /\ DiscoveryDue
          /\ sinceDiscovery' = 0
          /\ sinceHealth' = IF HealthDue THEN 0 ELSE sinceHealth
          /\ spawned' = spawned \cup {"discovery"}
          /\ UNCHANGED consumed
       \/ /\ HealthDue /\ ~ DiscoveryDue
          /\ sinceHealth' = 0
          /\ spawned' = spawned \cup {"health"}
          /\ UNCHANGED <<sinceDiscovery, consumed>>
    /\ UNCHANGED <<owner, run, ran, backups, idleHealth, refused, quiet, brief, deaths>>

(* Mutant: last_health is not set when health is fired.                    *)
FireKeepsHealthDue ==
    /\ phase = "fire" /\ owner # NoWorker
    /\ phase' = "backup"
    /\ \/ /\ HealthDue
          /\ IF DiscoveryDue
             THEN sinceDiscovery' = 0 /\ consumed' = UpTo(consumed, 2)
             ELSE UNCHANGED <<sinceDiscovery, consumed>>
          /\ spawned' = spawned \cup {"health"}
       \/ /\ ~ HealthDue /\ DiscoveryDue
          /\ sinceDiscovery' = 0
          /\ spawned' = spawned \cup {"discovery"}
          /\ UNCHANGED consumed
    /\ UNCHANGED <<owner, sinceHealth, run, ran, backups, idleHealth, refused, quiet, brief, deaths>>

(* Health goes first, and takes discovery's turn along if that is due.     *)
Fire ==
    /\ phase = "fire" /\ owner # NoWorker
    /\ phase' = "backup"
    /\ \/ /\ HealthDue
          /\ sinceHealth' = 0
          /\ IF DiscoveryDue
             THEN sinceDiscovery' = 0 /\ consumed' = UpTo(consumed, 2)
             ELSE UNCHANGED <<sinceDiscovery, consumed>>
          /\ spawned' = spawned \cup {"health"}
       \/ /\ ~ HealthDue /\ DiscoveryDue
          /\ sinceDiscovery' = 0
          /\ spawned' = spawned \cup {"discovery"}
          /\ UNCHANGED <<sinceHealth, consumed>>
    /\ UNCHANGED <<owner, run, ran, backups, idleHealth, refused, quiet, brief, deaths>>

(* The look at the interval: not due, or switched off, or due.             *)
CheckBackup ==
    /\ phase = "backup" /\ owner # NoWorker
    /\ \/ phase' = "sleep"
       \/ sinceRecorded = BackupInterval /\ phase' = "record"
    /\ UNCHANGED <<owner, timers, scans, backups, history, deaths>>

(* Mutant: the time of the backup is left to be recorded when it is done.  *)
RecordBackupLater ==
    /\ phase = "record" /\ owner # NoWorker
    /\ phase' = "start"
    /\ UNCHANGED <<owner, timers, scans, backups, history, deaths>>

(* set_setting('last_backup_time', ...), committed on its own.             *)
RecordBackup ==
    /\ phase = "record" /\ owner # NoWorker
    /\ phase' = "start"
    /\ sinceRecorded' = 0
    /\ UNCHANGED <<owner, timers, scans, backup, sinceBackup, rewound, history, deaths>>

(* The backup thread starts.                                               *)
StartBackup ==
    /\ phase = "start" /\ owner # NoWorker
    /\ phase' = "sleep"
    /\ backup' = TRUE
    /\ sinceBackup' = 0
    /\ rewound' = (rewound /\ sinceRecorded # 0)
    /\ UNCHANGED <<owner, timers, scans, sinceRecorded, history, deaths>>

(* Done or failed: a failure is logged, and waits for the next interval.   *)
BackupEnds ==
    /\ backup
    /\ backup' = FALSE
    /\ UNCHANGED <<owner, phase, timers, scans, sinceRecorded, sinceBackup, rewound, history,
                   deaths>>

(* get_setting or set_setting raises on the way to the backup thread.      *)
BackupFails ==
    /\ phase \in {"backup", "record", "start"} /\ owner # NoWorker
    /\ phase' = "sleep"
    /\ UNCHANGED <<owner, timers, scans, backups, history, deaths>>

(* A restored archive brings back the settings of its day, an older        *)
(* last_backup_time with them.                                             *)
SettingsRestored ==
    /\ \E n \in sinceRecorded + 1 .. BackupInterval : sinceRecorded' = n
    /\ rewound' = TRUE
    /\ UNCHANGED <<owner, phase, timers, scans, backup, sinceBackup, history, deaths>>

(* An exception in the loop body (get_setting) ends this iteration; the    *)
(* timers stay as they are.                                                *)
IterationFails ==
    /\ phase = "check" /\ owner # NoWorker
    /\ phase' = "sleep"
    /\ quiet' = FALSE
    /\ UNCHANGED <<owner, timers, scans, backups, idleHealth, consumed, refused, brief, deaths>>

-------------------------------------------------------------------------------
(* run_scan in the thread the scheduler spawned.                           *)
RunStarts(k) ==
    /\ k \in spawned /\ run = NoRun
    /\ run' = [kind |-> k, by |-> "scheduler"] /\ ran' = 0
    /\ spawned' = spawned \ {k}
    /\ idleHealth' = IF k = "health" THEN 0 ELSE idleHealth
    /\ consumed' = IF k = "discovery" THEN 0 ELSE consumed
    /\ UNCHANGED <<owner, phase, timers, backups, refused, quiet, brief, deaths>>

(* Another run, or a probe in another worker, has the lock.                *)
RunRefused(k) ==
    /\ k \in spawned
    /\ spawned' = spawned \ {k}
    /\ refused' = 1
    /\ quiet' = FALSE
    /\ UNCHANGED <<owner, phase, timers, run, ran, backups, idleHealth, consumed, brief, deaths>>

AdminStarts(k) ==
    /\ run = NoRun
    /\ run' = [kind |-> k, by |-> "admin"] /\ ran' = 0
    /\ quiet' = FALSE
    /\ UNCHANGED <<owner, phase, timers, spawned, backups, idleHealth, consumed, refused,
                   brief, deaths>>

RunEnds ==
    /\ run # NoRun
    /\ run' = NoRun /\ ran' = 0
    /\ UNCHANGED <<owner, phase, timers, spawned, backups, history, deaths>>

(* The scheduling worker dies with its threads; an admin's scan may live   *)
(* in another worker.                                                      *)
OwnerDies ==
    /\ owner # NoWorker /\ deaths < MaxDeaths
    /\ deaths' = deaths + 1
    /\ owner' = NoWorker /\ phase' = "sleep"
    /\ spawned' = {} /\ backup' = FALSE
    /\ \/ run' = NoRun /\ ran' = 0
       \/ run.by = "admin" /\ UNCHANGED <<run, ran>>
    /\ UNCHANGED <<timers, sinceRecorded, sinceBackup, rewound, history>>

-------------------------------------------------------------------------------
SchedulerNext ==
    \/ \E w \in Workers : TakeOver(w)
    \/ Tick \/ Check \/ Fire \/ IterationFails
    \/ CheckBackup \/ RecordBackup \/ StartBackup \/ BackupEnds \/ BackupFails
    \/ SettingsRestored
    \/ \E k \in Kinds : RunStarts(k) \/ RunRefused(k) \/ AdminStarts(k)
    \/ RunEnds \/ OwnerDies

SchedulerSpec == SchedulerInit /\ [][SchedulerNext]_schedulerVars

-------------------------------------------------------------------------------
(* Properties.                                                             *)

(* Health scans are not starved by discovery, however their intervals are  *)
(* related: under a living scheduler one starts within its interval, the   *)
(* scan in progress and the tick that notices its end (the starvation that *)
(* "prefer health" is there to end), as long as it is quiet.               *)
HealthWithin == quiet /\ owner # NoWorker => idleHealth <= HealthInterval + MaxRun

(* A discovery turn given to a health scan is made up for: discovery       *)
(* starts before a second of its turns is consumed, as long as scans end   *)
(* before health is due again, which scan_timeout (1200 s) does not        *)
(* promise for the default interval of 600 s.                              *)
DiscoveryNextInterval == quiet /\ brief => consumed <= 1

(* Scheduled backups are an interval apart, whatever happens between the   *)
(* look at the interval, the record of the new time and the start of the   *)
(* backup thread: the owner dies there and another takes over, the record  *)
(* or the start fails.  Only a restore that brings back an older           *)
(* last_backup_time makes one come early.                                  *)
BackupSpacing ==
    [][sinceBackup' < sinceBackup => sinceBackup = BackupInterval \/ rewound]_schedulerVars

(* "No lost turns": a scan the scheduler fires gets the lock.              *)
NoLostTurns == refused = 0
================================================================================
