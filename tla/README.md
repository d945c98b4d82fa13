# TLA+ models of V2Ray Subscription Manager

The repository holds two programs. **The panel** (`src/v2raysub`, Python) hands
out subscriptions to users, keeps a pool of proxy configs and takes backups. It
runs under gunicorn with several worker processes (`--workers 2 --timeout 60
--max-requests 500` in `v2ray-sub.service`), each with its own threads and
memory, sharing one SQLite file, two lock files, a cancel-flag file and a slot
file. **The engine** (`src/V2RayDAR-main`, Rust) finds and measures proxy
configs. The panel starts it as a subprocess ("worker mode"); it also runs on
its own with a refresh loop, a local proxy with failover and a terminal UI.

The modules here model what depends on interleaving, failure and timing, and two
pieces of data handling with long histories of small mistakes: links that are
translated three times on their way through the engine, and a YAML file edited
in place. Wording, rendering and plain I/O are left out.

## Inventory

| Part | State | Operations | What is hard |
|---|---|---|---|
| Scan coordination (`automation_service.py`, `process_lock.py`, routes) | `SCAN_LOCK` per process, `scan.lock` flock, cancel flag in memory and on disk, engine subprocesses, `scan_history` rows, manual-test slot | start scan, manual test, cancel, restore's restart, worker exit and death | two locks of two kinds, a probe that takes the lock, a flag in two places, orphans |
| Scheduler (`scheduler.py`) | scheduler flock, two timers, `last_backup_time` | tick, takeover | turns consumed without a run, two intervals that come due together |
| Config pool (`ConfigImporter`, `HealthManager`, `config_service.py`) | `configs` rows: status, enabled, failures, latency, order | import, replacement, health results, admin edits, renumber | results of a long scan applied to rows an admin edited meanwhile |
| Subscriptions (`user_service.py`) | a user row: status, duration, activation, expiry, pause | edit, extend, pause, resume, enable, reset, first use | read-modify-write against first use and against each other |
| Device limit (`user_service.py`) | device rows with `last_seen` | request of a device, reset, cleanup | count and insert are two statements |
| Backup, delivery, restore (`backup_service.py`) | archive, log rows, database | create, deliver with retries, restore with rollback | a step of several failing; a retry of what was done |
| Probe engine (`probe.rs`) | candidate queue, batch size, stop conditions | prefilter, batch, fallback, stop | order of results, stop at the right count, back-off |
| Proxy and failover (`proxy.rs`) | running child, candidate list, failure counts | update, health loop, failover, stop | a stale list used by a slow health check |
| Refresh loop and ranking (`main.rs`, `db.rs`, `config.rs`) | ranked list, stored configs, configuration file, watch channel | refresh, progress events, config change, push to proxy | late progress events, a run that fails half way, a configuration saved during a run |
| Links (`parser/`, `clash.rs`, `convert.rs`, `probe.rs`, `server.rs`) | pure | document to links, link to outbound, link to Clash entry | two translations of one link that must agree |
| Terminal UI and configuration file (`tui/`, `config.rs`) | draft, dirty flag, copy of the configuration, YAML text | edit, add, delete, toggle, save, reset | editing text in place, a draft over four steps, outside edits |
| Firewall and uninstall (`tui/firewall.rs`, `main.rs`) | rules, record of owned rules, files | open, close, uninstall | a rule and its record written apart; what is ours and what is not |

## Plan

Done:

1. `SingleScan` (abstract) and `ScanCoordination`, which implements it.
2. `Scheduler`, over "one scan at a time" as `SingleScan` promises it.
3. `ConfigPool`, over the same promise: capacity, replacement, health results
   and admin edits.
4. `UserLifecycle`: the clock of a subscription and its devices.
5. `ProbeEngine`: prefilter, batches, fallback and stop conditions of the
   engine (`probe.rs`, and the deadline of `worker.rs`).
6. `ProxyFailover`: the local proxy of the engine on its own (`proxy.rs`).

7. `RefreshLoop`: refreshes, ranking, persistence, configuration changes.
8. `Tui`, which EXTENDS `Footprint` (firewall and files): the terminal UI, the
   file it edits, the uninstall.
9. `Links`: subscription documents, outbounds, the served Clash configuration.
10. `BackupRestore`: archives, retention, delivery, restore.
11. Proofs about each of these but the links.

To do, in this order:

12. The composition of `RefreshLoop` with `ProxyFailover`, which now takes its
    pushes from anywhere.
13. Pure algorithms (source-fair order, batch sizer) against reference
    definitions; the order columns of the config table.
14. Fetching of subscriptions (redirects, size limits, the proxied retry, which
    `RefreshLoop` takes as one step).

## Scan coordination

`ScanCoordination.tla` models threads (`Tasks`) living in worker processes
(`Workers`). A task is a scan together with the handler that spawned it
(`is_scan_active`, then a thread), a manual test, a cancel request or the
`restart_services` of a backup restore; `pc` says where it is. `scanLock[w]` is
the `threading.Lock` of process `w`, `flock` the owner of `scan.lock`, and
`guard[w]` the `_guard` of the `InterProcessLock` object, held while
`is_locked_elsewhere` takes and returns the file lock. The cancel flag is
`cancelMem[w]` and `cancelFile`; `engine[t]` is the subprocess of the task.
`Die` is a killed or recycled worker: its memory, threads and flock go, its
engine stays. `ExitKill` and `ExitRelease` are the two halves of the `atexit`
handler, during which daemon threads still run.

A run decides its outcome by a last look at the flag (`Decide`, into the local
`verdict`) and writes it in a transaction of its own (`WriteRow`). That write may
fail in two ways: an error of the `UPDATE` is swallowed and the row stays
*running*; one of `get_db` reaches the `except` of `run_scan`, which looks at the
flag once more and writes again (`WriteFailedRow`). `aimed` is a history: whom a
cancel was meant for and where the run was when the flag file was written:
*early* (about to be erased by the run's reset), *fully* (reset done, last look
ahead), *late* (decided, row not yet written), or *exposed* (somebody without the
locks removed the file: a restore, or a thread of a worker that gave its locks
back at exit).

`SingleScan.tla` is what this machinery is for: runs wait, run one at a time
and end. `ImplementsSingleScan` maps a task to *running* from the moment its
process has the file lock to the moment it gives it back.

### Runs

| Run | Shows | Instance |
|---|---|---|
| `scan_safety` | the refinement, and with it mutual exclusion, also through worker exits | 2 workers; health scan, manual test, restore; 1 death; atexit window |
| `scan_cancel` | a stale flag cancels nothing; a flag written between a run's reset and its last look is never lost; every spawned run ends; every published test is settled | 2 workers; discovery, manual test, cancel; fairness |

`MutualExclusion` is proved and not checked by a run of its own. Five things a
comment of the code says do not hold; they are stated in the module and fail when
they are put into `ScanSafety.cfg` with the tasks given here: `OneEngine` (never
two engines at once; tasks `h1, m1`, one death: a dead worker's engine stays),
`CancelSticks` (an accepted cancel sticks; `d1, c1`: the run resets the flag
after its locks are visible, and a cancel between its last look and the write of
its row is answered with success while the run is recorded as one), `SlotIsNewest` (the slot holds the newest manual
test; `m1, m2`), `ActiveMeansRunning` ("active" means that a run holds a lock;
`h1, m1`, a `PROPERTY`; the probe itself takes the lock) and `LocksFreed` (who
enters the critical region leaves it; `d1, h1`, a `PROPERTY` of `FairSpec` with
`EarlyFaults = TRUE` and no deaths).

Tasks are one-shot, so a finished instance rests: `CHECK_DEADLOCK FALSE`. Two workers and three tasks let two
runs meet in one process, in two processes, and meet a third actor; the locks
do not distinguish further ones.

`AtExitWindow` and `EarlyFaults` switch on two windows separately. With the
atexit window open, a run of a dying process can still reset the cancel flag of
its successor; such a reset is the *exposed* of the history, so that
`CancelEffective` needs no assumption about exits or restores and its theorem has
none.

### Fairness

A thread of a living process that can step does (weak fairness of `RunStep`).
An engine process ends, since `run_subprocess` kills it at its timeout.
Refinement re-measures chunk after chunk within a time budget, so its loop ends
(strong fairness of `EndRefine`). Nothing is assumed of requests and deaths.

### Proofs

`ScanCoordination_proofs.tla` proves for any workers, tasks and number of
deaths: `TypeCorrect`, `Exclusion` (mutual exclusion) and `Refinement`
(`Spec => ImplementsSingleScan`). The assumption `ScanAssumption` only types
the constants. Mutual exclusion is not inductive: the invariant `Protocol` adds
that whoever is past `SCAN_LOCK` owns it in its process, that whoever is inside
has its process own the flock, and that a probe holds the guard and the flock
and so excludes a run.

`NeverStale` (`NoStaleCancel`) and `CancelNeverLost` (`CancelEffective`) are the
two directions of one relation between the flag and the history of who was
cancelled when. `FlagMeansAimed`: a run past its resets sees a flag only if a
cancel was aimed at it, and between the two resets the memory of its process
says so already. `AimedMeansFlag`: a cancel aimed at a run after both resets keeps
the file in place, and its run in possession of the locks, until the last look;
`OutcomeLast`: success is decided at that look and written after it. Mutual
exclusion enters here: the only run that may remove the file without taking the
aim away is one that holds the locks, and it is alone with them. Both theorems
hold of every behaviour, for any deaths, exits, restores and failing writes.
Liveness (`RunsEnd`, `TestSettles`) is model-checked only.

## Scheduler

`Scheduler.tla` models the loop of `scheduler_worker`: one tick is one 10 s
sleep, an iteration checks the timers (`Check`), fires (`Fire`) and comes to the
backups: the look at the interval (`CheckBackup`), the record of the new time, which
is a commit of its own (`RecordBackup`), and the start of the thread (`StartBackup`)
are three steps. `owner` is the worker that holds
`scheduler.lock`; `sinceDiscovery` and `sinceHealth` are the distances of
`last_discovery` and `last_health` from now, counted up to their interval, where
they are due. `spawned` holds the threads that were started and have not reached
`run_scan`'s lock; `run` is who has it. `sinceRecorded` is the distance of
`last_backup_time`, which is in the database and survives the worker; a restore may
replace it with an older one at any time (`SettingsRestored`). The intervals
themselves are constants: what an admin's change of them does to a timer that is
running is not modelled.

Every scan, an admin's too, ends within `MaxRun` ticks (`scan_timeout`). A probe
of another worker may make `is_scan_active` answer "active" or the lock refuse a
thread at any time (`SeesActive`, `RunRefused`), reading the settings may raise
(`IterationFails`, `BackupFails`), the owner may die at any step (`OwnerDies`). The
history variable `quiet` says that no admin has started a scan, no probe was met and
no iteration failed: `HealthWithin` and `DiscoveryNextInterval` are about a scheduler
that has the lock to itself, `BackupSpacing` about every behaviour. `brief` says that
every scan so far was over before health was due again, `rewound` that a restore has
put the recorded time behind the last backup.

| Run | Shows | Instance |
|---|---|---|
| `scheduler_turns` | health starts within its interval plus one scan; a consumed discovery turn is made up for before another is; backups are an interval apart | intervals 2, 4 and 5 ticks, scans of up to 4, two deaths |

The intervals keep the proportion of the defaults (300 s and 600 s); two deaths
let a backup outlive two owners; scans may last as long as the health interval, so
`brief` is lost in the instance and `HealthWithin` is checked without it. Two
comments of the code do not hold as they stand and are kept out of the run: once a
scan has lasted until health is due again (the default `scan_timeout` is 1200 s)
`consumed <= 1` fails, since both timers are due whenever a scan ends; and
`NoLostTurns` (`scheduler.py:52-54`) fails as soon as another actor takes the lock
between `Check` and the thread's arrival. That a worker which dies after the record
loses the backup of that interval is in the model (`OwnerDies` in phase "start");
nothing in the code promises that backup.

`OneScan_proofs.tla` holds the proofs about the two components that are built on one
scan at a time, the scheduler and the config pool; they share no state, and the
definitions of `Scheduler` have names of their own (`SchedulerSpec`) so that one
module can extend both. Of the scheduler it proves, for any intervals and durations
(`SchedulerAssumption` types the constants), `SchedulerTypeCorrect`,
`HealthNeverStarves` (`[]HealthWithin`), `BackupsSpaced` and `DiscoveryMakesUp`
(`[]DiscoveryNextInterval`). The second rests
on `Calm` (when a thread is spawned, nothing runs; a discovery is spawned only
while health is not due) and `Waiting` (while the health timer runs, the idle
time does not exceed it; once it is due, only the scan in progress holds health
back, for as long as it has run), both under `quiet`; the third on `Recorded` (the
record is never older than the last backup, and past the look at the interval no
time passes) and `Attended` (past that look there is an owner: who takes over starts
at the top of the loop). The fourth has one hypothesis on the constants, that
discovery's interval is the shorter one, which the defaults meet, and none on
`MaxRun`. Its invariant `MakingUp` says that from a consumed turn until a discovery
is on its way both timers show the same time and only the health scan that took the
turn has run, so that discovery comes due alone. The hypothesis and `brief` are both
needed: TLC finds a second consumed turn with intervals 4 and 4, and without `brief`
on the instance of the run.

## Config pool

`ConfigPool.tla` models the `configs` table (`pool`) under one scan at a time:
`ReadPool`, `AddNew`, `ReadWorst` and `ReplaceWorst` are
`import_discovered_configs`; `ReadTargets`, `ReadFirst` and `ApplyHealth` a
health check; `ReadTested` and `ApplyTest` a manual test. `CheckDuplicate` and
`InsertConfig` are `add_configs`; `SetEnabled` and `DeleteConfigs` the other
edits. SQLite opens a transaction at the first write of a connection, so each
function is a reading step, during which others may write, and one atomic
writing step. A config is its identity (`get_config_identity`); sort orders and
the refinement pass that only improves the measured latencies before an import
are left out. `streak` is a history variable: the failures in a row of a row.

| Run | Shows | Instance |
|---|---|---|
| `pool_import` | a config is active twice only where two hands were inserting it at once, or a check wrote a removed row back; an import overshoots the cap at most by what others enabled meanwhile; only `Threshold` failures in a row retire a config | 2 rows, 2 configs, 2 admins, latencies 100 and 151 (one more than the margin), cap 1, threshold 2, at most 4 steps of admins, at any time |

Scans exclude each other, admins exclude nobody: `CheckDuplicate` and `InsertConfig`
come between any two steps of a scan or of another admin, and `SetEnabled` and
`DeleteConfigs` anywhere. The code reads identities and free room before the
transaction that inserts (`automation_service.py:422`, `:438`; `config_service.py:97`),
so a config can come to be active twice and the pool can exceed its cap. The
properties say when, and no other way: `raced` holds the configs that somebody
inserted while another hand held them to be new (and those a health check wrote back
after an admin had removed their row); `found` is what was enabled when an import
read the pool, `grown` what others have enabled since. Both are histories, as is
`streak`, the failures of a row in a row.

Two rows and two configs let an import displace a row, reuse it, and find a config it
must refuse; two admins race each other and an import; four steps let both look and
both insert. An instance with three rows, one admin and three steps, in which a
replacement races an insert, was checked once and passes. `MaxFails` bounds how many
failures a row counts and must not lie below the threshold. Scans and admins may
both rest: `CHECK_DEADLOCK FALSE`.

`SwapsPay` (an import displaces only what pays) is stated in the module and holds
on this instance. Two more are stated and fail: `DeletedStays` (a health check writes
`status = 'active'` by id to a row deleted after it read it) and `HealthNeverEnables` (`automation_service.py:627`:
the first failure below the threshold writes `is_enabled = 1`, also to a config an
admin disabled while the check was probing it).

`OneScan_proofs.tla` proves of the pool, for any settings, number of admins and
overlap of their edits with a scan: `TypeCorrect` (with `FirstKept`: the row a health
check read is still a row it can write, and `Named`: an active row has a text);
`RetiredOnlyAfterThreshold` (invariant `Counted`: what a row counts is what happened
to it, because every success and every re-enabling resets both); `NeverTwice`
(`[]NoDuplicates`; invariant `Deduplicated`: what an import is about to insert is not
active unless it is raced, `Known`, and neither is what an admin holds, `Fenced`); and
`CapacityRespected` (`CapacityKept`; invariant `Counting`: what is enabled now was
found by the import or has grown since, so the room it has read lacks only what
grew). The rest counts: ids are given out one to one (`NumberedCount`), so inserting
adds as many enabled rows as configs (`InsertCount`), retiring takes as many away
under every policy (`RetireCount`), and a swap of enabled rows changes nothing
(`SwapCount`).

## Subscriptions

`UserLifecycle.tla` models one row of `users` and its `user_devices`. Threads
run the calls of `user_service.py`: an edit of the duration, pause and resume
read the row in one statement and write it in another (`ReadEdit`/`WriteEdit`
and so on); renewal, reset, enabling, deletion and forgetting devices decide and
write in one transaction and are one step. A client request is
`resolve_user_request` and `_allow_device`: `Hit` reads the row, `Activate` is
the conditional UPDATE of the first use, `Reread`, `LookUp` (expired? counted at
all? known?), `Refresh`, or `Count` and `Register`. Requests of bots, browsers
and unknown networks claim no slot: network `NoNet`. The clock ticks in days and
may tick inside a call; `asOf` is the `now` that `_allow_device` takes once and
then counts, compares and records with. `overlapped` is a history variable: two calls have been
in progress at once.

| Run | Shows | Instance |
|---|---|---|
| `user_life` | a subscription in use has no fewer and no more days than granted; pauses and renewals take none away; a new device needs a slot; the clock starts once | 2 threads, all calls overlapping, 2 networks, durations 0 and 1, two days, limit 1, window 1 day |
| `user_renewal` | (violated) a renewal buys the days it says | 1 thread: pause after expiry, then renew |

`MaxDays` bounds what renewals add up to; two days are enough to expire, be
paused and be renewed. With one thread the same properties pass on durations 0,
1 and 2 and four days. `InBounds` bounds the expiry: calls that do not overlap
never reach it, lost updates of overlapping ones can shift the expiry for ever.
The grace is a day (its default is none), so that the third day is the first
without it; the limit is 1 with two networks, where an off-by-one shows.
`OverlapDays` leaves the last day out once calls have overlapped: all but
`ActivatedOnce` say nothing there, and that is proved. What holds only for calls that do not overlap says so with
`~ overlapped`. Under overlap a device can be registered between the count and
the insert, and `GrantedDays`, which states `GrantedDaysAlone` of every
behaviour, fails in its place in `UserLife.cfg`: a stale edit overwrites a
renewal, and the expiry of the first use is computed from a duration read before
a renewal that committed in between (`user_service.py:736`), though line 367
promises that the days of a renewal are not "burned unused". `DisabledStays`
(nothing but enabling or reset brings a disabled subscription back) is stated in
the module and fails with two threads, as pause and resume write a status they
checked in an earlier statement; no text of the repository promises it.

`UserLifecycle_proofs.tla` proves, for any threads, networks, durations and
clock, `TypeCorrect`, `OneStart` (`ActivatedOnce`, with all calls overlapping),
`DaysGranted`, `NothingFree`, `PausesFair` (`PauseIsFair`) and `SlotForNewDevice`
(`NewDeviceHasSlot`). The middle three rest on `Granted`: while calls do
not overlap, a thread about to write has read the row as it is (`Fresh`) and the
row is `Sound`: if in use, it was activated no later than now or its pause,
expires at least `duration_days` after its activation, and has at most
`duration_days` left, counted from the pause if it is paused. The upper bound is
what an edit from unlimited to a duration needs. Each write has a lemma that a
sound row stays sound. The last rests on `SlotKept`: a request that has counted
still has a slot at the time it goes by, since nothing but its own insert can add
a device, and what `Prune` or a deletion takes away only frees slots
(`FewerDevices`). It needs that `asOf` is one reading of the clock: with a clock
read at every step the grace could end between the count and the insert.

## Probe engine

`ProbeEngine.tla` is one call of `probe_candidates`. `StartSweep`, `TcpAnswer`
and `SweepAnswer` are TCP mode and the pre-filter; `Prepare` is
`prepare_active_candidates`, which gives candidates with equal outbounds one
definition to test, under the first of them; `BeginWave`, `QueueBatch` and
`LaunchWave` fill a wave of `process_concurrency` batches; `Deliver` and
`EndWave` consume what they return. The engine is one asynchronous task, so what
stands between two awaits is one step. A batch (`batch[s]`) is
`probe_active_batch_with_fallback` around its attempts: `Ready`, `Answer`,
`AnswerLost` and `Cleanup` for an attempt that starts, `Rejects`, `Splits` and
`GivesUp` for one that does not. `cancel` is the shared flag of the early stop,
`deadline` the flag of Ctrl+C and of the worker's time limit. `reports` and
`working` are the sums of the progress deltas sent so far.

The order of the queue is left open, since enough sources can give any
(round-robin over sources, `source_fair_candidates`). The stack of chunks of a
batch is a set: chunks are disjoint, and their order decides nothing else.
`started_cleanly` is implied by a produced count that reaches the batch size.

| Run | Shows | Instance |
|---|---|---|
| `probe_engine` | no candidate counted twice; no result lost without an early stop, also at a deadline; every candidate answered in a full run; a stop is earned; every run ends | 5 candidates (two with one outbound, one unsupported, one UDP), 2 batches at a time, batch size 2 between 1 and 4, five settings |

Five candidates give two waves, or one wave whose batches have two entries, so
that they can split while their sibling runs. The five settings are a full scan
and an early stop with the pre-filter, two stability searches without, and TCP
mode. A finished call rests: `CHECK_DEADLOCK FALSE`. Fairness is one weak
fairness of `Proceed`: every await of the engine has a timeout (connect, proxy
startup, HTTP answer, process exit), and nothing is assumed of the deadline.

Two properties are stated in the module and fail. `FoundKept`, after
`worker_contract.md` (probing halts as soon as that many reachable configs are
found; three candidates, top 2, two batches): a batch finds the second working
config, sets `cancel` and awaits the end of its sing-box; its sibling returns
first, the loop at line 714 breaks and drops the stream of batches with all that
the first one found. `Flushed` and `FullRun` are therefore about runs without an
early stop. `PreviousConfirmed` (guide.md: saved configs "are not skipped before
they get a chance to be confirmed") fails with `Policies <- StabilityCalls`: a
batch has a stop state of its own, which says at once that the search for
previous configs is exhausted when the batch holds none of them, though others
are still queued.

`ProbeEngine_proofs.tla` proves, for any candidates, definitions, settings and
number of concurrent batches, `TypeCorrect`, `Measured` (`[]MeasuredOnce`) and
`Earned` (`[]EarnedStop`). `MeasuredOnce` rests on an invariant that says where a
candidate can be: unanswered, queued, in exactly one chunk of one batch, or
reported. The queue, the pending chunks and the entries of the batches are
pairwise disjoint and none of their candidates has been reported; every
verdict's candidate has been, once, and agrees with `working`. `EarnedStop`
follows because what makes it enough is a set of reachable verdicts, and these
are all in `working`. `AllFlushed` (`Flushed`) and `Complete` (`FullRun`) rest on
`CoverInv`: as long as nothing stopped early, each candidate is dead, stands for or
is stood for by one with a verdict somewhere (`Held`: in a batch, among what a
wave returned, or ranked), or, before a deadline, by one still queued (`Queued`),
and whatever was counted is dead or held. `BatchesInv` says what a batch holds
between its attempts, so that a slot whose batch has been consumed holds nothing
that could be lost. `Ends` is liveness.

## Local proxy

`ProxyFailover.tla` models `PersistentProxy` and the two loops that use it. The
refresh loop (`refresher`) publishes a list (`Publish`: the end of a refresh, in
success or error, or a change of the config file), hands settings and list to
`update` (`Update`) and copies the result for the TUI (`Show`), the three steps of
`update_proxy_and_ranked`. The health loop (`loop`) reads `running` and the count
of failures (`ReadState`, into `seen`), sleeps, checks (`Check`) and, if the count
read before the sleep had reached the limit, takes a snapshot of the list
(`ReadRanked`) and fails over: `Failover` chooses candidates, `TrySucceeds`,
`TryFails` and `Exhausted` try them. All hold the lock of `SharedProxy` while they
work; sing-box can die at any time (`SingBoxDies`). `streak` and `undisturbed`
are history variables: the failed checks of the present child in a row, and
whether an update fell into the present round of the health loop.

| Run | Shows | Instance |
|---|---|---|
| `proxy_failover` | a proxy that says it runs has a child of the config it names; a failover no update interferes with is earned by this very child | 3 configs, one of them broken, two with one key, 2 ports, lists of up to two, 2 failures, 1 blacklisted key, 3 refreshes |

The limits of the code are larger (`PROXY_MAX_CONSECUTIVE_FAILURES`,
`PROXY_MAX_RECENTLY_FAILED_KEYS`); two failures distinguish the first, the last
and the one over the limit, one key fills the blacklist. Three refreshes start a
proxy, change or disable it, and start it again. Fairness is weak fairness of the
health loop, whose awaits are a sleep, requests with timeouts and a start with a
deadline; refreshes and deaths are not assumed. `BrokenIsLeft` (a config that lets
nothing through is left in the end) is stated in the module and holds under
`FairSpec` on this instance; it is not part of the run. It needs the refreshes
to leave the loop alone for a while, which `MaxPushes` gives: a refresh that
ranks the broken config first again starts it anew with a count of zero.

Four properties are stated in the module and fail when they are added to
`ProxyFailover.cfg`. `DisabledStaysOff` and `PortFollows`, after the comment at
`proxy.rs:104` ("reacts to TUI config changes (enable/disable, port,
discoverable) without restart"): a health loop that read its state before an
update disabled the proxy finds no child and, on its old count, fails over, which
starts one; and a new port does not reach a child whose config is still the best.
`ShownLive`, after `main.rs:1492` ("so the TUI shows live info"): a failover does
not update the state the TUI shows. `DeathFailsOver`, a `PROPERTY`, after the
engine's `README.md:232` ("The proxy auto-failovers to the next best config when
the current one fails"): the check that finds sing-box dead clears `running`, and
a loop that reads `running` false checks nothing, so only a refresh restarts it.

`ProxyFailover_proofs.tla` proves, for any configs, lists, ports and limits,
`TypeCorrect` (the count stays within its limit, one more at the most),
`AlwaysTruthful` and `Earned` (`FailoverEarned`). The invariant says what the
health loop may still rely on after its sleep: what it read bounds the count
(`SeenBounds`), and equals it if no update came (`SeenExact`); a proxy in use has
not passed the limit (`BoundKept`), the count belongs to the child that lives
(`CountIsStreak`), so a round that reached the failover has earned it
(`FailingEarned`). `BrokenIsLeft` is liveness.

## Refresh loop

`RefreshLoop.tla` models four tasks of the engine. The loop (`pc`, its locals in
`job`) is `spawn_refresh_loop` around `refresh_once`: it waits for its timer or for
a changed configuration, fetches the sources, loads the entries of the cache,
probes, ranks, retries, stores rows and saved top, cleans offline rows, publishes
and hands the list to the proxy. The forwarder applies the progress events
(`events`) of the run to the published state; the watcher reloads the file when
its time changed (every save gives it a new time). An operator saves the file, by hand
or in the terminal UI: a plain save leaves the live configuration to the watcher, the
toggles of the main menu also replace the live one as a whole, if it is not locked just
then. `state` is `RuntimeState`, `live` the
configuration HTTP handlers read, `used` the fingerprint of the last refresh, `db`
the two tables, whose rows and top keys are written one after the other
(`PersistRows`, `PersistTop`). A database statement may fail, a source may not answer,
the terminal UI may clean the cache at any time (`CleanCache`, also halfway), and the
program may be restarted; what is in the database and the file survives.

The configuration is loaded at the start of `main`; the watcher takes the file's time
when its task first runs (`FirstLook`). `watcher` tells what it knows: a file saved
between the two is taken for known and not loaded (`watcher = "missed"`) until it is
saved again, and `LatestConfigApplied` makes no claim about it.

| Run | Shows | Instance |
|---|---|---|
| `refresh_loop` | when the loop sleeps the proxy works from what is published and no late event can change it; clients lose the last working entry only where the code means it; the database agrees with what was published without an error, but for what a cleaning took away; an entry belongs to the first source that answered; every refresh ends; the last saved configuration is applied, if the watcher can notice it | 2 sources with a common entry, 2 entries, two events (timer, save, cleaning, database error, restart), three settings |

The settings are a plain one, one with `prioritize_stability`, and cache-only mode
with `return_configs_asap`. Two events let a save meet a refresh that was started by a
timer and a failure hit either, and a save be missed at a restart. Every probe either
fails or measures the latency of its entry, and the entry listed first is the slower one. Fairness is that of the three tasks: fetches and probes
have timeouts, the forwarder reads a channel, the watcher polls every few seconds.
Nobody has to save anything and the timer may always win. `AllRanked` (a full scan
ranks every entry of every source that answered, once) is stated, holds on this
instance and is proved.

A sorted list is written by what it is, `InOrder`: the member in place n has
n - 1 before it; `Filtered` puts the kept places of a list in order. Both are
equal to sorting and filtering, and unlike these need no recursion to reason
about.

`RefreshLoop_proofs.tla` proves every safety property of the run, and `AllRanked`, for any
sources, documents, entries, latencies, settings and numbers of events: `TypeCorrect`,
`InSync` (`[]IdleInSync`), `ServingKeptAlways`, `StoredAsPublished`
(`[]PersistedAsPublished`), `FirstSource` (`[]FirstSourceWins`) and
`EverythingRanked` (`[]AllRanked`). `RefreshAssumption` types the constants, says
that there are finitely many sources, keys and latencies, and that a configuration
that loads has `top_n` above 0 (`config.rs:254`). The argument has two layers.

The lemmas of the first say what the operators return. An order that is total
and finite gives every place exactly one member (`PlacesTaken`, `RankedLists`,
`StabilityLists`, `StoredLists`, `NumbersList`: the tie-breakers make each of the
code's comparisons such an order as long as no key repeats), so sorting keeps the
members of a list and repeats none, filtering keeps order, and deduplication
leaves one entry of each key (`SortedIs`, `FilteredIs`, `DistinctIs`). From these
follow what a load, a batch, a merge of answers, a ranking and an upsert are
(`LoadIs`, `ResultsAre`, `MergedIs`, `FinalRankingIs`, `UpsertedIs`).

The second layer is one invariant in parts. `Typed` says that published, shared,
ranked and stored entries are well formed, that no list repeats a key, and that
what is left to probe, what the present call found and what earlier calls ranked
share no key (`Apart`), which is what makes one ranked entry per key true.
`Drained`: the queue holds events only until the forwarder is joined, and a sleeping
loop has handed over what is published. `Asleep`: outside a run nothing is shown as
refreshing, so that the step that drops the list is one that starts a refresh. `Saved`
carries the rows and the top keys from the steps that wrote them to the sleep after
them: the deletion of offline rows in between removes no row that this run found
reachable, and what the user cleans is gone, never different. `Accounted` says that what was loaded is
seen, and what is seen is left to probe, found or ranked, as long as nothing stops a
call early. `FirstSourceWins` is inductive once entries are `Typed`.
`ServingKept` is proved action by action: an event of the forwarder lists at least
one reachable entry or keeps those there were, and `top_n` above 0 serves it.

Three properties are stated and fail. `ReachableFirst` and `SavedFirst` say what
`docs/guide.md` says of the final order: without `prioritize_stability`
what the proxied retry found is appended to the ranking of the first call and not
sorted into it; with it, the final order compares counts of
successes that a restart loses, not membership in the saved top, which it keeps,
so that a new entry with a lower latency goes ahead. `CacheHasConfigs` says what
the guide (about line 1303) says of cache-only mode, that one successful refresh is enough:
the loader takes only rows whose last result was reachable (`db.rs:196-247`), so
one bad refresh leaves the mode with nothing and the error at `main.rs:894`.

## Terminal UI, configuration file, footprint

`Tui.tla` models the interface as modes and views (`ui`), its copy of the
configuration (`editable`), and the file as it is laid out: a list of items with
their keys and comments in one of four layouts, and two sections laid out as the
editor expects or not. A save reads the file again and edits its text in place
where it recognises one change (`update_subscriptions`), and writes the list anew
where it does not; each setting is written by the section that names it
(`update_sharing_section`, `update_proxy_section`), and read back by the rules of
YAML: an IPv6 bind and a health URL are never quoted, a token only where
`yaml_scalar` sees the need, so `~` is read as none and `0x10` as a number
(`Unquoted`), and a key put two columns into a section that is indented otherwise
is no YAML ("mixed"). `Loads` asks that the text parses and that its settings
agree. A token that a load makes up is written back by the start and by the watcher
(`persisted`). What a key does depends on mode and view: `Idle`, `cancel_input`,
the commits of the steps, mouse, commands, menus.
`Footprint.tla` holds what the program leaves on the machine: firewall rules with
`firewall_state.json`, and the files of an installed, a portable or an overridden
layout with strays among them, the `-wal` and `-shm` files of the open database
(`db_log`) included: a run that ends closes the database and they go, a run that is
killed leaves them (`Closing`, `Killed`). Its actions (opening and closing a rule, each able
to fail between the tool and the record, and the steps of the uninstall) are part
of the next-state relation of `Tui`, where the listeners are switched.

| Run | Shows | Instance |
|---|---|---|
| `tui` | with nothing marked unsaved the file parses and loads as what is on the screen, outside four named cases; comments survive every edit recognised as one; a rule of the user is never removed; a finished uninstall leaves nothing of ours but the database log of a killed run, and never deletes an unknown file | 2 ports, one opened by the user; up to two subscriptions of two names; three files; three panel edits (an IPv6 bind, the token `~`, a token required); four changes |

The four cases in which a saved file need not load are part of `CleanMeansSaved`
and each occurs in this instance: settings that disagree (a token required and none
given), a value left unquoted, the first subscription under an inline `[]`, and a
section laid out in another way. In all four the file still holds the list and the
settings that were to be written. `CommentsKept` speaks of the comments of an item as
the editor finds them: its text runs to the next item (`util.rs:461-483`), so a comment
above an item belongs to the one before it and goes with it. Four changes (edits, saves, toggles, outside edits and starts together) are enough
to load, change, save and change again; two subscriptions tell one removal from a
rewriting. The program may be quit at any time: `CHECK_DEADLOCK FALSE`.

`Tui_proofs.tla` proves, for any ports, lists of any length and any well-typed
files of the user (`TuiAssumption` and `FootprintAssumption` only type the
constants), all of these properties. Of the footprint: `UserRulesSafe`,
`NothingLeft` and `UnknownKept`. They are not inductive: that a rule of the user survives needs that the record holds none
(`RecordOurs`), and that a finished uninstall leaves nothing needs that every open
rule is the user's, recorded or lost (`EveryRuleKnown`), that the uninstall runs
while the interface does not and touches files only when the record is empty
(`Phases`), and that what is left to remove holds every file of ours that the
uninstall knows (`Listed`). The database log it does not know; that it is there only
while the program runs or after a kill is an invariant of its own (`Journal`). A
directory is a target only while nothing unknown is in it (`Spared`), which nothing
that happens during an uninstall undoes.

Of the file: `TypeCorrect`, `CleanIsSaved` (`[]CleanMeansSaved`) and `CommentsStay`
(`CommentsKept`). Types and the saved state hold together (`SavedInv`), since a
clean screen is kept by a save only because every way of writing the section,
anew, in place, with one item taken out or put in, loads as the list it was asked
for (`RewrittenLists`, `InPlaceLists`, `RemovedLists`, `InsertedLists`, joined in
`UpdateLists`), every setting is written by one of the three writers
(`ScalarsWritten`), and what was written then parses and validates, or one of the
four cases holds (`Agrees`, `SaveIs`). The lemmas under these say what removing and inserting do position
by position (`RemoveAtIs`, `InsertAtIs`), and that loading goes item by item and so
commutes with them (`Loaded`). The index at which two lists differ is the least one,
which exists because `<` on the naturals is well-founded (`Least`); no recursion
over a list is needed.

`SavedReloads`, after a test that expects "saved config reloads"
(`tui/util.rs:1085`), is stated and fails in each of the four cases; with
`PanelEdits = {}` and `MaxEvents = 5`: two deletions saved together write
`subscriptions: []` (`util.rs:701`), and a subscription added later is inserted
below that line (`util.rs:358`), which is no YAML; the next save or start fails.
Six more things that are in the model as they are in the code: a save writes all
of `editable`, also over what was edited outside since the start; it does not
write `clean_offlines_after_days`, which `CleanMeansSaved` leaves out; the panel
lets a required token be emptied (`config_editor.rs:85`), which is saved and does
not load; a rule opened just before the program is killed is recorded nowhere
(`firewall.rs:94`; `fw.lost`, which `UninstallLeavesNothing` leaves out); the
`-wal` and `-shm` files that SQLite leaves when the program is killed
(`db.rs:18`, `journal_mode=WAL`) are not among the files the uninstall knows
(`main.rs:540`): they keep the data root from being taken whole and stay after the
command has reported success; the
uninstall lists `firewall_state.json` among its targets (`main.rs:564`), which the
removal of the last rule has deleted by then (`firewall.rs:280`).

## Links

`Links.tla` follows a subscription document: the passes of
`parse_subscription_document` (text, decoded text, Clash, JSON or YAML trees,
HTML, Xray) find candidates, `Probe` makes a sing-box outbound of each, and
`mihomo_response` serves the best as Clash entries. A link is a record with its
parameters as a function; base64, percent-encoding and quoting are taken to be
undone, except where the code writes a value without them (`RawLink`). `Node` says
which node a Clash entry describes, written from the format and not from the code
(a Trojan's server name is `sni`, its TLS is always on, plugin options are a
mapping); only `httpupgrade-opts`, which that format spells otherwise, is read as
this repository writes it. `Kept` and `XrayKept` name the fields a conversion
carries over, `TwoReadings` the links that two readers take differently, `CutInTwo`
and `EndsLink` the entries that are lost; each name in them is needed: without it
the run fails.

| Run | Shows | Instance |
|---|---|---|
| `links` | the outbound probed for an imported node is that node, in the fields that are kept; what is served is the node that was probed, but for the links named; every entry that can be found is a candidate, once, and nothing else is | about 9 400 documents: each combination of security, key, transport and options on its own; values in capitals; servers and credentials a link does not carry; short documents with repeated, broken, cut, hidden and stray links |

A document of one link covers the translations, which never look at two; two or
three entries cover everything that depends on order, repetition or the end of a
token. A finished document rests: `CHECK_DEADLOCK FALSE`.

What the code loses or changes, found while the properties were made to hold:

- Importing a Clash entry: a Trojan's `sni` (`convert.rs:484` reads `servername`), the
  path of its WebSocket and the service of its gRPC, its `alpn` and fingerprint; path and host of
  `httpupgrade` (the host for VLESS); a VLESS `alpn` given as a sequence;
  `skip-cert-verify` and the gRPC service of VMess; Reality of VMess and Trojan;
  the options of a Shadowsocks plugin. A field YAML reads as a number counts as absent,
  so an unquoted numeric password drops the entry.
- Importing an Xray outbound: `realitySettings.serverName`, the `alpn` of VMess
  and Trojan, the `h2` path of Trojan, and `wsSettings.host` of both.
- Credential and address go bare into VLESS and Trojan links (`convert.rs:471`, `:517`,
  `xray.rs:149`, `:390`): `:` cuts the credential, a percent escape in it is undone, and
  with `#`, `/`, `?` or an IPv6 address the link does not read, so the entry is lost.
  The name and options of a plugin go bare into the query; the instance has none with `&`, `+`, `%` or `#`.
- Exported unlike it was probed: `security`, transport or flow in capitals (the probe
  ignores case, `probe.rs:2381`, `:2500`; `convert.rs:683`, `:701`, `:736` do not);
  `security=none`, an empty `pbk`, `flow=none`, the transports `websocket` and
  `http`; a VMess link with gRPC, or with a host and no server name; a Trojan link
  with a server name, written under `servername`; plugin options, written as a text.
- Reading: an IPv6 host in brackets is cut at them (`parser/mod.rs:161-163`) and the
  link lost, in a text or a tree (not in an HTML attribute); a comma cuts the rest of
  the link and its name off. A structured list with a link beside it is not
  read (the text pass finds the link), nor are Xray configurations the first of which
  has no outbounds. A JSON text with `\u0026` also yields a candidate with one parameter.
- `ReadyToImport` (`convert.rs:1002`: "ready to import
  directly") is stated and fails with `Docs <- NamedDocs`: the Auto group writes
  the name `US #1` bare (`convert.rs:1086`), where `#` begins a comment. And `top_n`
  links are taken before those that cannot be exported are dropped
  (`server.rs:187`), so fewer may be served than work.

## Backup, delivery, restore

`BackupRestore.tla` models `backup_service.py`. A worker serves one request
(`job`): an archive is taken by reading the settings and the users one after the
other, copying the files and packing (`ExportSettings`, `ExportUsers`,
`WriteArchive`), then recorded and followed by retention and a delivery thread; a
restore takes an emergency archive the same way, replaces the tables in an open
transaction (`tx`), copies file after file, and commits. An exception at any step
leads to `RestoreFails`, the rollback of the transaction and the copying back of
files from the emergency archive (`Undoable`, `UndoFile`), which may itself fail
(`UndoFails`); a killed worker takes its transaction, threads and timers with it
(`Crash`). `delivery` is the thread or
timer of an archive, `log` its `delivery_status`. The tables are two values: rows
like users, and secret settings, which a standard archive blanks. A
statement waits for the lock of the database (`CanWrite`), and may also give up or
fail: `CreateFails` and `RestoreFails` for a request, `DeliveryFails` for a delivery
(`get_db` waits 15 s, `database.py:14`; the updates at `backup_service.py:631`, `:674`
and `:688` stand outside any `try`). `disturbed` is a history: others have changed
tables or files since the restore began. What happens to archives, and what fails,
does not count as that; a deletion of the restore's own emergency archive is noted in
`deleted`, and why an undoing copied nothing in `stuck`.

| Run | Shows | Instance |
|---|---|---|
| `backup_restore` | nothing is left half restored, but in the three cases named below; from the first change of a restore the state before is in an archive, on disk until it is deleted or pushed out by newer ones; a pending delivery is decided unless its thread ended undecided | 2 workers, 2 requests, a foreign unsigned archive, one permitted file and `.env`, one edit, one fault (and an undoing may fail besides), one archive kept, one retry |

Two requests let a restore meet another restore, a backup and its retention, or
use an archive taken before; one fault hits every step once; one archive kept makes
every second archive push one out. Fairness: a thread that can go on does, uploads
have a timeout of 45 s and timers fire; nobody has to ask, and nothing has to fail.
Requests and faults are bounded, so the system comes to rest:
`CHECK_DEADLOCK FALSE`.

`AllOrNothing` is about tables and files of a restore that ends in success or failure
while others change neither. A failed one leaves files half replaced in three cases,
which the property names: a password was given (the emergency archive is encrypted
then, `ZipFile` cannot open it, `backup_service.py:1092`); the emergency archive is
gone, deleted by an admin or by the retention of another backup (`:518-531`); the
undoing fails itself (`:1055-1058`). And after the commit the tables stay those of the
archive, while the files go back. The message at line 1068 says in all these cases that
the system was returned to its state before, and a file that only the archive had stays
in any case: `FailureUndone`, the message as a formula, is stated and fails.
`BeforeIsSaved` lets the emergency archive go in two ways only: an admin deletes it, or
`MaxKeep` archives have been written after it, so that retention takes it as one of the
old ones. `SentStays` is stated and fails: a retry that was scheduled before a
manual sending writes `PENDING` or `FAILED` over its `SENT`. `cut` collects the
deliveries nobody works on any more, which `DeliverySettles` leaves out: their
worker died, their file was removed before the checksum was taken (line 623, outside
the `try`), retention failed after the row was written, or a statement failed that
nothing catches.

`BackupRestore_proofs.tla` proves, for any tables, files, archives, workers, retention
and numbers of faults, `RestoresAllOrNothing` (`[]AllOrNothing`) and `BeforeSaved`
(`[]BeforeIsSaved`). `BackupAssumption` types the constants and says that what is
uploaded is an archive. Both rest on one invariant about a restore whose tables and
files nobody else changes: up to its first change they are those of before and what it
has read of them is true (`Snapshot`); its emergency archive holds that content,
encrypted only if there is a password (`Saved`); while it replaces files, those
done are the archive's and the others untouched (`Replacing`); while it undoes with an
archive that can be read (`Returning`), those not to be copied back are as they were
(`Undoing`). The rollback is right because the one open transaction is this restore's
and was computed from the committed tables (`OwnTransaction`); that another worker
breaks none of it rests on archives being added and never changed (`Kept`). That the
emergency archive stays on disk is an invariant of its own (`AllHeld`): retention
removes an archive only when as many as it keeps are newer, whichever have been deleted
meanwhile (`NewerIn`), and every step of a request or an edit leaves the restores of
others with their archive (`Follows`). `DeliverySettles` is liveness.

## What is checked and what is proved

The properties of the runs are checked by TLC on the instances above; the theorems
hold for every value of the constants under the named assumptions, which only type
the constants (`ScanAssumption`, `SchedulerAssumption`, `PoolAssumption`,
`UserAssumption`, `ProbeAssumption`, `ProxyAssumption`, `TuiAssumption`,
`FootprintAssumption`, `BackupAssumption`, `RefreshAssumption`); one theorem,
`DiscoveryMakesUp`, has a hypothesis of its own, given with it.
The type invariants of eight components are theorems and in no run;
`BackupRestore_proofs` proves finer types (`Typed`, `Shape`) as part of its
invariant; those of the others hold on their instances.

TLC alone checks: the properties of `Links`, pure algorithms over documents whose
proofs would be inductions over data, which the proof system cannot do with the
provers at hand (`ImportKeeps`, `ExportAgrees`, `ReadWhole`); and liveness under
fairness, for which it has no support here (`RunsEnd`, `TestSettles`, `Ends`,
`RefreshEnds`, `LatestConfigApplied`, `DeliverySettles`).
`RenewalPays` is violated.

A step is a piece of code between two points where another actor may act: an await
in the engine, a statement that starts or ends a transaction or touches a shared
file in the panel.

## Not modelled

HTTP plumbing, authentication and templates, statistics, schema migrations, the
text of links on the panel's side, GeoIP, installers: text or plain I/O with no
protocol. Of what is modelled, left out are the drawing and the log of the
terminal UI, `netsh`, the encodings of links, the country groups of the Clash
configuration, and the checksums of archives, which are refused before anything
happens. `PROJECT.json` lists each with its reason.
