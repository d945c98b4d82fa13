----------------------------- MODULE ProxyFailover -----------------------------
(***************************************************************************)
(* The persistent local proxy of the engine (V2RayDAR-main/src/proxy.rs):  *)
(* one sing-box child, driven by the refresh loop, which pushes settings   *)
(* and ranked configs (update_proxy_and_ranked in main.rs), and by a       *)
(* health loop, which probes the child and fails over to another config.   *)
(*                                                                         *)
(* Both work under the lock of SharedProxy, which is dropped between the   *)
(* steps below; under it nothing but the child itself changes, so update,  *)
(* snapshot and health_check are one step each.  A failover is one step    *)
(* per candidate and holds the lock throughout (its cooldown, which it     *)
(* sleeps out under the lock, is not timed).  A ranked list is the         *)
(* sequence of its reachable configs, the others are passed over wherever  *)
(* it is read.                                                             *)
(***************************************************************************)
EXTENDS Integers, Sequences, FiniteSets, Functions

CONSTANTS
    Configs,        \* the uris of configs
    NoConfig,
    KeyOf,          \* [Configs -> dedup keys]
    Lists,          \* what a refresh may rank: sequences of Configs
    Ports, NoPort,  \* settings of the local port
    Broken,         \* configs that start but let no request through
    MaxFailures,    \* PROXY_MAX_CONSECUTIVE_FAILURES
    MaxKeys,        \* PROXY_MAX_RECENTLY_FAILED_KEYS
    MaxPushes       \* bound: refreshes

Settings == [enabled : BOOLEAN, port : Ports]
Keys     == {KeyOf[c] : c \in Configs}

ASSUME ProxyAssumption ==
    /\ NoConfig \notin Configs /\ NoPort \notin Ports /\ Ports # {}
    /\ DOMAIN KeyOf = Configs /\ IsFiniteSet(Configs)
    /\ Lists \subseteq Seq(Configs)
    /\ Broken \subseteq Configs
    /\ MaxFailures \in Nat \ {0} /\ MaxKeys \in Nat /\ MaxPushes \in Nat

VARIABLES
    setting,        \* state.proxy_config
    active,         \* state.active_config_uri
    running,        \* state.running
    failures,       \* state.consecutive_failures
    failedKeys,     \* state.failed_config_keys
    child,          \* process: what was started, and whether it still lives
    shared,         \* shared_ranked
    refresher,      \* where the refresh loop is
    pushed,         \* the settings and the list it pushes
    pushes,         \* how often it has (bound)
    view,           \* the proxy_* fields of RuntimeState, for the TUI
    loop,           \* where the health loop is
    seen,           \* running and failures as the loop read them
    snapshot,       \* ranked_snapshot of a failover
    todo,           \* candidates: the positions in it that are still to be tried
    streak,         \* history: failed checks of this child in a row, up to MaxFailures + 1
    undisturbed     \* history: no update since the loop read the state

config  == <<setting, active>>
state   == <<config, running, failures, failedKeys, child>>
refresh == <<shared, refresher, pushed, pushes, view>>
candidates == <<snapshot, todo>>
health  == <<loop, seen, candidates>>
vars    == <<state, refresh, health, streak, undisturbed>>

NoChild     == [st |-> "none", cfg |-> NoConfig, port |-> NoPort]
ChildOf(c, p) == [st |-> "alive", cfg |-> c, port |-> p]
Children    == [st : {"none", "alive", "dead"}, cfg : Configs \cup {NoConfig},
                port : Ports \cup {NoPort}]
Blank       == [running |-> FALSE, active |-> NoConfig]
Free        == loop # "trying"      \* the lock of SharedProxy

Init ==
    /\ setting \in Settings
    /\ active = NoConfig /\ running = FALSE /\ failures = 0 /\ failedKeys = {}
    /\ child = NoChild
    /\ shared = <<>>
    /\ refresher = "refreshing" /\ pushed = [setting |-> setting, list |-> <<>>]
    /\ pushes = 0
    /\ view = Blank
    /\ loop = "reading" /\ seen = [running |-> FALSE, failures |-> 0]
    /\ snapshot = <<>> /\ todo = {}
    /\ streak = 0 /\ undisturbed = TRUE

-------------------------------------------------------------------------------
(* The child.                                                              *)

SingBoxDies ==
    /\ child.st = "alive"
    /\ child' = [child EXCEPT !.st = "dead"]
    /\ UNCHANGED <<config, running, failures, failedKeys, refresh, health,
                   streak, undisturbed>>

(* start_with_config(c): the old child is stopped first, whatever follows. *)
Started(c, p) ==
    /\ child' = ChildOf(c, p)
    /\ running' = TRUE /\ failures' = 0 /\ streak' = 0

(* No outbound, no file, no process, or no port within the startup time.   *)
NotStarted ==
    /\ child' = NoChild
    /\ running' = FALSE /\ streak' = 0
    /\ UNCHANGED failures

(* health_check of a child: it is found dead, or the requests through the  *)
(* port of the settings succeed or fail.                                   *)
FoundDead ==
    /\ child.st # "alive"
    /\ child' = NoChild
    /\ running' = IF child.st = "dead" THEN FALSE ELSE running
    /\ UNCHANGED <<failures, streak>>

(* Mutant: a success does not reset the count.                             *)
CheckPassesUncounted ==
    /\ child.st = "alive" /\ child.cfg \notin Broken /\ child.port = setting.port
    /\ streak' = 0
    /\ UNCHANGED <<child, running, failures>>

CheckPasses ==
    /\ child.st = "alive" /\ child.cfg \notin Broken /\ child.port = setting.port
    /\ failures' = 0 /\ streak' = 0
    /\ UNCHANGED <<child, running>>

(* The history stops where the count must have stopped.                    *)
Longer == IF streak > MaxFailures THEN streak ELSE streak + 1

CheckFails ==
    /\ child.st = "alive"
    /\ failures' = failures + 1 /\ streak' = Longer
    /\ UNCHANGED <<child, running>>

-------------------------------------------------------------------------------
(* The refresh loop.                                                       *)

(* A refresh has ended, with a new RuntimeState or in an error, or only the*)
(* config file has changed: the list of the failover is replaced before    *)
(* the proxy hears of it.                                                  *)
Publish ==
    /\ refresher = "refreshing" /\ pushes < MaxPushes
    /\ \E s \in Settings, L \in Lists :
         /\ pushed' = [setting |-> s, list |-> L]
         /\ shared' = L
    /\ pushes' = pushes + 1
    /\ refresher' = "updating"
    /\ view' \in {view, Blank}
    /\ UNCHANGED <<state, health, streak, undisturbed>>

ShouldSwitch(best) ==
    \/ active # best
    \/ ~running \/ child.st # "alive"
    \/ failures >= MaxFailures

(* update: enabled or not, the blacklist is cleared.                       *)
Update ==
    /\ refresher = "updating" /\ Free
    /\ setting' = pushed.setting
    /\ failedKeys' = {}
    /\ \/ /\ ~pushed.setting.enabled
          /\ NotStarted
          /\ UNCHANGED active
       \/ /\ pushed.setting.enabled /\ pushed.list = <<>>
          /\ UNCHANGED <<active, running, failures, child, streak>>
       \/ /\ pushed.setting.enabled /\ pushed.list # <<>>
          /\ ~ShouldSwitch(Head(pushed.list))
          /\ UNCHANGED <<active, running, failures, child, streak>>
       \/ /\ pushed.setting.enabled /\ pushed.list # <<>>
          /\ ShouldSwitch(Head(pushed.list))
          /\ \/ /\ Started(Head(pushed.list), pushed.setting.port)
                /\ active' = Head(pushed.list)
             \/ NotStarted /\ UNCHANGED active
    /\ undisturbed' = FALSE
    /\ refresher' = "showing"
    /\ UNCHANGED <<shared, pushed, pushes, view, health>>

(* snapshot, for the TUI.                                                  *)
Show ==
    /\ refresher = "showing" /\ Free
    /\ view' = [running |-> running, active |-> active]
    /\ refresher' = "refreshing"
    /\ UNCHANGED <<state, shared, pushed, pushes, health, streak, undisturbed>>

-------------------------------------------------------------------------------
(* The health loop.                                                        *)

ReadState ==
    /\ loop = "reading"
    /\ seen' = [running |-> running, failures |-> failures]
    /\ loop' = "sleeping"
    /\ undisturbed' = TRUE
    /\ UNCHANGED <<state, refresh, candidates, streak>>

(* After the interval: nothing to check, as far as the loop knows.         *)
WakeIdle ==
    /\ loop = "sleeping" /\ ~seen.running
    /\ loop' = "reading"
    /\ UNCHANGED <<state, refresh, seen, candidates, streak, undisturbed>>

(* A failed check leads to a failover if the count read before the sleep   *)
(* had reached its limit.                                                  *)
Check ==
    /\ loop = "sleeping" /\ seen.running
    /\ \/ CheckPasses /\ loop' = "reading"
       \/ /\ CheckFails \/ FoundDead
          /\ loop' = IF seen.failures < MaxFailures THEN "reading" ELSE "failing"
    /\ UNCHANGED <<config, failedKeys, refresh, seen, candidates, undisturbed>>

ReadRanked ==
    /\ loop = "failing"
    /\ snapshot' = shared
    /\ loop' = "choosing"
    /\ UNCHANGED <<state, refresh, seen, todo, streak, undisturbed>>

Others  == {i \in DOMAIN snapshot : snapshot[i] # active}
Untried == {i \in Others : KeyOf[snapshot[i]] \notin failedKeys}

(* failover: the candidates; if all of them have failed, all again.        *)
Failover ==
    /\ loop = "choosing"
    /\ IF Untried # {}
       THEN todo' = Untried /\ UNCHANGED failedKeys
       ELSE todo' = Others /\ failedKeys' = {}
    /\ loop' = "trying"
    /\ UNCHANGED <<config, running, failures, child, refresh, seen, snapshot,
                   streak, undisturbed>>

IsNext(i) == i \in todo /\ \A j \in todo : i <= j

(* The keys of a list differ, so that a set counts them as the vector does.*)
Blacklisted(c) ==
    IF Cardinality(failedKeys) < MaxKeys THEN failedKeys \cup {KeyOf[c]} ELSE failedKeys

(* The next candidate starts and answers, and is kept.                     *)
TrySucceeds ==
    /\ loop = "trying"
    /\ \E i \in todo :
         /\ IsNext(i) /\ snapshot[i] \notin Broken
         /\ Started(snapshot[i], setting.port)
         /\ active' = snapshot[i]
    /\ snapshot' = <<>> /\ todo' = {} /\ loop' = "reading"
    /\ UNCHANGED <<setting, failedKeys, refresh, seen, undisturbed>>

(* It does not start; or starts and fails its check, alive or found dead.  *)
TryFails ==
    /\ loop = "trying"
    /\ \E i \in todo :
         /\ IsNext(i)
         /\ \/ NotStarted
            \/ /\ child' = ChildOf(snapshot[i], setting.port)
               /\ running' = TRUE /\ failures' = 1 /\ streak' = 1
            \/ child' = NoChild /\ running' = FALSE /\ failures' = 0 /\ streak' = 0
         /\ failedKeys' = Blacklisted(snapshot[i])
         /\ todo' = todo \ {i}
    /\ UNCHANGED <<config, refresh, loop, seen, snapshot, undisturbed>>

(* Mutant: the candidate that failed last passes for the running one.      *)
ExhaustedUnnoticed ==
    /\ loop = "trying" /\ todo = {}
    /\ loop' = "reading" /\ snapshot' = <<>>
    /\ UNCHANGED <<state, refresh, seen, todo, streak, undisturbed>>

Exhausted ==
    /\ loop = "trying" /\ todo = {}
    /\ running' = FALSE
    /\ loop' = "reading" /\ snapshot' = <<>>
    /\ UNCHANGED <<config, failures, failedKeys, child, refresh, seen, todo, streak,
                   undisturbed>>

HealthStep ==
    \/ ReadState \/ WakeIdle \/ Check \/ ReadRanked \/ Failover
    \/ TrySucceeds \/ TryFails \/ Exhausted

Next == SingBoxDies \/ Publish \/ Update \/ Show \/ HealthStep

(* The health loop sleeps, waits with timeouts and goes on for ever.       *)
Spec     == Init /\ [][Next]_vars
FairSpec == Spec /\ WF_vars(HealthStep)

-------------------------------------------------------------------------------
(* Properties.                                                             *)

(* The count of failures never passes its limit by more than the check     *)
(* that starts the failover.                                               *)
TypeOK ==
    /\ setting \in Settings /\ active \in Configs \cup {NoConfig}
    /\ running \in BOOLEAN /\ failures \in 0 .. MaxFailures + 1
    /\ failedKeys \subseteq Keys /\ child \in Children
    /\ shared \in Seq(Configs)
    /\ refresher \in {"refreshing", "updating", "showing"}
    /\ pushed \in [setting : Settings, list : Seq(Configs)] /\ pushes \in Nat
    /\ view \in [running : BOOLEAN, active : Configs \cup {NoConfig}]
    /\ loop \in {"reading", "sleeping", "failing", "choosing", "trying"}
    /\ seen \in [running : BOOLEAN, failures : 0 .. MaxFailures + 1]
    /\ snapshot \in Seq(Configs) /\ todo \subseteq DOMAIN snapshot
    /\ streak \in Nat /\ undisturbed \in BOOLEAN

(* Whenever the proxy says it is running, there is a child, and it serves  *)
(* the config that is shown as active: after switches, failovers half way  *)
(* through their candidates, and failovers that found none.                *)
Truthful ==
    Free /\ running => child.st # "none" /\ child.cfg = active

(* A failover that no update interferes with is earned: the child has      *)
(* failed more than MaxFailures checks without a success in between, or it *)
(* is dead.                                                                *)
FailoverEarned ==
    [][Failover /\ undisturbed => streak > MaxFailures \/ child.st # "alive"]_vars

(* A config that lets nothing through does not stay (README.md: "the proxy *)
(* auto-failovers to the next best config when the current one fails").    *)
BrokenIsLeft ==
    \A c \in Broken : running /\ child.cfg = c ~> ~ (running /\ child.cfg = c)

(* The same for a proxy that died: another config is started, if there is  *)
(* one, unless the settings or the list change.                            *)
Died ==
    /\ child.st = "dead" /\ setting.enabled
    /\ refresher = "refreshing" /\ \E c \in Range(shared) : c # active
DeathFailsOver == Died ~> child.st = "alive" \/ refresher # "refreshing" \/ loop = "trying"

(* proxy.rs, update: it "reacts to TUI config changes (enable/disable,     *)
(* port, discoverable) without restart": once disabled, nothing runs, ...  *)
DisabledStaysOff == Free /\ ~setting.enabled => child.st = "none"

(* ... and a proxy that runs does so on the port of the settings.          *)
PortFollows == Free /\ running => child.port = setting.port

(* main.rs: RuntimeState reflects the proxy "so the TUI shows live info".  *)
ShownLive == Free /\ running /\ refresher = "refreshing" => view.active = active
================================================================================
