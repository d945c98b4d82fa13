------------------------------ MODULE RefreshLoop ------------------------------
(***************************************************************************)
(* The refresh loop of V2RayDAR (src/V2RayDAR-main/src/main.rs): one task   *)
(* fetches the subscriptions, probes what they contain, ranks it, stores it *)
(* in SQLite and publishes it; a forwarder task applies the progress events *)
(* of that run to the published state; a watcher task reloads the           *)
(* configuration file; the terminal UI writes that file and the live        *)
(* configuration; HTTP clients read what is published at any time.          *)
(*                                                                         *)
(* A configuration entry is a key (dedup_key); keys are numbers, in the     *)
(* order of the last tie-breakers (protocol, name, uri).  Sources are the   *)
(* numbers 1..n of their position in the list, which is also their          *)
(* priority.  Logs, counters of tested entries, bytes and speed tests are   *)
(* left out.                                                               *)
(***************************************************************************)
EXTENDS Integers, FiniteSets, Sequences, SequencesExt

CONSTANTS
    Keys,           \* dedup keys, a set of numbers
    Sources,        \* positions of the subscriptions
    Doc,            \* the keys each source's document lists
    HttpSources,    \* sources with an http(s) URL
    Lats,           \* the latencies a probe can measure, for each key
    Settings,       \* the valid configurations an operator may save
    FirstSettings,  \* those the program may be started with
    MaxEvents       \* bound: refreshes by the timer, saves of the file, cleanings of
                    \* the cache, database errors and restarts, taken together

(* What config.rs:validate lets through, as far as the loop looks at it.     *)
Configurations ==
    [subs : SUBSET Sources, topN : Nat \ {0}, asap : BOOLEAN, stability : BOOLEAN,
     scanAll : BOOLEAN, cacheOnly : BOOLEAN, active : BOOLEAN, emergency : BOOLEAN,
     timer : BOOLEAN, sharing : BOOLEAN]

ASSUME RefreshAssumption ==
    /\ Keys \subseteq Nat /\ IsFiniteSet(Keys)
    /\ Sources \subseteq Nat \ {0} /\ IsFiniteSet(Sources)
    /\ HttpSources \subseteq Sources
    /\ \A k \in Keys : Lats[k] \subseteq Nat \ {0} /\ IsFiniteSet(Lats[k])
    /\ Settings \subseteq Configurations /\ FirstSettings \subseteq Settings
    /\ \A s \in Sources : Doc[s] \subseteq Keys
    /\ MaxEvents \in Nat

VARIABLES
    file,       \* the configuration file: a member of Settings, or Invalid
    watcher,    \* what the watcher's last_modified is to that file's time
    watched,    \* the value of the watch channel
    watchNew,   \* the loop has not seen that value
    live,       \* RuntimeConfig, which the HTTP handlers read
    used,       \* last_refresh_fingerprint
    pc, job,    \* the loop's position and the locals of refresh_once
    events,     \* the forwarder's queue
    state,      \* RuntimeState: ranked, refreshing, error, counts
    shared,     \* the ranked list of the proxy and its failover loop
    db,         \* the tables configs and stable_top
    cleaned,    \* history: the cache was cleaned since a run last wrote its rows
    spent       \* history: how much of MaxEvents is used

configVars == <<file, watcher, watched, watchNew, live>>
store      == <<db, cleaned>>

vars == <<file, watcher, watched, watchNew, live, used, pc, job, events, state,
          shared, db, cleaned, spent>>

(* The watcher has not looked at the file yet ("start"), which may have been *)
(* saved since it was loaded ("late"); it knows its time ("seen") or does    *)
(* not ("new"); or it knows the time of a file that nobody loaded           *)
(* ("missed").                                                             *)
WatcherStates == {"start", "late", "seen", "new", "missed"}

Invalid == [invalid |-> TRUE]
NoPrint == [none |-> TRUE]
NoLat   == 0
NoRow   == [none |-> TRUE]

--------------------------------------------------------------------------------
(* Entries and their orders.                                               *)

(* The members of S as Before, a strict order of them, puts them: the one in *)
(* place n has n - 1 before it.                                             *)
InOrder(S, Before(_, _)) ==
    [n \in 1..Cardinality(S) |->
        CHOOSE e \in S : Cardinality({x \in S : Before(x, e)}) = n - 1]

(* The entries of a list at some of its places.                             *)
Filtered(list, places) ==
    LET kept == InOrder(places, <) IN [n \in DOMAIN kept |-> list[kept[n]]]

Take(list, n)   == SubSeq(list, 1, IF n < Len(list) THEN n ELSE Len(list))
Reachable(list) == Filtered(list, {i \in DOMAIN list : list[i].up})
KeysOf(list)    == {list[i].key : i \in DOMAIN list}

(* None of latency_ms sorts as u128::MAX.                                  *)
Faster(a, b) == \/ a.lat # NoLat /\ (b.lat = NoLat \/ a.lat < b.lat)
TieBreak(a, b) == a.src < b.src \/ (a.src = b.src /\ a.key < b.key)

compare_ranked(a, b) ==
    \/ a.up /\ ~b.up
    \/ a.up = b.up /\ (Faster(a, b) \/ (~Faster(b, a) /\ TieBreak(a, b)))

compare_stability_ranked(a, b) ==
    \/ a.up /\ ~b.up
    \/ /\ a.up = b.up
       /\ \/ a.stab > b.stab
          \/ a.stab = b.stab /\ (Faster(a, b) \/ (~Faster(b, a) /\ TieBreak(a, b)))

Sorted(list, Before(_, _)) == InOrder(ToSet(list), Before)

(* retain(|item| seen_keys.insert(..)): the first entry of a key stays.     *)
Distinct(list) ==
    LET Fresh(i) == \A j \in 1..(i - 1) : list[j].key # list[i].key
    IN Filtered(list, {i \in DOMAIN list : Fresh(i)})

(* What /subscription answers: the first top_n reachable entries.           *)
subscription_body == Take(Reachable(state.ranked), live.topN)

(* RefreshFingerprint: the settings whose change starts a refresh.          *)
Fingerprint(c) ==
    [subs |-> c.subs, topN |-> c.topN, asap |-> c.asap, stability |-> c.stability,
     scanAll |-> c.scanAll, cacheOnly |-> c.cacheOnly, active |-> c.active]

EmptyState ==
    [ranked |-> <<>>, refreshing |-> FALSE, error |-> FALSE, counts |-> <<>>]

NoJob ==
    [config |-> NoPrint, previous |-> EmptyState, top |-> {}, phase |-> "none",
     waiting |-> {}, arrived |-> <<>>, todo |-> {}, call |-> <<>>, halfSent |-> FALSE,
     fetched |-> {}, ranked |-> <<>>, seen |-> {}, failed |-> {}, successes |-> 0,
     errors |-> {}]

NoRows  == [rows |-> [k \in Keys |-> NoRow], stable |-> {}]
Rows(d) == {k \in Keys : d.rows[k] # NoRow}

Init ==
    /\ file \in FirstSettings
    /\ watcher = "start" /\ watchNew = FALSE
    /\ watched = file /\ live = file
    /\ used = NoPrint /\ pc = "idle" /\ job = NoJob
    /\ events = <<>> /\ state = EmptyState /\ shared = <<>>
    /\ db = NoRows /\ cleaned = FALSE
    /\ spent = 0

Spend == spent < MaxEvents /\ spent' = spent + 1

--------------------------------------------------------------------------------
(* The beginning of a refresh.                                             *)

(* Database::load_ranked_configs(top_n); rows that tie come in the order of *)
(* the table, for which the keys stand.                                    *)
StoredBefore(a, b) ==
    \/ a.stab > b.stab
    \/ a.stab = b.stab /\ (Faster(a, b) \/ (~Faster(b, a) /\ a.key < b.key))

load_ranked_configs(n) ==
    LET online == {db.rows[k] : k \in {k \in Rows(db) : db.rows[k].up}}
    IN Take(InOrder(online, StoredBefore), n)

Candidates(list) == {[key |-> list[i].key, src |-> list[i].src] : i \in DOMAIN list}

(* load_stable_top_keys when stability is preferred.                       *)
PreviousTop(c) == IF c.stability THEN db.stable ELSE {}

(* refresh_once up to the load: the live configuration is overwritten with  *)
(* the one of this run, the published state is reset, and with              *)
(* return_configs_asap the published list is dropped.                       *)
StartRefresh(c) ==
    LET cached == load_ranked_configs(c.topN)
        begun  == [NoJob EXCEPT !.config = c, !.previous = state, !.top = PreviousTop(c),
                                !.phase = "direct"]
    IN /\ used' = Fingerprint(c)
       /\ live' = c
       /\ state' = [state EXCEPT !.refreshing = TRUE, !.error = FALSE,
                                 !.ranked = IF c.asap THEN <<>> ELSE @]
       /\ IF c.cacheOnly
          THEN /\ pc' = "probe"
               /\ job' = [begun EXCEPT
                            !.todo = Candidates(cached), !.fetched = KeysOf(cached),
                            !.seen = KeysOf(cached),
                            !.errors = IF cached = <<>> THEN {0} ELSE {},
                            !.successes = IF cached = <<>> THEN 0
                                          ELSE Cardinality(c.subs)]
          ELSE /\ pc' = "fetch"
               /\ job' = [begun EXCEPT !.waiting = c.subs]
       /\ UNCHANGED <<events, shared, store>>

(* The iterations of spawn_refresh_loop.  borrow() reads the channel        *)
(* without marking its value as seen; only changed() does.                  *)
FirstRefresh ==
    /\ pc = "idle" /\ used = NoPrint
    /\ StartRefresh(watched)
    /\ UNCHANGED <<file, watcher, watched, watchNew, spent>>

TimerFires ==
    /\ pc = "idle" /\ used # NoPrint /\ watched.timer
    /\ StartRefresh(watched) /\ Spend
    /\ UNCHANGED <<file, watcher, watched, watchNew>>

ConfigChanged ==
    /\ pc = "idle" /\ used # NoPrint /\ watchNew
    /\ watchNew' = FALSE
    /\ IF used # Fingerprint(watched)
       THEN StartRefresh(watched)
       ELSE /\ live' = watched /\ pc' = "handoff"
            /\ UNCHANGED <<used, job, events, state, shared, store>>
    /\ UNCHANGED <<file, watcher, watched, spent>>

--------------------------------------------------------------------------------
(* Fetching: sources answer in any order (buffer_unordered).               *)

(* One source of fetch_sources_with_client answers, or fails.              *)
FetchAnswer(s, ok) ==
    /\ pc = "fetch" /\ s \in job.waiting
    /\ job' = [job EXCEPT !.waiting = @ \ {s},
                          !.arrived = Append(@, [src |-> s, ok |-> ok])]
    /\ UNCHANGED <<configVars, used, pc, events, state, shared, store, spent>>

(* The answers are put back in the order of the sources before the first    *)
(* entry of a key is kept.                                                  *)
Answered(arrived) ==
    LET good == Filtered(arrived, {i \in DOMAIN arrived : arrived[i].ok})
    IN [i \in DOMAIN good |-> good[i].src]

Merged(order) ==
    {c \in [key : Keys, src : ToSet(order)] :
        /\ c.key \in Doc[c.src]
        /\ \A i, j \in DOMAIN order :
              c.src = order[i] /\ j < i => c.key \notin Doc[order[j]]}

MergedAsArrived(arrived) == Merged(Answered(arrived))

FetchMerged(arrived) == Merged(InOrder(ToSet(Answered(arrived)), <))

(* retry.candidates.retain(|c| seen_candidate_keys.insert(..)).             *)
Unseen(arrived) == {c \in FetchMerged(arrived) : c.key \notin job.seen}

(* merged_fetch_errors: a failed source is forgotten once its retry works.  *)
merged_fetch_errors(retried) == job.failed \ retried

(* All sources answered: what a load leaves to probe.                       *)
Loaded(new) ==
    [job EXCEPT !.arrived = <<>>, !.todo = new,
                !.fetched = @ \cup {c.key : c \in new},
                !.seen = @ \cup {c.key : c \in new},
                !.successes = @ + Len(Answered(job.arrived))]

FetchDone(loaded) ==
    /\ pc = "fetch" /\ job.waiting = {}
    /\ job' = loaded /\ pc' = "probe"
    /\ UNCHANGED <<configVars, used, events, state, shared, store, spent>>

(* The end of load_candidates_with_cache.                                  *)
DirectLoad ==
    LET bad == {s \in job.config.subs : s \notin ToSet(Answered(job.arrived))}
    IN /\ job.phase = "direct"
       /\ FetchDone([Loaded(FetchMerged(job.arrived)) EXCEPT !.failed = bad, !.errors = bad])

(* The end of the proxied retry, whose candidates lose the keys already     *)
(* seen.                                                                   *)
RetryLoad ==
    /\ job.phase = "retry"
    /\ FetchDone([Loaded(Unseen(job.arrived)) EXCEPT
                    !.errors = merged_fetch_errors(ToSet(Answered(job.arrived)))])

--------------------------------------------------------------------------------
(* Probing: a call of probe_candidates, batch by batch.                     *)

Kept(found) == {e \in ToSet(found) : e.up /\ e.key \in job.top}

(* previous_working_keys: the previous top keys among this call's entries.  *)
CallTop == job.top \cap ({c.key : c \in job.todo} \cup KeysOf(job.call))

Ceil(n) == n - n \div 2
Smaller(a, b) == IF a < b THEN a ELSE b

(* probe_stop_reason, active mode only; keys are previous_working_keys,     *)
(* searched says that all of them were tested.                              *)
Stops(found, keys, searched) ==
    LET c == job.config
    IN /\ c.active /\ ~c.scanAll
       /\ Len(Reachable(found)) >= c.topN
       /\ \/ ~c.stability
          \/ Cardinality(Kept(found)) >= Smaller(Ceil(c.topN), Cardinality(keys))
          \/ keys # {} /\ searched

(* stability_snapshot: the first half of top_n, previous keys first.        *)
HalfSnapshot(found) ==
    LET up    == Sorted(Reachable(found), compare_ranked)
        first == Filtered(up, {i \in DOMAIN up : up[i].key \in job.top})
        rest  == Filtered(up, {i \in DOMAIN up : up[i].key \notin job.top})
    IN Take(first \o rest, job.config.topN \div 2)

SendsHalf(found) ==
    LET c == job.config
    IN /\ c.active /\ c.stability /\ ~c.asap /\ ~c.scanAll /\ ~job.halfSent
       /\ c.topN \div 2 > 0 /\ Len(Reachable(found)) >= c.topN \div 2

Outcome(c, lat) ==
    [key |-> c.key, src |-> c.src, up |-> lat # NoLat, lat |-> lat, stab |-> 0]

(* A batch is measured: NoLat for an entry that does not work.              *)
Measurements(batch) ==
    {lats \in [batch -> UNION {Lats[k] : k \in Keys} \cup {NoLat}] :
        \A c \in batch : lats[c] \in Lats[c.key] \cup {NoLat}}

(* One batch of results: working entries are announced at once when         *)
(* return_configs_asap is set, and the first half once when it is not.      *)
ProbeBatch(batch, lats) ==
    LET results == InOrder({Outcome(c, lats[c]) : c \in batch}, compare_ranked)
        found   == job.call \o results
        asap    == IF job.config.asap /\ Reachable(results) # <<>>
                   THEN <<[kind |-> "Found", list |-> Reachable(results),
                           topN |-> job.config.topN]>>
                   ELSE <<>>
        half    == IF SendsHalf(found)
                   THEN <<[kind |-> "Snapshot", list |-> HalfSnapshot(found)]>>
                   ELSE <<>>
    IN /\ pc = "probe" /\ batch # {} /\ batch \subseteq job.todo
       /\ events' = events \o asap \o half
       /\ job' = [job EXCEPT
                    !.call = found, !.halfSent = @ \/ half # <<>>,
                    !.todo = IF Stops(found, CallTop,
                                      \A c \in job.todo \ batch : c.key \notin job.top)
                             THEN {} ELSE @ \ batch]
       /\ UNCHANGED <<configVars, used, pc, state, shared, store, spent>>

NextStage ==
    CASE job.phase = "direct"   -> "retry"
      [] job.phase = "retry"    -> "fallback"
      [] job.phase = "fallback" -> "join"

(* ranked.append(rank_configs(..)) and the next stage of refresh_once.      *)
ProbeDone ==
    /\ pc = "probe" /\ job.todo = {}
    /\ job' = [job EXCEPT !.ranked = @ \o Sorted(job.call, compare_ranked),
                          !.call = <<>>, !.halfSent = FALSE]
    /\ pc' = NextStage
    /\ UNCHANGED <<configVars, used, events, state, shared, store, spent>>

--------------------------------------------------------------------------------
(* The proxied retry and the fallback to the database.                     *)

(* subscription_retry_proxy_uri: the emergency config, else the first       *)
(* reachable entry of this run or of the one before.                        *)
HasBridge ==
    /\ job.config.active
    /\ \/ job.config.emergency
       \/ Reachable(job.ranked) # <<>>
       \/ Reachable(job.previous.ranked) # <<>>

Retries == ~job.config.cacheOnly /\ job.failed # {} /\ HasBridge

(* retry_failed_sources_with_proxy starts sing-box and fetches the failed   *)
(* http sources; when sing-box does not start nothing changes.              *)
Retry ==
    /\ pc = "retry"
    /\ \/ /\ Retries
          /\ job' = [job EXCEPT !.phase = "retry", !.waiting = job.failed \cap HttpSources]
          /\ pc' = "fetch"
       \/ /\ pc' = "fallback" /\ job' = job
    /\ UNCHANGED <<configVars, used, events, state, shared, store, spent>>

Fallback ==
    LET stored == load_ranked_configs(job.config.topN)
        cached == Filtered(stored, {i \in DOMAIN stored : stored[i].key \notin job.seen})
    IN /\ pc = "fallback"
       /\ IF ~job.config.cacheOnly /\ job.successes = 0
          THEN /\ job' = [job EXCEPT !.phase = "fallback", !.todo = Candidates(cached),
                                     !.fetched = @ \cup KeysOf(cached),
                                     !.seen = @ \cup KeysOf(cached)]
               /\ pc' = "probe"
          ELSE pc' = "join" /\ job' = job
       /\ UNCHANGED <<configVars, used, events, state, shared, store, spent>>

--------------------------------------------------------------------------------
(* The forwarder: push_tui_progress, one event at a time.                   *)

Count(k) == IF k \in DOMAIN state.counts THEN state.counts[k] ELSE 0

(* apply_snapshot_stability_counts.                                        *)
WithCounts(list) ==
    [i \in DOMAIN list |->
        [list[i] EXCEPT !.stab = IF ~list[i].up THEN Count(list[i].key)
                                 ELSE IF list[i].key \in job.top
                                 THEN Count(list[i].key) + 1 ELSE 1]]

(* append_asap_working_configs.                                            *)
Appended(list, n) == Take(Distinct(Reachable(state.ranked) \o Reachable(list)), n)

ForwardEvent ==
    LET e == Head(events)
    IN /\ events # <<>>
       /\ events' = Tail(events)
       /\ state' = [state EXCEPT !.ranked =
                      IF e.kind = "Found" THEN WithCounts(Appended(e.list, e.topN))
                      ELSE Sorted(WithCounts(e.list), compare_stability_ranked)]
       /\ UNCHANGED <<configVars, used, pc, job, shared, store, spent>>

--------------------------------------------------------------------------------
(* The end of a refresh.                                                   *)

NotJoined == TRUE

EmptiedByError == [state EXCEPT !.error = TRUE, !.refreshing = FALSE, !.ranked = <<>>]

StillRefreshing == [state EXCEPT !.error = TRUE]

(* record_refresh_error: the published list stays.                          *)
record_refresh_error == [state EXCEPT !.error = TRUE, !.refreshing = FALSE]

(* drop(progress_tx) and progress_task.await: the queue is drained first.   *)
Joined == events = <<>>

(* apply_stability_ranking: counts of keys this run did not rank are        *)
(* dropped, reachable entries count one more, unreachable ones keep theirs. *)
NewCounts ==
    LET old  == job.previous.counts
        Was(k) == IF k \in DOMAIN old THEN old[k] ELSE 0
        up   == KeysOf(Reachable(job.ranked))
    IN [k \in up \cup (KeysOf(job.ranked) \cap DOMAIN old) |->
            IF k \in up THEN Was(k) + 1 ELSE Was(k)]

Stabilised(list, counts) ==
    [i \in DOMAIN list |->
        [list[i] EXCEPT !.stab = IF list[i].key \in DOMAIN counts
                                 THEN counts[list[i].key] ELSE 0]]

FinalRanking(list, counts) ==
    LET counted == Stabilised(Distinct(list), counts)
    IN IF job.config.stability THEN Sorted(counted, compare_stability_ranked) ELSE counted

(* Nothing loaded and a source failed: the run ends in an error.            *)
Join ==
    /\ pc = "join" /\ Joined
    /\ IF job.fetched = {} /\ job.ranked = <<>> /\ job.errors # {}
       THEN state' = record_refresh_error /\ pc' = "handoff" /\ job' = job
       ELSE /\ job' = [job EXCEPT !.ranked = FinalRanking(@, NewCounts),
                                  !.previous.counts = NewCounts]
            /\ pc' = "persist" /\ UNCHANGED state
    /\ UNCHANGED <<configVars, used, events, shared, store, spent>>

(* upsert_configs writes row by row, each in its own transaction.           *)
Upserted(list) ==
    [k \in Keys |-> IF k \in KeysOf(list)
                    THEN CHOOSE e \in ToSet(list) : e.key = k ELSE db.rows[k]]

FirstTested(list) == KeysOf(Take(list, job.config.topN))

StableKeys(list) == KeysOf(Take(Reachable(list), job.config.topN))

Fails == state' = record_refresh_error /\ pc' = "handoff" /\ Spend

(* upsert_configs holds the connection for all rows; an error leaves those   *)
(* written before it.                                                      *)
PersistRows ==
    /\ pc = "persist"
    /\ cleaned' = FALSE
    /\ \/ /\ db' = [db EXCEPT !.rows = Upserted(job.ranked)]
          /\ pc' = "top" /\ UNCHANGED <<state, spent>>
       \/ /\ \E n \in 0..Len(job.ranked) :
                db' = [db EXCEPT !.rows = Upserted(Take(job.ranked, n))]
          /\ Fails
    /\ UNCHANGED <<configVars, used, job, events, shared>>

(* The top keys, deleted when nothing is reachable.                         *)
PersistTop ==
    /\ pc = "top"
    /\ \/ /\ db' = [db EXCEPT !.stable = StableKeys(job.ranked)]
          /\ pc' = "clean" /\ UNCHANGED <<state, spent>>
       \/ Fails /\ db' = db
    /\ UNCHANGED <<configVars, used, job, events, shared, cleaned>>

(* clean_offline_configs deletes rows that were last online days ago: never *)
(* one that this run found reachable or wrote for the first time.           *)
Cleanable == {k \in Rows(db) : ~db.rows[k].up \/ k \notin KeysOf(job.ranked)}

CleanOffline ==
    /\ pc = "clean"
    /\ \/ /\ \E gone \in SUBSET Cleanable :
                db' = [db EXCEPT !.rows = [k \in Keys |-> IF k \in gone THEN NoRow ELSE @[k]]]
          /\ pc' = "publish" /\ UNCHANGED <<state, spent>>
       \/ Fails /\ db' = db
    /\ UNCHANGED <<configVars, used, job, events, shared, cleaned>>

(* The whole RuntimeState is replaced.                                      *)
Publish ==
    /\ pc = "publish"
    /\ state' = [ranked |-> job.ranked, refreshing |-> FALSE, error |-> FALSE,
                 counts |-> job.previous.counts]
    /\ pc' = "handoff"
    /\ UNCHANGED <<configVars, used, job, events, shared, store, spent>>

HandoffMarksSeen ==
    /\ pc = "handoff"
    /\ shared' = state.ranked /\ watchNew' = FALSE
    /\ pc' = "idle" /\ job' = NoJob
    /\ UNCHANGED <<file, watcher, watched, live, used, events, state, store, spent>>

(* update_proxy_and_ranked.                                                *)
Handoff ==
    /\ pc = "handoff"
    /\ shared' = state.ranked
    /\ pc' = "idle" /\ job' = NoJob
    /\ UNCHANGED <<configVars, used, events, state, store, spent>>

--------------------------------------------------------------------------------
(* The configuration file, its watcher, and restarts.                      *)

(* Somebody saves the file, in an editor or from the terminal UI.           *)
SaveFile(c) ==
    /\ c # file
    /\ file' = c
    /\ watcher' = IF watcher \in {"start", "late"} THEN "late" ELSE "new"
    /\ Spend
    /\ UNCHANGED <<watched, watchNew, used, pc, job, events, state, shared, store>>

(* save_now leaves the live configuration to the watcher; the toggles of the *)
(* main menu replace it with the one they save, unless it is locked just     *)
(* then (try_write).                                                       *)
Edit ==
    \/ \E c \in Settings \cup {Invalid} : SaveFile(c) /\ live' = live
    \/ \E c \in Settings : SaveFile(c) /\ live' = c

(* The watcher's first look only takes the time the file has by then.       *)
FirstLook ==
    /\ watcher \in {"start", "late"}
    /\ watcher' = IF watcher = "late" THEN "missed" ELSE "seen"
    /\ UNCHANGED <<file, watched, watchNew, live, used, pc, job, events, state, shared,
                   store, spent>>

(* One tick of spawn_config_watcher: a file that does not load is dropped,  *)
(* and its modification time remembered all the same.                       *)
WatcherPolls ==
    /\ watcher = "new"
    /\ watcher' = "seen"
    /\ IF file = Invalid THEN UNCHANGED <<watched, watchNew>>
       ELSE watched' = file /\ watchNew' = TRUE
    /\ UNCHANGED <<file, live, used, pc, job, events, state, shared, store, spent>>

(* Clean cache in the terminal UI, at any time (an empty one stays as it     *)
(* is); an error between the two deletions leaves the top keys.             *)
CleanCache ==
    /\ db # NoRows
    /\ \E keys \in {{}, db.stable} : db' = [NoRows EXCEPT !.stable = keys]
    /\ cleaned' = TRUE
    /\ Spend
    /\ UNCHANGED <<configVars, used, pc, job, events, state, shared>>

(* The program stops anywhere and is started again: memory is gone, the     *)
(* file and the database stay.                                              *)
Restart ==
    /\ file # Invalid
    /\ Spend
    /\ watcher' = "start" /\ watchNew' = FALSE /\ watched' = file /\ live' = file
    /\ used' = NoPrint /\ pc' = "idle" /\ job' = NoJob
    /\ events' = <<>> /\ state' = EmptyState /\ shared' = <<>>
    /\ UNCHANGED <<file, store>>

--------------------------------------------------------------------------------
RefreshStep ==
    \/ FirstRefresh \/ ConfigChanged
    \/ \E s \in Sources, ok \in BOOLEAN : FetchAnswer(s, ok)
    \/ DirectLoad \/ RetryLoad \/ ProbeDone
    \/ \E batch \in SUBSET job.todo : \E lats \in Measurements(batch) : ProbeBatch(batch, lats)
    \/ Retry \/ Fallback \/ Join \/ PersistRows \/ PersistTop \/ CleanOffline \/ Publish
    \/ Handoff

Next ==
    \/ RefreshStep \/ TimerFires \/ ForwardEvent
    \/ Edit \/ FirstLook \/ WatcherPolls \/ CleanCache \/ Restart

Spec == Init /\ [][Next]_vars

(* The loop, the forwarder and the watcher are tasks of the runtime; the    *)
(* fetches and probes they wait for have timeouts.  Nobody has to edit the  *)
(* file, and a timer refresh may always come first.                         *)
FairSpec ==
    /\ Spec /\ WF_vars(RefreshStep) /\ WF_vars(ForwardEvent)
    /\ WF_vars(FirstLook) /\ WF_vars(WatcherPolls)

--------------------------------------------------------------------------------
(* Properties.                                                             *)

Entry == [key : Keys, src : Sources, up : BOOLEAN, lat : Nat, stab : Nat]

(* A published list, a stored row and a configuration are well formed, and  *)
(* a list never names a key twice (main.rs:deduplicate_ranked_configs).     *)
TypeOK ==
    /\ file \in Settings \cup {Invalid} /\ {watched, live} \subseteq Settings
    /\ watcher \in WatcherStates
    /\ {cleaned, watchNew, state.refreshing, state.error} \subseteq BOOLEAN
    /\ job.config \in Settings \cup {NoPrint}
    /\ pc \in {"idle", "fetch", "probe", "retry", "fallback", "join", "persist", "top",
               "clean", "publish", "handoff"}
    /\ \A list \in {state.ranked, shared, job.ranked, job.call} :
          /\ ToSet(list) \subseteq Entry
          /\ Cardinality(KeysOf(list)) = Len(list)
    /\ \A k \in Rows(db) : db.rows[k] \in Entry /\ db.rows[k].key = k
    /\ db.stable \subseteq Keys

(* When the loop sleeps, the proxy and its failover list work from exactly  *)
(* what is published, and no progress event of the last run is left to      *)
(* change it (main.rs:update_proxy_and_ranked after progress_task.await).   *)
IdleInSync == pc = "idle" => shared = state.ranked /\ events = <<>>

(* Clients lose their last working entry only where the code means it: at   *)
(* the start of a return_configs_asap run, at the end of a run that found   *)
(* nothing working, or in a restart; never through a progress event, a      *)
(* failed run or a configuration change.                                    *)
ServingKept ==
    [][subscription_body # <<>> /\ subscription_body' = <<>> =>
          \/ ~state.refreshing /\ state'.refreshing /\ live'.asap
          \/ pc = "publish" /\ Reachable(job.ranked) = <<>>
          \/ state' = EmptyState]_vars

(* After a run that reported no error the database agrees with what is      *)
(* published: the saved top keys are the ones served first, and every       *)
(* working entry is stored as it was ranked (main.rs, the persist step).    *)
(* The cache may be cleaned at any time after, or in the middle of it: then  *)
(* some of it is gone, and what is left still agrees.                       *)
PersistedAsPublished ==
    pc = "idle" /\ used # NoPrint /\ ~state.error =>
        /\ \/ db.stable = KeysOf(Take(Reachable(state.ranked), used.topN))
           \/ cleaned /\ db.stable = {}
        /\ \A e \in ToSet(Reachable(state.ranked)) :
              db.rows[e.key] = e \/ (cleaned /\ db.rows[e.key] = NoRow)

(* Whatever the order the sources answer in, an entry belongs to the first  *)
(* of the sources that answered and list it                                 *)
(* (subscription.rs:fetch_sources_with_client).                             *)
FirstSourceWins ==
    pc \in {"probe", "retry"} /\ job.phase = "direct" /\ ~job.config.cacheOnly =>
        \A c \in job.todo \cup ToSet(job.call) \cup ToSet(job.ranked) :
            \A s \in job.config.subs \ job.failed : s < c.src => c.key \notin Doc[s]

(* A run that scans everything ranks every entry of every source that       *)
(* answered, directly or through the proxied retry, and what it ranks has   *)
(* one entry for each key it loaded (main.rs:refresh_once).                 *)
AllRanked ==
    pc \in {"persist", "top", "clean", "publish"} /\ ~job.config.cacheOnly
        /\ (job.config.scanAll \/ ~job.config.active) =>
            /\ KeysOf(job.ranked) = job.seen
            /\ \A s \in job.config.subs \ job.errors : Doc[s] \subseteq KeysOf(job.ranked)

(* Every refresh ends, in a published result or a recorded error: HTTP      *)
(* readers that wait for it are released (server.rs:subscription_snapshot). *)
RefreshEnds == []<>(pc = "idle" /\ ~state.refreshing)

(* The last configuration saved is in the end the one that is live and the  *)
(* one the published list was made with, also when it was saved in the      *)
(* middle of a refresh, by the terminal UI or by hand.  Only a file saved    *)
(* between its loading and the watcher's first look is not noticed, until    *)
(* it is saved again.                                                       *)
LatestConfigApplied ==
    <>[](file # Invalid /\ watcher # "missed" => live = file /\ used = Fingerprint(file))

(* docs/guide.md says the final ranked list always puts reachable configs   *)
(* before failed configs.                                                   *)
ReachableFirst ==
    pc = "handoff" /\ ~state.error =>
        \A i, j \in DOMAIN state.ranked :
            i < j /\ state.ranked[j].up => state.ranked[i].up

(* docs/guide.md says that with prioritize_stability a config of the saved  *)
(* top-N that still works stays ahead of a newly discovered one.            *)
SavedFirst ==
    pc = "publish" /\ job.config.stability =>
        \A i, j \in DOMAIN job.ranked :
            /\ job.ranked[i].up /\ job.ranked[j].up /\ job.ranked[j].key \in job.top
            /\ i < j
            => job.ranked[i].key \in job.top

(* docs/guide.md says of cache-only mode that one successful online refresh *)
(* is enough for the database to have configs to load: an entry that worked *)
(* once and is still stored is something to test.                           *)
CacheHasConfigs ==
    pc = "join" /\ job.config.cacheOnly /\ (\E k \in Rows(db) : db.rows[k].stab > 0) =>
        job.fetched # {}
================================================================================
