----------------------------- MODULE MCRefreshLoop -----------------------------
(* Two subscriptions that share an entry, two entries: the first, listed     *)
(* first, is the slower one.                                                *)
EXTENDS RefreshLoop

Documents == <<{1, 2}, {2}>>
Latencies == <<{2}, {1}>>

Setting(n, asap, stab, all, cache) ==
    [subs |-> {1, 2}, topN |-> n, asap |-> asap, stability |-> stab, scanAll |-> all,
     cacheOnly |-> cache, active |-> TRUE, emergency |-> FALSE, timer |-> TRUE,
     sharing |-> FALSE]

Plain  == Setting(1, FALSE, FALSE, TRUE, FALSE)
Stable == Setting(2, FALSE, TRUE, FALSE, FALSE)

(* refresh_seconds: 0, LAN sharing on, cache-only mode, results as soon as   *)
(* they are found.                                                          *)
Early  == [Setting(2, TRUE, FALSE, FALSE, TRUE) EXCEPT !.timer = FALSE, !.sharing = TRUE]

Small  == {Plain, Stable, Early}
Starts == {Plain, Stable}
================================================================================
