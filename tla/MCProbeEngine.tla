----------------------------- MODULE MCProbeEngine -----------------------------
(* Instances of ProbeEngine: candidates that share an outbound, one that     *)
(* needs no TCP screening, and one that has no outbound.                     *)
EXTENDS ProbeEngine, TLC
CONSTANTS c1, c2, c3, c4, c5, d1, d2, d3

Outbounds == c1 :> d1 @@ c2 :> d1 @@ c3 :> d2 @@ c4 :> d3 @@ c5 :> Unsupported
NoneEqual == c1 :> d1 @@ c2 :> d2 @@ c3 :> d3

Settings(mode, pre, all, n, stab, prev) ==
    [mode |-> mode, prefilter |-> pre, scanAll |-> all, topN |-> n,
     stability |-> stab, previous |-> prev]

Calls ==
    {Settings("active", TRUE, TRUE, 4, FALSE, {}),
     Settings("active", TRUE, FALSE, 2, FALSE, {}),
     Settings("active", FALSE, FALSE, 2, TRUE, {c1}),
     Settings("active", FALSE, FALSE, 1, TRUE, {c1, c4}),
     Settings("tcp", FALSE, FALSE, 1, FALSE, {})}

WorkerCalls    == {Settings("active", FALSE, FALSE, 2, FALSE, {})}
StabilityCalls == {Settings("active", FALSE, FALSE, 2, TRUE, {c1})}
================================================================================
