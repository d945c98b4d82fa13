---------------------------- MODULE MCUserLifecycle ----------------------------
(* Model values and symmetry for TLC.                                      *)
EXTENDS UserLifecycle, TLC

CONSTANTS t1, t2, n1, n2

Symmetric == Permutations({t1, t2}) \cup Permutations({n1, n2})

(* Bound: once calls have overlapped, the last day is not explored.        *)
OverlapDays == overlapped => now < MaxTime
================================================================================
