-------------------------- MODULE MCScanCoordination --------------------------
(* Instances of ScanCoordination: which tasks there are and of what kind.  *)
EXTENDS ScanCoordination, TLC

CONSTANTS d1, d2, h1, m1, m2, c1, c2, r1

MCKindOf ==
    [t \in Tasks |-> CASE t \in {d1, d2} -> "discovery"
                       [] t = h1         -> "health"
                       [] t \in {m1, m2} -> "manual"
                       [] t \in {c1, c2} -> "cancel"
                       [] OTHER          -> "restart"]

SymWorkers == Permutations(Workers)
================================================================================
