------------------------------ MODULE MCConfigPool ------------------------------
(* Instances of ConfigPool: Uris and Admins are model values.              *)
EXTENDS ConfigPool, TLC

Symmetry == Permutations(Uris) \cup Permutations(Admins)
================================================================================
