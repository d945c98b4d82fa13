------------------------------ MODULE MCScheduler ------------------------------
(* Instances of Scheduler; the intervals are set in the configurations.    *)
EXTENDS Scheduler
================================================================================
