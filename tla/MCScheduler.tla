---------------------------- MODULE MCScheduler ----------------------------
(* Instances of Scheduler for TLC. *)
EXTENDS Scheduler, TLC
RetryDelays == [n \in 1..(MaxAttempts - 1) |-> 1]
SchedulerSymmetry == Permutations(Schedulers)
=============================================================================
