----------------------------- MODULE MCScheduler -----------------------------
(***************************************************************************)
(* Instances of Scheduler for TLC.                                         *)
(***************************************************************************)
EXTENDS Scheduler, TLC

\* Goroutines are interchangeable; used by the runs without liveness.
WorkerSymmetry == Permutations(Worker)
=============================================================================
