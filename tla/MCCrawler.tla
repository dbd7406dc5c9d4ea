------------------------------ MODULE MCCrawler ------------------------------
(***************************************************************************)
(* Instances of Crawler for TLC.                                           *)
(***************************************************************************)
EXTENDS Crawler, TLC

\* Workers are interchangeable.
WorkerSymmetry == Permutations(Worker)

\* So are players when all of them are seeds.
FullSymmetry == Permutations(Worker) \cup Permutations(Player)
=============================================================================
