------------------------------- MODULE Domain -------------------------------
(***************************************************************************)
(* The pure rules of internal/domain and of the crawler's timing: trophy   *)
(* buckets, queue priorities and the base re-crawl interval.               *)
(***************************************************************************)
EXTENDS Naturals

\* The six bands of TrophyBucket; 0 stands for a NULL player_trophy_bucket.
TrophyBucket == 1..6
NoBucket == 0

\* Lower trophies bound (inclusive) of each bucket.
BucketFloor == <<0, 500, 2000, 10000, 20000, 40000>>

BucketForTrophies(trophies) ==
    CHOOSE b \in TrophyBucket :
        /\ BucketFloor[b] <= trophies
        /\ \A c \in TrophyBucket : BucketFloor[c] <= trophies => c <= b

\* The priority of a player in each bucket; 1 is claimed first.
BucketPriority == <<8, 6, 4, 3, 2, 1>>

\* Mutant: one formula for all buckets, off the scale at its end.
PriorityOffScale(trophies) == 6 - BucketForTrophies(trophies)

PriorityForTrophies(trophies) == BucketPriority[BucketForTrophies(trophies)]

\* The priority of a player discovered in a battle, before it is classified.
DiscoveryPriority == 5

Priority == 1..10
=============================================================================
