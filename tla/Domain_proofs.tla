---------------------------- MODULE Domain_proofs ----------------------------
(***************************************************************************)
(* The trophy rules of Domain, for every trophy count.                     *)
(***************************************************************************)
EXTENDS Domain, TLAPS

\* Every trophy count has a bucket: the last one whose floor it reaches.
LEMMA BucketFits ==
    ASSUME NEW t \in Nat
    PROVE  /\ BucketForTrophies(t) \in TrophyBucket
           /\ BucketFloor[BucketForTrophies(t)] <= t
           /\ \A c \in TrophyBucket : BucketFloor[c] <= t => c <= BucketForTrophies(t)
<1> DEFINE Fits(b) == /\ BucketFloor[b] <= t
                      /\ \A c \in TrophyBucket : BucketFloor[c] <= t => c <= b
<1>1. \E b \in TrophyBucket : Fits(b)
  <2> USE DEF BucketFloor, TrophyBucket
  <2>1. CASE t < 500  BY <2>1
  <2>2. CASE 500 <= t /\ t < 2000  BY <2>2
  <2>3. CASE 2000 <= t /\ t < 10000  BY <2>3
  <2>4. CASE 10000 <= t /\ t < 20000  BY <2>4
  <2>5. CASE 20000 <= t /\ t < 40000  BY <2>5
  <2>6. CASE 40000 <= t  BY <2>6
  <2> QED BY <2>1, <2>2, <2>3, <2>4, <2>5, <2>6
<1> HIDE DEF Fits
<1> PICK b : b = CHOOSE c \in TrophyBucket : Fits(c)  OBVIOUS
<1>2. b \in TrophyBucket /\ Fits(b)  BY <1>1
<1>3. BucketForTrophies(t) = CHOOSE c \in TrophyBucket : Fits(c)
  BY DEF BucketForTrophies, Fits
<1> QED BY <1>2, <1>3 DEF Fits

LEMMA BucketType == ASSUME NEW t \in Nat PROVE BucketForTrophies(t) \in TrophyBucket
BY BucketFits

\* Every priority fits its SMALLINT range 1 to 10.
LEMMA PriorityType == ASSUME NEW t \in Nat PROVE PriorityForTrophies(t) \in Priority
<1>1. BucketForTrophies(t) \in 1..6  BY BucketType DEF TrophyBucket
<1>2. \A b \in 1..6 : BucketPriority[b] \in 1..10
  BY DEF BucketPriority
<1> QED BY <1>1, <1>2 DEF PriorityForTrophies, Priority

\* Trophies never cost a player its place: the more it has, the higher its bucket
\* and the earlier it is claimed (buckets.go, priority.go).
THEOREM MoreTrophiesComeFirst ==
    ASSUME NEW t \in Nat, NEW u \in Nat, t <= u
    PROVE  /\ BucketForTrophies(t) <= BucketForTrophies(u)
           /\ PriorityForTrophies(u) <= PriorityForTrophies(t)
<1>1. /\ BucketForTrophies(t) \in 1..6 /\ BucketForTrophies(u) \in 1..6
      /\ BucketFloor[BucketForTrophies(t)] <= t
      /\ BucketFloor[BucketForTrophies(t)] <= u => BucketForTrophies(t) <= BucketForTrophies(u)
  BY BucketFits DEF TrophyBucket
<1>2. \A b \in 1..6 : BucketFloor[b] \in Nat  BY DEF BucketFloor
<1>3. BucketForTrophies(t) <= BucketForTrophies(u)  BY <1>1, <1>2
<1>4. \A b, c \in 1..6 : b <= c => BucketPriority[c] <= BucketPriority[b]
  BY DEF BucketPriority
<1> QED BY <1>1, <1>3, <1>4 DEF PriorityForTrophies
=============================================================================
