---------------------------- MODULE Profile_proofs ----------------------------
(***************************************************************************)
(* Proofs about Profile: what is stored of a player and what is counted,   *)
(* for any workers, players, brawlers, patches and bounds.                 *)
(***************************************************************************)
EXTENDS Profile, Domain_proofs, FiniteSetTheorems, TLAPS

-----------------------------------------------------------------------------
(* The intervals of RetryPolicy, for every number of failures.             *)

\* A power of two counts the subsets of an interval, which is all that the
\* provers need to know of it.
LEMMA PowerOfTwo ==
    /\ \A n \in Nat : 2^n \in Nat /\ 2^n >= 1
    /\ \A m, n \in Nat : m <= n => 2^m <= 2^n
<1>1. ASSUME NEW n \in Nat
      PROVE  IsFiniteSet(SUBSET (1..n)) /\ Cardinality(SUBSET (1..n)) = 2^n
  <2>1. IsFiniteSet(1..n) /\ Cardinality(1..n) = n  BY FS_Interval
  <2> QED BY <2>1, FS_SUBSET
<1>2. ASSUME NEW n \in Nat  PROVE 2^n \in Nat /\ 2^n >= 1
  <2>1. Cardinality(SUBSET (1..n)) \in Nat  BY <1>1, FS_CardinalityType
  <2>2. SUBSET (1..n) # {}  OBVIOUS
  <2>3. Cardinality(SUBSET (1..n)) # 0  BY <1>1, <2>2, FS_EmptySet
  <2> QED BY <1>1, <2>1, <2>3
<1>3. ASSUME NEW m \in Nat, NEW n \in Nat, m <= n  PROVE 2^m <= 2^n
  <2>1. SUBSET (1..m) \subseteq SUBSET (1..n)  BY <1>3
  <2>2. Cardinality(SUBSET (1..m)) <= Cardinality(SUBSET (1..n))  BY <1>1, <2>1, FS_Subset
  <2> QED BY <1>1, <2>2
<1> QED BY <1>2, <1>3

LEMMA BaseInterval ==
    ASSUME NEW q \in Priority
    PROVE  baseInterval(q) \in {240, 480, 1440, 4320}
<1>1. CASE q <= 2       BY <1>1 DEF baseInterval, Hour, Priority
<1>2. CASE q \in 3..4   BY <1>2 DEF baseInterval, Hour, Priority
<1>3. CASE q \in 5..6   BY <1>3 DEF baseInterval, Hour, Priority
<1>4. CASE q > 6        BY <1>4 DEF baseInterval, Hour, Priority
<1> QED BY <1>1, <1>2, <1>3, <1>4 DEF Priority

\* The longest duration is beyond the cap.
LEMMA DurationsLast ==
    /\ MaxDuration \in Nat /\ MaxDuration > MaxBackoff /\ MaxBackoff = 10080
    /\ \A base \in {240, 480, 1440, 4320} : MaxDuration \div base > MaxBackoff \div base
                                           /\ MaxDuration \div base \in Nat
BY SMT DEF MaxDuration, MaxBackoff, Hour

\* The overflow cannot be told from the cap: whatever the platform converts it to,
\* the result is the least of 2^n * base and a week (worker.go:356-371).
LEMMA BackoffValue ==
    ASSUME NEW base \in {240, 480, 1440, 4320}, NEW n \in Nat
    PROVE  /\ backoffDuration(base, n) =
                 {IF 2^n > MaxBackoff \div base THEN MaxBackoff ELSE base * 2^n}
           /\ backoffDuration(base, n) \subseteq base..MaxBackoff
<1> PICK power : power = 2^n  OBVIOUS
<1>1. power \in Nat /\ power >= 1  BY PowerOfTwo
<1>2. Converted(base, n) = IF power > MaxDuration \div base THEN {-MaxDuration, MaxDuration}
                           ELSE {base * power}
  BY DEF Converted
<1> DEFINE capped(d) == IF d > MaxBackoff \/ d < 0 THEN MaxBackoff ELSE d
           value == IF power > MaxBackoff \div base THEN MaxBackoff ELSE base * power
<1>3. backoffDuration(base, n) = {capped(d) : d \in Converted(base, n)}
  BY DEF backoffDuration
<1> PICK most \in Nat : most = MaxDuration \div base  BY DurationsLast
<1> PICK cap : cap = MaxBackoff \div base  OBVIOUS
<1> PICK product : product = base * power  OBVIOUS
<1>4. /\ product \in Nat /\ product >= base
      /\ cap \in Nat /\ cap < most
      /\ product <= 10080 <=> power <= cap
  <2>1. CASE base = 240   BY <1>1, <2>1, DurationsLast
  <2>2. CASE base = 480   BY <1>1, <2>2, DurationsLast
  <2>3. CASE base = 1440  BY <1>1, <2>3, DurationsLast
  <2>4. CASE base = 4320  BY <1>1, <2>4, DurationsLast
  <2> QED BY <2>1, <2>2, <2>3, <2>4
<1>5. value \in base..MaxBackoff
  BY <1>1, <1>4, DurationsLast
<1>6. \A d \in Converted(base, n) : capped(d) = value
  <2>1. CASE power > most
    <3>1. Converted(base, n) = {-MaxDuration, MaxDuration}  BY <1>2, <2>1
    <3>2. value = MaxBackoff  BY <1>1, <1>4, <2>1
    <3>3. capped(-MaxDuration) = MaxBackoff /\ capped(MaxDuration) = MaxBackoff
      <4>1. MaxDuration \in Nat /\ MaxDuration > MaxBackoff /\ MaxBackoff = 10080
        BY DurationsLast
      <4>2. -MaxDuration < 0  BY <4>1
      <4> QED BY <4>1, <4>2
    <3> HIDE DEF capped, value
    <3> QED BY <3>1, <3>2, <3>3
  <2>2. CASE power <= most
    <3>1. Converted(base, n) = {product}  BY <1>1, <1>2, <2>2
    <3>2. capped(product) = value  BY <1>1, <1>4, DurationsLast
    <3> QED BY <3>1, <3>2
  <2> QED BY <1>1, <2>1, <2>2
<1>7. Converted(base, n) # {}  BY <1>2
<1> HIDE DEF capped, value
<1>8. backoffDuration(base, n) = {value}  BY <1>3, <1>6, <1>7
<1> QED BY <1>5, <1>8 DEF value

\* Another failure never brings the next crawl forward, on no platform, not where
\* the power overflows, and none is put off for more than a week.
THEOREM FailuresNeverHasten ==
    ASSUME NEW q \in Priority, NEW m \in Nat, NEW n \in Nat, m <= n,
           NEW d \in backoffDuration(baseInterval(q), m),
           NEW e \in backoffDuration(baseInterval(q), n)
    PROVE  baseInterval(q) <= d /\ d <= e /\ e <= MaxBackoff
<1> PICK base \in {240, 480, 1440, 4320} : base = baseInterval(q)  BY BaseInterval
<1> PICK a : a = 2^m  OBVIOUS
<1> PICK b : b = 2^n  OBVIOUS
<1>1. a \in Nat /\ b \in Nat /\ a >= 1 /\ a <= b  BY PowerOfTwo
<1>2. /\ d = IF a > MaxBackoff \div base THEN MaxBackoff ELSE base * a
      /\ e = IF b > MaxBackoff \div base THEN MaxBackoff ELSE base * b
      /\ d \in base..MaxBackoff /\ e \in base..MaxBackoff
  BY BackoffValue
<1>3. d <= e
  <2> USE <1>1, <1>2 DEF MaxBackoff, Hour
  <2>1. CASE base = 240   BY <2>1
  <2>2. CASE base = 480   BY <2>2
  <2>3. CASE base = 1440  BY <2>3
  <2>4. CASE base = 4320  BY <2>4
  <2> QED BY <2>1, <2>2, <2>3, <2>4
<1> QED BY <1>2, <1>3 DEF MaxBackoff, Hour

-----------------------------------------------------------------------------
(* Types.                                                                  *)

TableTypes ==
    /\ now \in Nat
    /\ catalogue \subseteq Brawler
    /\ patches \subseteq dated /\ dated \subseteq [id : Patch, released : Nat]
    /\ players \subseteq Player
    /\ crawls \in [Player -> Nat]
    /\ snapshots \subseteq Snapshot
    /\ entries \subseteq Entry
    /\ queued \subseteq Player
    /\ targets \in [Player -> Target]

LocalTypes ==
    /\ pc \in [Worker -> PC]
    /\ claim \in [Worker -> Claim]
    /\ job \in [Worker -> Job]
    /\ \A w \in Worker : pc[w] # "idle" => Tag(w) \in Player

LEMMA TypeParts ==
    /\ Types <=> TableTypes /\ LocalTypes
    /\ Types' <=> TableTypes' /\ LocalTypes'
BY DEF Types, TableTypes, LocalTypes

\* What a step of one worker leaves of the others.
Moves(w) ==
    \A v \in Worker \ {w} : pc'[v] = pc[v] /\ job'[v] = job[v] /\ claim'[v] = claim[v]

LEMMA Empty ==
    /\ NoJob \in Job /\ NoClaim \in Claim
    /\ \A s \in Status : [NoJob EXCEPT !.outcome = s] \in Job
    /\ NoClaim.gen = 0
BY DEF NoJob, Job, NoClaim, Claim, DiscoveryPriority, Priority, Status

LEMMA GotoMoves ==
    ASSUME LocalTypes, NEW w \in Worker, pc[w] # "idle", NEW next \in PC, NEW mem \in Job,
           Goto(w, next, mem)
    PROVE  /\ LocalTypes' /\ Moves(w)
           /\ pc'[w] = next /\ job'[w] = mem /\ claim'[w] = claim[w]
BY DEF LocalTypes, Goto, Moves, Tag

LEMMA LeaveMoves ==
    ASSUME LocalTypes, NEW w \in Worker, Leave(w)
    PROVE  LocalTypes' /\ Moves(w) /\ pc'[w] = "idle" /\ claim'[w] = NoClaim
BY Empty DEF LocalTypes, Leave, Moves, Tag, PC

LEMMA EndWithMoves ==
    ASSUME LocalTypes, NEW w \in Worker, pc[w] # "idle", NEW s \in Status, EndWith(w, s)
    PROVE  /\ LocalTypes' /\ Moves(w) /\ pc'[w] \in {"idle", "finalize"}
           /\ pc'[w] # "idle" => claim'[w] = claim[w] /\ claim[w].gen # 0
<1>1. CASE Leave(w)  BY <1>1, LeaveMoves
<1>2. CASE ~Collecting(w) /\ Goto(w, "finalize", [NoJob EXCEPT !.outcome = s])
  BY <1>2, GotoMoves, Empty DEF PC, Collecting
<1> QED BY <1>1, <1>2 DEF EndWith

LEMMA ExecutedMoves ==
    ASSUME LocalTypes, NEW w \in Worker, pc[w] # "idle", NEW next \in PC \ {"idle"},
           NEW mem \in Job, Executed(w, next, mem)
    PROVE  /\ LocalTypes' /\ Moves(w) /\ pc'[w] \in {next, "idle", "finalize"}
           /\ pc'[w] # "idle" => claim'[w] = claim[w]
           /\ pc'[w] # next => pc'[w] # "finalize" \/ claim[w].gen # 0
           /\ pc'[w] = next /\ next # "finalize" => job'[w] = mem
<1>1. CASE Goto(w, next, mem)  BY <1>1, GotoMoves
<1>2. CASE EndWith(w, "error")  BY <1>2, EndWithMoves DEF Status
<1> QED BY <1>1, <1>2 DEF Executed

-----------------------------------------------------------------------------
(* The claims.                                                             *)

\* Only a claim and the finalize of its own generation touch what it is fenced by.
LEMMA GenerationsKept ==
    ASSUME Generations, LocalTypes,
           \A p \in Player : targets'[p].gen = targets[p].gen /\ targets'[p].failures = targets[p].failures,
           \A v \in Worker : pc'[v] # "idle" /\ claim'[v].gen # 0 =>
                                pc[v] # "idle" /\ claim'[v] = claim[v],
           \A v \in Worker : pc'[v] = "finalize" => claim'[v].gen # 0
    PROVE  Generations'
<1>1. \A v \in Worker : Holding(v)' =>
        Holding(v) /\ claim'[v] = claim[v] /\ Tag(v)' = Tag(v) /\ Tag(v) \in Player
  BY DEF Holding, Collecting, Tag, LocalTypes
<1>2. \A v \in Worker : Holding(v)' => (Current(v)' <=> Current(v))
  BY <1>1 DEF Current
<1>3. \A v \in Worker : pc'[v] = "finalize" => ~Collecting(v)'  BY DEF Collecting
<1> QED BY <1>1, <1>2, <1>3 DEF Generations, FailuresNotStale

\* A claim has a generation of its own, and the failures it was made with.
LEMMA ClaimGenerations ==
    ASSUME Types, Generations, NEW w \in Worker, NEW p \in Player, ClaimTarget(w, p)
    PROVE  Types' /\ Generations'
<1> PICK g : g = targets[p].gen + 1  OBVIOUS
<1> PICK c : c = [tag |-> p, gen |-> g, priority |-> targets[p].priority,
                  failures |-> targets[p].failures, classified |-> targets[p].classified]
  OBVIOUS
<1>1. TableTypes /\ LocalTypes /\ targets[p] \in Target  BY TypeParts DEF TableTypes
<1>2. /\ targets[p].gen \in Nat /\ targets[p].failures \in Nat
      /\ targets[p].priority \in Priority /\ targets[p].classified \in BOOLEAN
  BY <1>1 DEF Target
<1>3. g \in Nat /\ g > targets[p].gen /\ g # 0  BY <1>2
<1>4. c \in Claim /\ c.tag = p /\ c.gen = g /\ c.failures = targets[p].failures
  BY <1>2, <1>3 DEF Claim
<1>5. claim' = [claim EXCEPT ![w] = c] /\ pc' = [pc EXCEPT ![w] = "fetch"] /\ job' = job
  BY DEF ClaimTarget
<1>6. \A t \in Target : [t EXCEPT !.gen = t.gen + 1] \in Target  BY DEF Target
<1>7. /\ targets' \in [Player -> Target]
      /\ \A q \in Player : targets'[q].failures = targets[q].failures
      /\ \A q \in Player : targets'[q].gen = IF q = p THEN g ELSE targets[q].gen
  BY <1>1, <1>6 DEF ClaimTarget, TableTypes, Target
<1>8. TableTypes'
  BY <1>1, <1>7 DEF ClaimTarget, TableTypes, reference, profiles
<1>9. LocalTypes'
  BY <1>1, <1>4, <1>5 DEF LocalTypes, PC, Tag
<1>10. \A v \in Worker \ {w} :
        /\ pc'[v] = pc[v] /\ claim'[v] = claim[v] /\ Tag(v)' = Tag(v)
        /\ Holding(v)' => Holding(v) /\ Tag(v) \in Player
  <2>1. \A v \in Worker \ {w} : pc'[v] = pc[v] /\ claim'[v] = claim[v]
    BY <1>1, <1>5 DEF LocalTypes
  <2> QED BY <1>1, <2>1 DEF LocalTypes, Holding, Collecting, Tag
<1>11. claim'[w] = c /\ Tag(w)' = p  BY <1>1, <1>4, <1>5 DEF LocalTypes, Tag
<1>12. \A v \in Worker : claim[v].gen \in Nat  BY <1>1 DEF LocalTypes, Claim
<1>13. \A v \in Worker \ {w} : Holding(v) /\ Tag(v) = p => claim[v].gen <= targets[p].gen
  BY DEF Generations
<1>14. \A v \in Worker : Holding(v)' => claim'[v].gen <= targets'[Tag(v)'].gen
  <2> SUFFICES ASSUME NEW v \in Worker, Holding(v)'
               PROVE  claim'[v].gen <= targets'[Tag(v)'].gen
    OBVIOUS
  <2>1. CASE v = w  BY <1>3, <1>4, <1>7, <1>11, <2>1
  <2>2. CASE v # w /\ Tag(v) = p
    BY <1>2, <1>3, <1>7, <1>10, <1>12, <1>13, <2>2
  <2>3. CASE v # w /\ Tag(v) # p
    BY <1>7, <1>10, <2>3 DEF Generations
  <2> QED BY <2>1, <2>2, <2>3
<1>15. \A u, v \in Worker : u # v /\ Holding(u)' /\ Holding(v)' /\ Tag(u)' = Tag(v)' =>
        claim'[u].gen # claim'[v].gen
  <2>1. \A v \in Worker \ {w} : Holding(v) /\ Tag(v) = p => claim[v].gen # g
    BY <1>2, <1>3, <1>12, <1>13
  <2> QED BY <1>4, <1>10, <1>11, <2>1 DEF Generations
<1>16. FailuresNotStale'
  <2> SUFFICES ASSUME NEW v \in Worker, Holding(v)', Current(v)'
               PROVE  claim'[v].failures = targets'[Tag(v)'].failures
    BY DEF FailuresNotStale
  <2>1. CASE v = w  BY <1>4, <1>7, <1>11, <2>1
  <2>2. CASE v # w
    <3>1. claim[v].gen = targets'[Tag(v)].gen  BY <1>10, <2>2 DEF Current
    <3>2. Tag(v) # p  BY <1>2, <1>3, <1>7, <1>10, <1>12, <1>13, <2>2, <3>1
    <3> QED BY <1>7, <1>10, <2>2, <3>1, <3>2 DEF Current, Generations, FailuresNotStale
  <2> QED BY <2>1, <2>2
<1>17. \A v \in Worker : pc'[v] = "finalize" => claim'[v].gen # 0
  <2>1. pc'[w] = "fetch"  BY <1>1, <1>5 DEF LocalTypes
  <2> QED BY <1>10, <2>1 DEF Generations, Collecting
<1> QED BY <1>8, <1>9, <1>14, <1>15, <1>16, <1>17, TypeParts DEF Generations, Collecting

\* A finalize of the current generation writes what only its own claim depends on.
LEMMA FinalizeGenerations ==
    ASSUME Types, Generations, NEW w \in Worker, FinalizeCrawl(w)
    PROVE  /\ Types' /\ Generations'
           /\ \A p \in Player : targets'[p].failures
                    \in {0, targets[p].failures, targets[p].failures + 1}
<1> PICK p : p = Tag(w)  OBVIOUS
<1> PICK n : n = NextFailures(w)  OBVIOUS
<1> PICK a : a = (job[w].outcome \notin {"not_found", "sampled_out"})  OBVIOUS
<1>1. /\ TableTypes /\ LocalTypes /\ pc[w] = "finalize" /\ p \in Player
      /\ job[w].outcome \in Status /\ claim[w].failures \in Nat /\ a \in BOOLEAN
  BY TypeParts DEF FinalizeCrawl, LocalTypes, Job, Claim
<1>2. targets[p] \in Target /\ targets[p].failures \in Nat  BY <1>1 DEF TableTypes, Target
<1>3. n \in Nat /\ n \in {0, claim[w].failures, claim[w].failures + 1}
  BY <1>1 DEF NextFailures
<1>4. LocalTypes' /\ Moves(w) /\ pc'[w] = "idle"  BY <1>1, LeaveMoves DEF FinalizeCrawl
<1>5. \A t \in Target : [t EXCEPT !.status = job[w].outcome, !.failures = n, !.active = a] \in Target
  <2> SUFFICES ASSUME NEW t \in Target
               PROVE  [t EXCEPT !.status = job[w].outcome, !.failures = n, !.active = a] \in Target
    OBVIOUS
  <2> PICK o \in Status : o = job[w].outcome  BY <1>1
  <2> QED BY <1>1, <1>3 DEF Target
<1>6. /\ targets' = [targets EXCEPT ![p] = [targets[p] EXCEPT !.status = job[w].outcome,
                                            !.failures = n, !.active = a]]
  BY DEF FinalizeCrawl
<1>7. /\ targets' \in [Player -> Target]
      /\ \A q \in Player : targets'[q].gen = targets[q].gen
      /\ \A q \in Player : targets'[q].failures = IF q = p THEN n ELSE targets[q].failures
  BY <1>1, <1>5, <1>6 DEF TableTypes, Target
<1>8. TableTypes'
  BY <1>1, <1>7 DEF FinalizeCrawl, TableTypes, reference, profiles
<1>9. Holding(w)  BY <1>1 DEF Holding, Generations
<1>10. \A v \in Worker : Holding(v)' =>
        v # w /\ Holding(v) /\ claim'[v] = claim[v] /\ Tag(v)' = Tag(v) /\ Tag(v) \in Player
  BY <1>1, <1>4 DEF Holding, Collecting, Tag, Moves, LocalTypes
<1>11. Current(w) /\ claim[w].failures = targets[p].failures
  BY <1>9 DEF FinalizeCrawl, FinalizeMatches, Generations, FailuresNotStale
<1>12. \A v \in Worker : Holding(v)' /\ Current(v)' => Tag(v) # p
  BY <1>1, <1>7, <1>9, <1>10, <1>11 DEF Generations, Current
<1>13. FailuresNotStale'
  BY <1>7, <1>10, <1>12 DEF FailuresNotStale, Generations, Current
<1>14. \A v \in Worker : pc'[v] = "finalize" => ~Collecting(v)'
  BY <1>4 DEF Generations, Collecting, Moves
<1>15. Generations'
  BY <1>7, <1>10, <1>13, <1>14 DEF Generations
<1> QED BY <1>3, <1>4, <1>7, <1>8, <1>11, <1>15, TypeParts

\* A step of a worker that neither claims nor finalizes.
LEMMA Working ==
    ASSUME Types, Generations, NEW w \in Worker, TableTypes', LocalTypes', Moves(w),
           pc[w] # "idle",
           \A p \in Player : targets'[p].gen = targets[p].gen /\ targets'[p].failures = targets[p].failures,
           pc'[w] # "idle" => claim'[w] = claim[w],
           pc'[w] = "finalize" => claim[w].gen # 0
    PROVE  Types' /\ Generations'
<1>1. LocalTypes  BY TypeParts
<1>2. \A v \in Worker : pc'[v] # "idle" /\ claim'[v].gen # 0 =>
        pc[v] # "idle" /\ claim'[v] = claim[v]
  BY DEF Moves
<1>3. \A v \in Worker : pc'[v] = "finalize" => claim'[v].gen # 0
  BY DEF Moves, Generations, Collecting
<1> QED BY <1>1, <1>2, <1>3, GenerationsKept, TypeParts

-----------------------------------------------------------------------------
(* The snapshots.                                                          *)

\* The registry loses no patch and none of the dates that one had.
Dating ==
    /\ \A x \in patches : \E y \in patches' : y.id = x.id
    /\ dated \subseteq dated'

LEMMA DatingKeeps ==
    /\ patches' = patches /\ dated' = dated => Dating
    /\ Dating => \A id, t : OfItsTime(id, t) => OfItsTime(id, t)'
BY DEF Dating, OfItsTime

\* A step that writes no snapshot and counts nothing, by the workers in W, of
\* whom none gets to the brawlers of a snapshot.
LEMMA Quiet ==
    ASSUME IInv, NEW W \in SUBSET Worker, Types', Generations', SnapshotsSound',
           \A v \in Worker \ W : pc'[v] = pc[v] /\ job'[v] = job[v] /\ claim'[v] = claim[v],
           \A w \in W : /\ Standing(w)'
                        /\ pc'[w] = "brawlers" =>
                            pc[w] = "brawlers" /\ claim'[w] = claim[w] /\ job'[w].at = job[w].at,
           players \subseteq players', Dating,
           snapshots' = snapshots, entries \subseteq entries', crawls' = crawls
    PROVE  IInv'
<1>1. \A v \in Worker : pc'[v] = "brawlers" =>
        pc[v] = "brawlers" /\ Tag(v)' = Tag(v) /\ job'[v].at = job[v].at
  BY DEF Tag
<1>2. \A v \in Worker : \A s : pc'[v] = "brawlers" /\ SnapshotOf(v, s)' => SnapshotOf(v, s)
  BY <1>1 DEF SnapshotOf
<1>3. Apart'
  <2> SUFFICES ASSUME NEW v \in Worker, NEW w \in Worker, v # w,
                      pc'[v] = "brawlers", pc'[w] = "brawlers"
               PROVE  Tag(v)' # Tag(w)' \/ job'[v].at # job'[w].at
    BY DEF Apart
  <2> QED BY <1>1 DEF IInv, Apart
<1>4. \A s : Entered(s) \subseteq Entered(s)'  BY DEF Entered
<1>5. ASSUME NEW v \in Worker \ W  PROVE Standing(v)'
  <2>1. Standing(v) /\ Tag(v)' = Tag(v)  BY DEF IInv, Tag
  <2>2. \A s : SnapshotOf(v, s)' <=> SnapshotOf(v, s)  BY <2>1 DEF SnapshotOf
  <2> QED BY <1>4, <2>1, <2>2, DatingKeeps DEF Standing
<1>6. ASSUME NEW p \in Player  PROVE Counted(p)'
  <2>1. PICK C \in SUBSET Whole(p) :
          /\ IsFiniteSet(C) /\ Cardinality(C) = crawls[p]
          /\ \A w \in Worker : pc[w] = "brawlers" => \A s \in C : ~SnapshotOf(w, s)
    BY DEF IInv, Counted
  <2>2. Whole(p) \subseteq Whole(p)'  BY <1>4 DEF Whole
  <2>3. \A w \in Worker : pc'[w] = "brawlers" => \A s \in C : ~SnapshotOf(w, s)'
    BY <1>1, <1>2, <2>1
  <2> QED BY <2>1, <2>2, <2>3 DEF Counted
<1> QED BY <1>3, <1>5, <1>6 DEF IInv

\* The same by one worker.
LEMMA QuietWorker ==
    ASSUME IInv, NEW w \in Worker, Types', Generations', SnapshotsSound', Moves(w), Standing(w)',
           pc'[w] = "brawlers" =>
                pc[w] = "brawlers" /\ claim'[w] = claim[w] /\ job'[w].at = job[w].at,
           players \subseteq players', Dating,
           snapshots' = snapshots, entries \subseteq entries', crawls' = crawls
    PROVE  IInv'
<1> PICK W : W = {w}  OBVIOUS
<1>1. W \in SUBSET Worker  OBVIOUS
<1>2. \A v \in Worker \ W : pc'[v] = pc[v] /\ job'[v] = job[v] /\ claim'[v] = claim[v]
  BY DEF Moves
<1>3. \A v \in W : /\ Standing(v)'
                  /\ pc'[v] = "brawlers" =>
                        pc[v] = "brawlers" /\ claim'[v] = claim[v] /\ job'[v].at = job[v].at
  OBVIOUS
<1> QED BY <1>1, <1>2, <1>3, Quiet

\* The foreign keys, the patches and the times of the rows that are there.
LEMMA SoundKept ==
    ASSUME SnapshotsSound, players \subseteq players', Dating,
           catalogue \subseteq catalogue', snapshots' = snapshots, entries' = entries
    PROVE  SnapshotsSound'
BY DatingKeeps DEF SnapshotsSound

\* A worker that is not ingesting stands for nothing.
LEMMA NotIngesting ==
    ASSUME NEW w, pc'[w] \notin {"patch", "insert", "brawlers"}
    PROVE  Standing(w)'
BY DEF Standing

\* A new snapshot, and nobody else that writes its brawlers.
LEMMA NewSnapshot ==
    ASSUME IInv, NEW w \in Worker, Types', Generations', Moves(w), pc[w] = "insert",
           NEW raw \in SUBSET Brawler,
           NEW s, s = [player |-> Tag(w), at |-> job[w].at, patch |-> job[w].patch, raw |-> raw],
           ~HasSnapshot(Tag(w), job[w].at), snapshots' = snapshots \cup {s},
           pc'[w] \in {"brawlers", "idle", "finalize"},
           pc'[w] = "brawlers" =>
                claim'[w] = claim[w] /\ job'[w] = [NoJob EXCEPT !.at = job[w].at, !.todo = raw],
           UNCHANGED <<catalogue, patches, dated, players, entries, crawls>>
    PROVE  IInv'
<1>1. s.player = Tag(w) /\ s.at = job[w].at /\ s.patch = job[w].patch /\ s.raw = raw
  OBVIOUS
<1>2. \A r \in snapshots : r.player # Tag(w) \/ r.at # job[w].at  BY DEF HasSnapshot
<1>3. \A v \in Worker \ {w} : Tag(v)' = Tag(v)  BY DEF Moves, Tag
<1>4. pc'[w] = "brawlers" => Tag(w)' = Tag(w) /\ job'[w].at = job[w].at /\ job'[w].todo = raw
  BY DEF Tag, NoJob
<1>5. \A v \in Worker \ {w} : pc[v] = "brawlers" => Tag(v) # Tag(w) \/ job[v].at # job[w].at
  <2> SUFFICES ASSUME NEW v \in Worker \ {w}, pc[v] = "brawlers"
               PROVE  Tag(v) # Tag(w) \/ job[v].at # job[w].at
    OBVIOUS
  <2>1. \E r \in snapshots : r.player = Tag(v) /\ r.at = job[v].at
    BY DEF IInv, Standing, SnapshotOf
  <2> QED BY <1>2, <2>1
<1>6. SnapshotsSound'
  <2>1. Standing(w) /\ SnapshotsSound  BY DEF IInv
  <2>2. /\ s.player \in players
        /\ s.patch # NoPatch => OfItsTime(s.patch, s.at)
    BY <1>1, <2>1 DEF Standing
  <2>3. \A r, q \in snapshots' : r.player = q.player /\ r.at = q.at => r = q
    BY <1>1, <1>2, <2>1 DEF SnapshotsSound
  <2>4. \A id, t : OfItsTime(id, t)' <=> OfItsTime(id, t)  BY DEF OfItsTime
  <2> QED BY <2>1, <2>2, <2>3, <2>4 DEF SnapshotsSound
<1>7. Apart'
  <2> SUFFICES ASSUME NEW u \in Worker, NEW v \in Worker, u # v,
                      pc'[u] = "brawlers", pc'[v] = "brawlers"
               PROVE  Tag(u)' # Tag(v)' \/ job'[u].at # job'[v].at
    BY DEF Apart
  <2>1. CASE u = w  BY <1>3, <1>4, <1>5, <2>1 DEF Moves
  <2>2. CASE v = w  BY <1>3, <1>4, <1>5, <2>2 DEF Moves
  <2>3. CASE u # w /\ v # w  BY <1>3, <2>3 DEF Moves, IInv, Apart
  <2> QED BY <2>1, <2>2, <2>3
<1>8. IsFiniteSet(snapshots)'  BY FS_AddElement DEF IInv
<1>9. ASSUME NEW v \in Worker  PROVE Standing(v)'
  <2>1. CASE v = w /\ pc'[w] = "brawlers"
    <3>1. Standing(w)  BY DEF IInv
    <3>2. SnapshotOf(w, s)'  BY <1>1, <1>4, <2>1 DEF SnapshotOf
    <3> QED BY <1>1, <1>4, <2>1, <3>1, <3>2 DEF Standing
  <2>2. CASE v = w /\ pc'[w] # "brawlers"  BY <2>2, NotIngesting
  <2>3. CASE v # w
    <3>1. Standing(v) /\ \A r : Entered(r)' = Entered(r)  BY DEF IInv, Entered
    <3>2. \A r : SnapshotOf(v, r) => SnapshotOf(v, r)'  BY <1>3, <2>3 DEF SnapshotOf, Moves
    <3>3. pc'[v] = pc[v] /\ job'[v] = job[v] /\ Tag(v)' = Tag(v)  BY <1>3, <2>3 DEF Moves
    <3> QED BY <3>1, <3>2, <3>3, DatingKeeps DEF Standing, SnapshotOf
  <2> QED BY <2>1, <2>2, <2>3
<1>10. ASSUME NEW p \in Player  PROVE Counted(p)'
  <2>1. PICK C \in SUBSET Whole(p) :
          /\ IsFiniteSet(C) /\ Cardinality(C) = crawls[p]
          /\ \A v \in Worker : pc[v] = "brawlers" => \A r \in C : ~SnapshotOf(v, r)
    BY DEF IInv, Counted
  <2>2. Whole(p) \subseteq Whole(p)'  BY DEF Whole, Entered
  <2>3. \A r \in C : r \in snapshots  BY DEF Whole
  <2>4. ASSUME NEW v \in Worker, pc'[v] = "brawlers", NEW r \in C  PROVE ~SnapshotOf(v, r)'
    <3>1. CASE v = w  BY <1>2, <1>4, <2>3, <2>4, <3>1 DEF SnapshotOf
    <3>2. CASE v # w
      BY <1>3, <2>1, <2>3, <2>4, <3>2 DEF SnapshotOf, Moves
    <3> QED BY <3>1, <3>2
  <2> QED BY <2>1, <2>2, <2>4 DEF Counted
<1> QED BY <1>6, <1>7, <1>8, <1>9, <1>10 DEF IInv

\* The count: the snapshot of the worker is whole, and nobody counted it yet.
LEMMA UpdateKeeps ==
    ASSUME IInv, NEW w \in Worker, UpdatePlayerCrawled(w)
    PROVE  IInv'
<1>1. TableTypes /\ LocalTypes /\ Generations /\ Apart /\ Standing(w)
  BY TypeParts DEF IInv
<1>2. pc[w] = "brawlers" /\ job[w].todo = {} /\ Tag(w) \in Player
  BY <1>1 DEF UpdatePlayerCrawled, LocalTypes
<1>3. /\ LocalTypes' /\ Moves(w) /\ pc'[w] \in {"profile", "idle", "finalize"}
      /\ pc'[w] # "idle" => claim'[w] = claim[w]
      /\ pc'[w] = "finalize" => claim[w].gen # 0
  BY <1>1, <1>2, Empty, ExecutedMoves DEF UpdatePlayerCrawled, PC
<1>4. /\ crawls' \in [Player -> Nat]
      /\ \A p \in Player : crawls'[p] = IF p = Tag(w) THEN crawls[p] + 1 ELSE crawls[p]
  BY <1>1, <1>2 DEF UpdatePlayerCrawled, TableTypes
<1>5. UNCHANGED <<catalogue, patches, dated, players, snapshots, entries, queued, targets, delay>>
  BY DEF UpdatePlayerCrawled, reference, queue
<1>6. Types' /\ Generations'
  <2>1. TableTypes'  BY <1>1, <1>4, <1>5 DEF UpdatePlayerCrawled, TableTypes
  <2> QED BY <1>1, <1>2, <1>3, <1>5, <2>1, Working DEF IInv
<1>7. SnapshotsSound'  BY <1>5, SoundKept, DatingKeeps DEF IInv
<1>8. PICK s \in snapshots : SnapshotOf(w, s) /\ s.raw \subseteq Entered(s)
  BY <1>1, <1>2 DEF Standing
<1>9. s \in Whole(Tag(w))  BY <1>8 DEF Whole, SnapshotOf
<1>10. \A v \in Worker \ {w} : /\ pc'[v] = pc[v] /\ job'[v] = job[v] /\ Tag(v)' = Tag(v)
  BY <1>3 DEF Moves, Tag
<1>11. \A v \in Worker \ {w} : \A r : SnapshotOf(v, r)' <=> SnapshotOf(v, r)
  BY <1>5, <1>10 DEF SnapshotOf
<1>12. Apart'  BY <1>1, <1>3, <1>10 DEF Apart
<1>13. ASSUME NEW v \in Worker  PROVE Standing(v)'
  <2>1. CASE v = w  BY <1>3, <2>1, NotIngesting
  <2>2. CASE v # w
    <3>1. Standing(v) /\ \A r : Entered(r)' = Entered(r)  BY <1>5 DEF IInv, Entered
    <3> QED BY <1>5, <1>10, <1>11, <2>2, <3>1, DatingKeeps DEF Standing
  <2> QED BY <2>1, <2>2
<1>14. ASSUME NEW p \in Player  PROVE Counted(p)'
  <2>1. PICK C \in SUBSET Whole(p) :
          /\ IsFiniteSet(C) /\ Cardinality(C) = crawls[p]
          /\ \A v \in Worker : pc[v] = "brawlers" => \A r \in C : ~SnapshotOf(v, r)
    BY DEF IInv, Counted
  <2>2. Whole(p)' = Whole(p)  BY <1>5 DEF Whole, Entered
  <2>3. \A v \in Worker : pc'[v] = "brawlers" => v # w /\ \A r \in C : ~SnapshotOf(v, r)'
    BY <1>3, <1>10, <1>11, <2>1
  <2>4. CASE p # Tag(w)
    <3>1. crawls'[p] = crawls[p]  BY <1>4, <2>4
    <3> QED BY <2>1, <2>2, <2>3, <3>1 DEF Counted
  <2>5. CASE p = Tag(w)
    <3> PICK D : D = C \cup {s}  OBVIOUS
    <3>1. s \notin C  BY <1>2, <1>8, <2>1
    <3>2. IsFiniteSet(D) /\ Cardinality(D) = crawls[p] + 1
      BY <2>1, <3>1, FS_AddElement
    <3>3. D \in SUBSET Whole(p)'  BY <1>9, <2>1, <2>2, <2>5
    <3>4. ASSUME NEW v \in Worker, pc'[v] = "brawlers"  PROVE ~SnapshotOf(v, s)'
      <4>1. v # w /\ pc[v] = "brawlers"  BY <2>3, <1>10, <3>4
      <4>2. ~SnapshotOf(v, s)  BY <1>1, <1>2, <1>8, <4>1 DEF Apart, SnapshotOf
      <4> QED BY <1>11, <4>1, <4>2
    <3>5. crawls'[p] = crawls[p] + 1  BY <1>4, <2>5
    <3> QED BY <2>3, <3>2, <3>3, <3>4, <3>5 DEF Counted
  <2> QED BY <2>4, <2>5
<1> QED BY <1>5, <1>6, <1>7, <1>12, <1>13, <1>14 DEF IInv

\* A brawler row that the catalogue and the snapshot are there for.
LEMMA BrawlerKeeps ==
    ASSUME IInv, NEW w \in Worker, InsertBrawlerSnapshot(w)
    PROVE  IInv'
<1>1. TableTypes /\ LocalTypes /\ Generations /\ Standing(w) /\ SnapshotsSound
  BY TypeParts DEF IInv
<1>2. PICK x \in job[w].todo \cap catalogue :
        /\ entries' = entries \cup {[player |-> Tag(w), at |-> job[w].at, brawler |-> x]}
        /\ Executed(w, "brawlers", [job[w] EXCEPT !.todo = @ \ {x}])
  BY DEF InsertBrawlerSnapshot
<1>3. pc[w] = "brawlers" /\ Tag(w) \in Player /\ job[w] \in Job /\ job[w].at \in Nat
  BY <1>1 DEF InsertBrawlerSnapshot, LocalTypes, Job
<1> PICK mem : mem = [job[w] EXCEPT !.todo = @ \ {x}]  OBVIOUS
<1>4. mem \in Job /\ mem.at = job[w].at /\ mem.todo = job[w].todo \ {x}
  BY <1>3 DEF Job
<1>5. /\ LocalTypes' /\ Moves(w) /\ pc'[w] \in {"brawlers", "idle", "finalize"}
      /\ pc'[w] # "idle" => claim'[w] = claim[w]
      /\ pc'[w] = "finalize" => claim[w].gen # 0
      /\ pc'[w] = "brawlers" => job'[w] = mem
  BY <1>1, <1>2, <1>3, <1>4, ExecutedMoves DEF PC
<1>6. UNCHANGED <<now, catalogue, patches, dated, players, crawls, snapshots, queued, targets, delay>>
  BY DEF InsertBrawlerSnapshot, reference, queue
<1> PICK e : e = [player |-> Tag(w), at |-> job[w].at, brawler |-> x]  OBVIOUS
<1>7. e \in Entry /\ e.player = Tag(w) /\ e.at = job[w].at /\ e.brawler = x
  BY <1>1, <1>3 DEF Entry, TableTypes
<1>8. entries' = entries \cup {e}  BY <1>2
<1>9. Types' /\ Generations'
  <2>1. TableTypes'  BY <1>1, <1>6, <1>7, <1>8 DEF TableTypes
  <2> QED BY <1>1, <1>3, <1>5, <1>6, <2>1, Working DEF IInv
<1>10. PICK s \in snapshots : /\ SnapshotOf(w, s) /\ job[w].todo \subseteq s.raw
                             /\ s.raw \ job[w].todo \subseteq Entered(s)
  BY <1>1, <1>3 DEF Standing
<1>11. SnapshotsSound'
  <2>1. \E r \in snapshots : r.player = e.player /\ r.at = e.at /\ e.brawler \in r.raw
    BY <1>7, <1>10 DEF SnapshotOf
  <2> QED BY <1>1, <1>6, <1>7, <1>8, <2>1, DatingKeeps DEF SnapshotsSound
<1>12. Standing(w)'
  <2>1. CASE pc'[w] = "brawlers"
    <3>1. Tag(w)' = Tag(w) /\ job'[w].at = job[w].at /\ job'[w].todo = job[w].todo \ {x}
      BY <1>4, <1>5, <2>1 DEF Tag
    <3>2. SnapshotOf(w, s)' /\ Tag(w) \in players
      BY <1>1, <1>3, <1>6, <1>10, <3>1 DEF SnapshotOf, Standing
    <3>3. Entered(s)' = Entered(s) \cup {x}
      BY <1>7, <1>8, <1>10 DEF Entered, SnapshotOf
    <3> QED BY <1>6, <1>10, <2>1, <3>1, <3>2, <3>3 DEF Standing
  <2>2. CASE pc'[w] # "brawlers"  BY <1>5, <2>2, NotIngesting
  <2> QED BY <2>1, <2>2
<1>13. pc'[w] = "brawlers" => claim'[w] = claim[w] /\ job'[w].at = job[w].at
  BY <1>4, <1>5
<1> QED BY <1>3, <1>5, <1>6, <1>8, <1>9, <1>11, <1>12, <1>13, QuietWorker, DatingKeeps

\* A step of a worker that touches no profile table but the identities.
LEMMA PlainStep ==
    ASSUME IInv, NEW w \in Worker, Types', Generations', Moves(w), Standing(w)',
           pc'[w] # "brawlers", players \subseteq players',
           UNCHANGED <<catalogue, patches, dated, snapshots, entries, crawls>>
    PROVE  IInv'
<1>1. SnapshotsSound'  BY SoundKept, DatingKeeps DEF IInv
<1> QED BY <1>1, QuietWorker, DatingKeeps

\* A worker that ends, or goes to its finalize, without a table.
LEMMA EndKeeps ==
    ASSUME IInv, NEW w \in Worker, pc[w] # "idle", NEW s \in Status,
           EndWith(w, s) \/ Leave(w), UNCHANGED <<now, reference, profiles, queue>>
    PROVE  IInv'
<1>1. TableTypes /\ LocalTypes /\ Generations  BY TypeParts DEF IInv
<1>2. /\ LocalTypes' /\ Moves(w) /\ pc'[w] \in {"idle", "finalize"}
      /\ pc'[w] # "idle" => claim'[w] = claim[w] /\ claim[w].gen # 0
  BY <1>1, EndWithMoves, LeaveMoves
<1>3. UNCHANGED <<now, catalogue, patches, dated, players, crawls, snapshots, entries, queued, targets>>
  BY DEF reference, profiles, queue
<1>4. Types' /\ Generations'
  <2>1. TableTypes'  BY <1>1, <1>3 DEF TableTypes
  <2> QED BY <1>1, <1>2, <1>3, <2>1, Working DEF IInv
<1>5. Standing(w)'  BY <1>2, NotIngesting
<1> QED BY <1>2, <1>3, <1>4, <1>5, PlainStep

\* A worker that goes on, without a table, to where it stands for nothing.
LEMMA GoKeeps ==
    ASSUME IInv, NEW w \in Worker, pc[w] # "idle", NEW next \in {"upsert", "profile"},
           Goto(w, next, NoJob), UNCHANGED <<now, reference, profiles, queue>>
    PROVE  IInv'
<1>1. TableTypes /\ LocalTypes /\ Generations  BY TypeParts DEF IInv
<1>2. LocalTypes' /\ Moves(w) /\ pc'[w] = next /\ claim'[w] = claim[w]
  BY <1>1, Empty, GotoMoves DEF PC
<1>3. UNCHANGED <<now, catalogue, patches, dated, players, crawls, snapshots, entries, queued, targets>>
  BY DEF reference, profiles, queue
<1>4. Types' /\ Generations'
  <2>1. TableTypes'  BY <1>1, <1>3 DEF TableTypes
  <2> QED BY <1>1, <1>2, <1>3, <2>1, Working DEF IInv
<1>5. Standing(w)'  BY <1>2, NotIngesting
<1> QED BY <1>2, <1>3, <1>4, <1>5, PlainStep

LEMMA CollectKeeps ==
    ASSUME IInv, NEW w \in Worker, NEW p \in Player, CollectPlayer(w, p)
    PROVE  IInv'
<1>1. TableTypes /\ LocalTypes /\ Generations  BY TypeParts DEF IInv
<1> PICK c : c = [NoClaim EXCEPT !.tag = p]  OBVIOUS
<1>2. c \in Claim /\ c.tag = p /\ c.gen = 0
  BY Empty DEF NoClaim, Claim
<1>3. claim' = [claim EXCEPT ![w] = c] /\ pc' = [pc EXCEPT ![w] = "fetch"] /\ job' = job
  BY DEF CollectPlayer
<1>4. /\ LocalTypes' /\ Moves(w) /\ pc'[w] = "fetch" /\ claim'[w].gen = 0
  BY <1>1, <1>2, <1>3 DEF LocalTypes, Moves, PC, Tag
<1>5. UNCHANGED <<now, catalogue, patches, dated, players, crawls, snapshots, entries, queued, targets>>
  BY DEF CollectPlayer, reference, profiles, queue
<1>6. Types' /\ Generations'
  <2>1. TableTypes'  BY <1>1, <1>5 DEF TableTypes
  <2>2. \A v \in Worker : pc'[v] # "idle" /\ claim'[v].gen # 0 =>
          pc[v] # "idle" /\ claim'[v] = claim[v]
    BY <1>4 DEF Moves
  <2>3. \A v \in Worker : pc'[v] = "finalize" => claim'[v].gen # 0
    BY <1>1, <1>4 DEF Moves, Generations, Collecting
  <2> QED BY <1>1, <1>4, <1>5, <2>1, <2>2, <2>3, GenerationsKept, TypeParts
<1>7. Standing(w)'  BY <1>4, NotIngesting
<1> QED BY <1>4, <1>5, <1>6, <1>7, PlainStep

LEMMA ClaimKeeps ==
    ASSUME IInv, NEW w \in Worker, NEW p \in Player, ClaimTarget(w, p)
    PROVE  IInv'
<1>1. LocalTypes  BY TypeParts DEF IInv
<1>2. Types' /\ Generations'  BY ClaimGenerations DEF IInv
<1>3. Moves(w) /\ pc'[w] = "fetch"  BY <1>1 DEF ClaimTarget, LocalTypes, Moves
<1>4. UNCHANGED <<catalogue, patches, dated, players, crawls, snapshots, entries>>
  BY DEF ClaimTarget, reference, profiles
<1>5. Standing(w)'  BY <1>3, NotIngesting
<1> QED BY <1>2, <1>3, <1>4, <1>5, PlainStep

LEMMA FinalizeKeeps ==
    ASSUME IInv, NEW w \in Worker, FinalizeCrawl(w)
    PROVE  IInv'
<1>1. LocalTypes  BY TypeParts DEF IInv
<1>2. Types' /\ Generations'  BY FinalizeGenerations DEF IInv
<1>3. Moves(w) /\ pc'[w] = "idle"  BY <1>1, LeaveMoves DEF FinalizeCrawl
<1>4. UNCHANGED <<catalogue, patches, dated, players, crawls, snapshots, entries>>
  BY DEF FinalizeCrawl, reference, profiles
<1>5. Standing(w)'  BY <1>3, NotIngesting
<1> QED BY <1>2, <1>3, <1>4, <1>5, PlainStep

LEMMA UpsertKeeps ==
    ASSUME IInv, NEW w \in Worker, Upsert(w)
    PROVE  IInv'
<1>1. TableTypes /\ LocalTypes /\ Generations  BY TypeParts DEF IInv
<1>2. pc[w] = "upsert" /\ job[w] \in Job /\ Tag(w) \in Player
  BY <1>1 DEF Upsert, LocalTypes
<1>3. /\ LocalTypes' /\ Moves(w) /\ pc'[w] \in {"patch", "idle", "finalize"}
      /\ pc'[w] # "idle" => claim'[w] = claim[w]
      /\ pc'[w] = "finalize" => claim[w].gen # 0
  BY <1>1, <1>2, ExecutedMoves DEF Upsert, PC
<1>4. players' = players \cup {Tag(w)}  BY DEF Upsert, UpsertPlayer
<1>5. UNCHANGED <<now, catalogue, patches, dated, crawls, snapshots, entries, queued, targets>>
  BY DEF Upsert, reference, queue
<1>6. Types' /\ Generations'
  <2>1. TableTypes'  BY <1>1, <1>2, <1>4, <1>5 DEF TableTypes
  <2> QED BY <1>1, <1>2, <1>3, <1>5, <2>1, Working DEF IInv
<1>7. Standing(w)'
  <2>1. CASE pc'[w] = "patch"  BY <1>3, <1>4, <2>1 DEF Standing, Tag
  <2>2. CASE pc'[w] # "patch"  BY <1>3, <2>2, NotIngesting
  <2> QED BY <2>1, <2>2
<1> QED BY <1>3, <1>4, <1>5, <1>6, <1>7, PlainStep

LEMMA LookupKeeps ==
    ASSUME IInv, NEW w \in Worker, LookupPatch(w)
    PROVE  IInv'
<1>1. TableTypes /\ LocalTypes /\ Generations /\ Standing(w)  BY TypeParts DEF IInv
<1>2. pc[w] = "patch" /\ job[w] \in Job /\ Tag(w) \in players
  BY <1>1 DEF LookupPatch, LocalTypes, Standing
<1>3. PICK id \in PatchIDForTime(now) \cup {NoPatch} :
        Goto(w, "insert", [job[w] EXCEPT !.at = now, !.patch = id])
  BY DEF LookupPatch
<1>4. id # NoPatch => \E x \in patches : x.id = id /\ x.released <= now
  BY DEF PatchIDForTime, Released
<1>5. /\ id \in Patch \cup {NoPatch}
      /\ id # NoPatch => OfItsTime(id, now)
  BY <1>1, <1>4 DEF TableTypes, OfItsTime
<1> PICK mem : mem = [job[w] EXCEPT !.at = now, !.patch = id]  OBVIOUS
<1>6. mem \in Job /\ mem.at = now /\ mem.patch = id
  BY <1>1, <1>2, <1>5 DEF Job, TableTypes
<1>7. LocalTypes' /\ Moves(w) /\ pc'[w] = "insert" /\ claim'[w] = claim[w] /\ job'[w] = mem
  BY <1>1, <1>2, <1>3, <1>6, GotoMoves DEF PC
<1>8. UNCHANGED <<now, catalogue, patches, dated, players, crawls, snapshots, entries, queued, targets>>
  BY DEF LookupPatch, reference, profiles, queue
<1>9. Types' /\ Generations'
  <2>1. TableTypes'  BY <1>1, <1>8 DEF TableTypes
  <2> QED BY <1>1, <1>2, <1>7, <1>8, <2>1, Working DEF IInv
<1>10. Standing(w)'
  BY <1>2, <1>4, <1>6, <1>7, <1>5, <1>8, DatingKeeps DEF Standing, Tag
<1> QED BY <1>7, <1>8, <1>9, <1>10, PlainStep

LEMMA InsertKeeps ==
    ASSUME IInv, NEW w \in Worker, InsertPlayerSnapshot(w)
    PROVE  IInv'
<1>1. TableTypes /\ LocalTypes /\ Generations  BY TypeParts DEF IInv
<1>2. pc[w] = "insert" /\ job[w] \in Job /\ Tag(w) \in Player
  BY <1>1 DEF InsertPlayerSnapshot, LocalTypes
<1>3. UNCHANGED <<now, catalogue, patches, dated, players, crawls, entries, queued, targets, delay>>
  BY DEF InsertPlayerSnapshot, reference, queue
<1>4. CASE Goto(w, "profile", NoJob) /\ UNCHANGED snapshots
  BY <1>2, <1>3, <1>4, GoKeeps DEF reference, profiles, queue
<1>5. ASSUME NEW raw \in SUBSET Brawler, ~HasSnapshot(Tag(w), job[w].at),
             snapshots' = snapshots \cup {[player |-> Tag(w), at |-> job[w].at,
                                           patch |-> job[w].patch, raw |-> raw]},
             Executed(w, "brawlers", [NoJob EXCEPT !.at = job[w].at, !.todo = raw])
      PROVE  IInv'
  <2> PICK mem : mem = [NoJob EXCEPT !.at = job[w].at, !.todo = raw]  OBVIOUS
  <2> PICK s : s = [player |-> Tag(w), at |-> job[w].at, patch |-> job[w].patch, raw |-> raw]
    OBVIOUS
  <2>1. mem \in Job /\ s \in Snapshot
    BY <1>2, Empty DEF NoJob, Job, Snapshot
  <2>2. /\ LocalTypes' /\ Moves(w) /\ pc'[w] \in {"brawlers", "idle", "finalize"}
        /\ pc'[w] # "idle" => claim'[w] = claim[w]
        /\ pc'[w] = "finalize" => claim[w].gen # 0
        /\ pc'[w] = "brawlers" => job'[w] = mem
    BY <1>1, <1>2, <1>5, <2>1, ExecutedMoves DEF PC
  <2>3. Types' /\ Generations'
    <3>1. TableTypes'  BY <1>1, <1>3, <1>5, <2>1 DEF TableTypes
    <3> QED BY <1>1, <1>2, <1>3, <2>2, <3>1, Working DEF IInv
  <2> QED BY <1>2, <1>3, <1>5, <2>2, <2>3, NewSnapshot
<1> QED BY <1>4, <1>5 DEF InsertPlayerSnapshot

\* Of a target it sets the priority and that it is classified, if anything.
LEMMA ProfileTargets ==
    ASSUME Types, NEW w \in Worker, UpdateProfile(w) \/ UpdateProfileError(w)
    PROVE  /\ targets' \in [Player -> Target]
           /\ \A p \in Player : /\ targets'[p].gen = targets[p].gen
                                /\ targets'[p].failures = targets[p].failures
<1>1. TableTypes /\ LocalTypes  BY TypeParts
<1>2. Tag(w) \in Player  BY <1>1 DEF UpdateProfile, UpdateProfileError, LocalTypes
<1>3. \A t \in Target, q \in Priority :
        LET u == [t EXCEPT !.priority = q, !.classified = TRUE]
        IN u \in Target /\ u.gen = t.gen /\ u.failures = t.failures
  BY DEF Target
<1>4. CASE UpdateProfile(w)
  <2>1. PICK t \in Trophies : SetPriority(w, t)  BY <1>4 DEF UpdateProfile
  <2> PICK q \in Priority : q = PriorityForTrophies(t)  BY PriorityType, NumbersAssumption
  <2> PICK old \in Target : old = targets[Tag(w)]  BY <1>1, <1>2 DEF TableTypes
  <2> PICK new : new = [old EXCEPT !.priority = q, !.classified = TRUE]  OBVIOUS
  <2>2. new \in Target /\ new.gen = old.gen /\ new.failures = old.failures  BY <1>3
  <2>3. targets' = targets \/ targets' = [targets EXCEPT ![Tag(w)] = new]
    BY <2>1 DEF SetPriority
  <2> QED BY <1>1, <1>2, <2>2, <2>3 DEF TableTypes
<1>5. CASE UpdateProfileError(w)
  BY <1>1, <1>5 DEF UpdateProfileError, queue, TableTypes
<1> QED BY <1>4, <1>5

\* What the classification or the re-crawl writes of a target fences nobody.
LEMMA ProfileKeeps ==
    ASSUME IInv, NEW w \in Worker, UpdateProfile(w) \/ UpdateProfileError(w)
    PROVE  IInv'
<1>1. TableTypes /\ LocalTypes /\ Generations  BY TypeParts DEF IInv
<1>2. pc[w] = "profile" /\ Tag(w) \in Player /\ claim[w].gen # 0 /\ claim[w].priority \in Priority
  BY <1>1 DEF UpdateProfile, UpdateProfileError, LocalTypes, Collecting, Claim
<1>3. \A t \in Trophies : PriorityForTrophies(t) \in Priority
  BY PriorityType, NumbersAssumption
<1>4. PICK mem \in Job : Goto(w, "finalize", mem)
  <2>1. \A s \in CrawlOutcome(w), q \in Priority :
          [NoJob EXCEPT !.outcome = s, !.priority = q] \in Job
    BY Empty DEF CrawlOutcome, Status, NoJob, Job
  <2>2. CASE UpdateProfile(w)
    <3>1. PICK t \in Trophies : \E s \in CrawlOutcome(w),
                                  q \in {PriorityForTrophies(t), claim[w].priority} :
            Goto(w, "finalize", [NoJob EXCEPT !.outcome = s, !.priority = q])
      BY <2>2 DEF UpdateProfile
    <3> QED BY <1>2, <1>3, <2>1, <3>1
  <2>3. CASE UpdateProfileError(w)  BY <1>2, <2>1, <2>3 DEF UpdateProfileError
  <2> QED BY <2>2, <2>3
<1>5. LocalTypes' /\ Moves(w) /\ pc'[w] = "finalize" /\ claim'[w] = claim[w]
  BY <1>1, <1>2, <1>4, GotoMoves DEF PC
<1>6. UNCHANGED <<now, catalogue, patches, dated, players, crawls, snapshots, entries, queued>>
  BY DEF UpdateProfile, UpdateProfileError, reference, profiles, queue
<1>7. /\ targets' \in [Player -> Target]
      /\ \A p \in Player : targets'[p].gen = targets[p].gen /\ targets'[p].failures = targets[p].failures
  BY ProfileTargets DEF IInv
<1>8. Types' /\ Generations'
  <2>1. TableTypes'  BY <1>1, <1>6, <1>7 DEF TableTypes
  <2> QED BY <1>1, <1>2, <1>5, <1>7, <2>1, Working DEF IInv
<1>9. Standing(w)'  BY <1>5, NotIngesting
<1> QED BY <1>5, <1>6, <1>8, <1>9, PlainStep

-----------------------------------------------------------------------------
(* The steps together.                                                     *)

LEMMA WorkerKeeps ==
    ASSUME IInv, NEW w \in Worker, Step(w)
    PROVE  IInv'
<1>1. ASSUME NEW p \in Player, ClaimTarget(w, p) \/ CollectPlayer(w, p)  PROVE IInv'
  BY <1>1, ClaimKeeps, CollectKeeps
<1>2. CASE Fetch(w)  BY <1>2, GoKeeps DEF Fetch
<1>3. CASE FetchError(w)
  <2>1. PICK s \in {"not_found", "rate_limited", "error"} : EndWith(w, s)
    BY <1>3 DEF FetchError
  <2>2. s \in Status  BY DEF Status
  <2> QED BY <1>3, <2>1, <2>2, EndKeeps DEF FetchError
<1>4. "error" \in Status  BY DEF Status
<1>5. CASE Abandon(w) \/ InsertRefused(w) \/ IngestError(w) \/ CollectDone(w) \/ FinalizeNoEffect(w)
  BY <1>4, <1>5, EndKeeps DEF Abandon, InsertRefused, IngestError, CollectDone, FinalizeNoEffect
<1>6. CASE UpdateProfile(w) \/ UpdateProfileError(w)  BY <1>6, ProfileKeeps
<1> QED BY <1>1, <1>2, <1>3, <1>5, <1>6, UpsertKeeps, LookupKeeps, InsertKeeps, BrawlerKeeps,
           UpdateKeeps, FinalizeKeeps DEF Step

\* What goes on without the workers.
LEMMA WorldKeeps ==
    ASSUME IInv, UNCHANGED <<pc, claim, job>>, TableTypes', SnapshotsSound',
           players \subseteq players', Dating,
           UNCHANGED <<snapshots, entries, crawls, targets>>
    PROVE  IInv'
<1>1. LocalTypes  BY TypeParts DEF IInv
<1>2. LocalTypes'  BY <1>1 DEF LocalTypes, Tag
<1>3. Generations'
  BY DEF IInv, Generations, FailuresNotStale, Holding, Collecting, Current, Tag
<1> PICK W \in SUBSET Worker : W = {}  OBVIOUS
<1> QED BY <1>2, <1>3, TypeParts, Quiet

LEMMA EnvironmentKeeps ==
    ASSUME IInv,
           \/ Tick
           \/ \E x \in Brawler : AddBrawler(x)
           \/ \E id \in Patch : UpsertPatch(id)
           \/ \E p \in Player : Discover(p)
           \/ UNCHANGED vars
    PROVE  IInv'
<1>1. TableTypes /\ SnapshotsSound  BY TypeParts DEF IInv
<1>2. CASE Tick
  <2>1. TableTypes'  BY <1>1, <1>2 DEF Tick, TableTypes, reference, profiles, queue
  <2> QED BY <1>1, <1>2, <2>1, SoundKept, WorldKeeps, DatingKeeps DEF Tick, reference, profiles, queue
<1>3. ASSUME NEW x \in Brawler, AddBrawler(x)  PROVE IInv'
  <2>1. TableTypes'  BY <1>1, <1>3 DEF AddBrawler, TableTypes, profiles, queue
  <2> QED BY <1>1, <1>3, <2>1, SoundKept, WorldKeeps, DatingKeeps DEF AddBrawler, profiles, queue
<1>4. ASSUME NEW id \in Patch, UpsertPatch(id)  PROVE IInv'
  <2>0. PICK t \in Dates :
            \E row : /\ row = [id |-> id, released |-> t]
                     /\ patches' = {x \in patches : x.id # id} \cup {row}
                     /\ dated' = dated \cup {row}
    BY <1>4 DEF UpsertPatch
  <2>1. PICK row : /\ row = [id |-> id, released |-> t]
                   /\ patches' = {x \in patches : x.id # id} \cup {row}
                   /\ dated' = dated \cup {row}
    BY <2>0
  <2>2. row \in [id : Patch, released : Nat] /\ row.id = id
    BY <2>1, NumbersAssumption
  <2>3. TableTypes'  BY <1>1, <1>4, <2>1, <2>2 DEF UpsertPatch, TableTypes, profiles, queue
  <2>4. Dating  BY <2>1, <2>2 DEF Dating
  <2> QED BY <1>1, <1>4, <2>3, <2>4, SoundKept, WorldKeeps DEF UpsertPatch, profiles, queue
<1>5. ASSUME NEW p \in Player, Discover(p)  PROVE IInv'
  <2>1. TableTypes'  BY <1>1, <1>5 DEF Discover, TableTypes, reference
  <2> QED BY <1>1, <1>5, <2>1, SoundKept, WorldKeeps, DatingKeeps DEF Discover, reference
<1>6. CASE UNCHANGED vars
  <2>1. TableTypes'  BY <1>1, <1>6 DEF vars, TableTypes, reference, profiles, queue
  <2> QED BY <1>1, <1>6, <2>1, SoundKept, WorldKeeps, DatingKeeps DEF vars, reference, profiles, queue
<1> QED BY <1>2, <1>3, <1>4, <1>5, <1>6

LEMMA InitKeeps == Init => IInv
<1> SUFFICES ASSUME Init  PROVE IInv
  OBVIOUS
<1>1. \A w \in Worker : pc[w] = "idle"  BY DEF Init
<1>2. TableTypes
  <2>1. PICK n \in StartFailures :
          targets = [p \in Player |->
            [priority |-> DiscoveryPriority, gen |-> 0, failures |-> n,
             status |-> IF n = 0 THEN "none" ELSE "rate_limited",
             active |-> TRUE, classified |-> FALSE]]
    BY DEF Init
  <2>2. targets \in [Player -> Target]
    BY <2>1, NumbersAssumption DEF Target, Status, Priority, DiscoveryPriority
  <2>3. [id : Patch, released : Dates] \subseteq [id : Patch, released : Nat]
    BY NumbersAssumption
  <2>4. patches \subseteq dated /\ dated \subseteq [id : Patch, released : Nat]
    BY <2>3 DEF Init
  <2> QED BY <2>2, <2>4 DEF Init, TableTypes
<1>3. LocalTypes  BY Empty DEF Init, LocalTypes, PC
<1>4. SnapshotsSound /\ IsFiniteSet(snapshots)  BY FS_EmptySet DEF Init, SnapshotsSound
<1>5. Apart /\ Generations /\ \A w \in Worker : Standing(w)
  BY <1>1 DEF Apart, Generations, FailuresNotStale, Holding, Standing
<1>6. ASSUME NEW p \in Player  PROVE Counted(p)
  <2>1. {} \in SUBSET Whole(p) /\ crawls[p] = 0  BY DEF Init
  <2> QED BY <1>1, <2>1, FS_EmptySet DEF Counted
<1> QED BY <1>2, <1>3, <1>4, <1>5, <1>6, TypeParts DEF IInv

THEOREM Inductive == Spec => []IInv
<1>1. IInv /\ [Next]_vars => IInv'
  BY WorkerKeeps, EnvironmentKeeps DEF Next
<1> QED BY <1>1, InitKeeps, PTL DEF Spec

\* However many writers fail, collide or lose a reply, crawl_count never counts a
\* crawl whose profile was not stored whole.
THEOREM CountsAreHonest == Spec => []CountIsHonest
<1>1. IInv => CountIsHonest
  <2> SUFFICES ASSUME IInv, NEW p \in Player  PROVE crawls[p] <= Cardinality(Whole(p))
    BY DEF CountIsHonest
  <2>1. IsFiniteSet(Whole(p))  BY FS_Subset DEF IInv, Whole
  <2>2. PICK C \in SUBSET Whole(p) : Cardinality(C) = crawls[p]  BY DEF IInv, Counted
  <2> QED BY <2>1, <2>2, FS_Subset
<1> QED BY <1>1, Inductive, PTL

\* Every snapshot and brawler row has what it refers to, and a patch that it is
\* attributed to was dated before it, whatever the registry made of that date since.
THEOREM SnapshotsAreSound == Spec => []SnapshotsSound
<1>1. IInv => SnapshotsSound  BY DEF IInv
<1> QED BY <1>1, Inductive, PTL

\* A failure count that was read with a claim is not stale when it is written.
THEOREM FailuresAreNotStale == Spec => []FailuresNotStale
<1>1. IInv => FailuresNotStale  BY DEF IInv, Generations
<1> QED BY <1>1, Inductive, PTL

\* Late workers or not, a target's failures go up by one, stay, or are reset.
THEOREM FailuresGoStepwise == Spec => FailuresStepwise
<1> DEFINE Stepwise == \A p \in Player : targets'[p].failures
                          \in {0, targets[p].failures, targets[p].failures + 1}
<1>1. IInv /\ [Next]_vars => [Stepwise]_vars
  <2> SUFFICES ASSUME IInv, Next  PROVE Stepwise
    OBVIOUS
  <2>1. ASSUME NEW w \in Worker, Step(w)  PROVE Stepwise
    <3>1. Types /\ Generations /\ TableTypes  BY TypeParts DEF IInv
    <3>2. CASE targets' = targets  BY <3>1, <3>2 DEF TableTypes
    <3>3. CASE \E p \in Player : ClaimTarget(w, p)
      <4>1. PICK p \in Player : targets' = [targets EXCEPT ![p].gen = @ + 1]
        BY <3>3 DEF ClaimTarget
      <4>2. \A q \in Player : targets'[q].failures = targets[q].failures
        BY <3>1, <4>1 DEF TableTypes, Target
      <4> QED BY <4>2
    <3>4. CASE UpdateProfile(w) \/ UpdateProfileError(w)  BY <3>1, <3>4, ProfileTargets
    <3>5. CASE FinalizeCrawl(w)  BY <3>1, <3>5, FinalizeGenerations
    <3>6. CASE Step(w) /\ ~(\E p \in Player : ClaimTarget(w, p)) /\ ~UpdateProfile(w)
               /\ ~UpdateProfileError(w) /\ ~FinalizeCrawl(w)
      <4>1. targets' = targets
        BY <3>6 DEF Step, CollectPlayer, Fetch, FetchError, Abandon, Upsert, LookupPatch,
                    InsertPlayerSnapshot, InsertBrawlerSnapshot, InsertRefused,
                    UpdatePlayerCrawled, IngestError, CollectDone, FinalizeNoEffect, queue
      <4> QED BY <3>2, <4>1
    <3> QED BY <2>1, <3>3, <3>4, <3>5, <3>6
  <2>2. CASE ~\E w \in Worker : Step(w)
    BY <2>2 DEF Next, Tick, AddBrawler, UpsertPatch, Discover, queue
  <2> QED BY <2>1, <2>2
<1> QED BY <1>1, Inductive, PTL DEF Spec, FailuresStepwise

-----------------------------------------------------------------------------
(* The delays.                                                             *)

\* A failure and the delay that it costs are written together, from the count that
\* the claim read; nothing else writes either.
Delays == delay \in [Player -> Nat] /\ BackoffIsExact

LEMMA NextDelayIsExact ==
    ASSUME LocalTypes, NEW w \in Worker, NEW d \in NextDelay(w)
    PROVE  /\ d \in Nat
           /\ job[w].outcome = "error" =>
                \E base \in {baseInterval(q) : q \in Priority} :
                    d = IF 2^claim[w].failures > MaxBackoff \div base THEN MaxBackoff
                        ELSE base * 2^claim[w].failures
<1>1. claim[w].failures \in Nat /\ claim[w].priority \in Priority /\ job[w].priority \in Priority
  BY DEF LocalTypes, Claim, Job
<1>2. CASE job[w].outcome = "error"
  <2> PICK base \in {240, 480, 1440, 4320} : base = baseInterval(claim[w].priority)
    BY <1>1, BaseInterval
  <2> PICK n \in Nat : n = claim[w].failures  BY <1>1
  <2>1. d \in backoffDuration(base, n)  BY <1>2 DEF NextDelay
  <2>2. d = IF 2^n > MaxBackoff \div base THEN MaxBackoff ELSE base * 2^n
    BY <2>1, BackoffValue
  <2>3. d \in base..MaxBackoff  BY <2>1, BackoffValue
  <2>4. d \in Nat  BY <2>3 DEF MaxBackoff, Hour
  <2> QED BY <1>1, <2>2, <2>4
<1>3. CASE job[w].outcome # "error"
  <2>1. baseInterval(job[w].priority) \in Nat  BY <1>1, BaseInterval
  <2>2. d \in {24 * Hour, 5, baseInterval(job[w].priority)}  BY <1>3 DEF NextDelay
  <2> QED BY <1>3, <2>1, <2>2 DEF Hour
<1> QED BY <1>2, <1>3

LEMMA FinalizeDelays ==
    ASSUME IInv, Delays, NEW w \in Worker, FinalizeCrawl(w)
    PROVE  Delays'
<1> PICK p : p = Tag(w)  OBVIOUS
<1> PICK n : n = NextFailures(w)  OBVIOUS
<1> PICK o : o = job[w].outcome  OBVIOUS
<1>1. TableTypes /\ LocalTypes /\ pc[w] = "finalize" /\ p \in Player /\ claim[w].failures \in Nat
  BY TypeParts DEF IInv, FinalizeCrawl, LocalTypes, Claim
<1>2. PICK d \in NextDelay(w) : delay' = [delay EXCEPT ![p] = d]
  BY DEF FinalizeCrawl
<1>3. d \in Nat  BY <1>1, NextDelayIsExact
<1>4. /\ \A q \in Player \ {p} : targets'[q] = targets[q]
      /\ targets'[p].status = o /\ targets'[p].failures = n
  BY <1>1 DEF FinalizeCrawl, TableTypes, Target
<1>5. delay' \in [Player -> Nat] /\ delay'[p] = d /\ \A q \in Player \ {p} : delay'[q] = delay[q]
  BY <1>1, <1>2, <1>3 DEF Delays
<1>6. BackoffIsExact'
  <2> SUFFICES ASSUME NEW q \in Player, targets'[q].status = "error"
               PROVE  \E base \in {baseInterval(r) : r \in Priority} :
                        LET k == targets'[q].failures - 1
                        IN delay'[q] = IF 2^k > MaxBackoff \div base THEN MaxBackoff
                                       ELSE base * 2^k
    BY DEF BackoffIsExact
  <2>1. CASE q = p
    <3>1. n = claim[w].failures + 1  BY <1>4, <2>1 DEF NextFailures
    <3>2. n - 1 = claim[w].failures  BY <1>1, <3>1
    <3> QED BY <1>1, <1>4, <1>5, <2>1, <3>2, NextDelayIsExact
  <2>2. CASE q # p  BY <1>4, <1>5, <2>2 DEF Delays, BackoffIsExact
  <2> QED BY <2>1, <2>2
<1> QED BY <1>5, <1>6 DEF Delays

\* No other step sets a delay, a status or a failure count.
LEMMA OthersKeepDelays ==
    ASSUME IInv, Delays, [Next]_vars, \A w \in Worker : ~FinalizeCrawl(w)
    PROVE  Delays'
<1>1. TableTypes  BY TypeParts DEF IInv
<1>2. delay' = delay
  <2>1. CASE UNCHANGED vars  BY <2>1 DEF vars, queue
  <2>2. ASSUME NEW w \in Worker, Step(w)  PROVE delay' = delay
    BY <2>2 DEF Step, ClaimTarget, CollectPlayer, Fetch, FetchError, Abandon, Upsert,
                LookupPatch, InsertPlayerSnapshot, InsertBrawlerSnapshot, InsertRefused,
                UpdatePlayerCrawled, IngestError, UpdateProfile, UpdateProfileError,
                CollectDone, FinalizeNoEffect, queue
  <2>3. CASE Tick \/ (\E x \in Brawler : AddBrawler(x)) \/ (\E id \in Patch : UpsertPatch(id))
             \/ (\E p \in Player : Discover(p))
    BY <2>3 DEF Tick, AddBrawler, UpsertPatch, Discover, queue
  <2> QED BY <2>1, <2>2, <2>3 DEF Next
<1>3. ASSUME NEW p \in Player
      PROVE  targets'[p].status = targets[p].status /\ targets'[p].failures = targets[p].failures
  <2>1. CASE targets' = targets  BY <2>1
  <2>2. ASSUME NEW w \in Worker, NEW q \in Player, ClaimTarget(w, q)
        PROVE  targets'[p].status = targets[p].status /\ targets'[p].failures = targets[p].failures
    BY <1>1, <2>2 DEF ClaimTarget, TableTypes, Target
  <2>3. ASSUME NEW w \in Worker, NEW t \in Trophies, SetPriority(w, t)
        PROVE  targets'[p].status = targets[p].status /\ targets'[p].failures = targets[p].failures
    BY <1>1, <2>3 DEF SetPriority, TableTypes, Target
  <2>4. ASSUME NEW w \in Worker, Step(w)
        PROVE  \/ targets' = targets
               \/ \E q \in Player : ClaimTarget(w, q)
               \/ \E t \in Trophies : SetPriority(w, t)
    BY <2>4 DEF Step, CollectPlayer, Fetch, FetchError, Abandon, Upsert,
                LookupPatch, InsertPlayerSnapshot, InsertBrawlerSnapshot, InsertRefused,
                UpdatePlayerCrawled, IngestError, UpdateProfile, UpdateProfileError,
                CollectDone, FinalizeNoEffect, queue
  <2>5. CASE ~\E w \in Worker : Step(w)
    <3>1. targets' = targets
      BY <2>5 DEF Next, Tick, AddBrawler, UpsertPatch, Discover, queue, vars
    <3> QED BY <3>1
  <2> QED BY <2>1, <2>2, <2>3, <2>4, <2>5
<1>4. BackoffIsExact'
  BY <1>2, <1>3 DEF Delays, BackoffIsExact
<1> QED BY <1>2, <1>4 DEF Delays

THEOREM DelaysHold == Spec => []Delays
<1>1. Init => Delays
  BY DEF Init, Delays, BackoffIsExact
<1>2. IInv /\ Delays /\ [Next]_vars => Delays'
  BY FinalizeDelays, OthersKeepDelays
<1> QED BY <1>1, <1>2, Inductive, PTL DEF Spec

\* The tables keep their types, and a negative delay is never written.
THEOREM TypesHold == Spec => []TypeOK
<1>1. IInv /\ Delays => TypeOK  BY DEF IInv, Delays, TypeOK
<1> QED BY <1>1, Inductive, DelaysHold, PTL

\* A target that failed waits for exactly the least of 2^n times its interval and a
\* week, for any number of failures and whoever wrote the row in between.
THEOREM BackoffsAreExact == Spec => []BackoffIsExact
<1>1. Delays => BackoffIsExact  BY DEF Delays
<1> QED BY <1>1, DelaysHold, PTL
=============================================================================
