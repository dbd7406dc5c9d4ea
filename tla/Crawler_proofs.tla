--------------------------- MODULE Crawler_proofs ---------------------------
(***************************************************************************)
(* Proofs about Crawler for every value of its constants.                  *)
(***************************************************************************)
EXTENDS Crawler, Domain_proofs, TLAPS

-----------------------------------------------------------------------------
(* Type correctness: the workers' variables, then the table, step by step. *)

Resting == {"idle", "sleep", "exited"}

ClaimType == [tag : Player \cup {NoPlayer}, gen : Nat, classified : BOOLEAN]

LocalType == [at : Nat, trophies : Nat, outcome : Status,
              victim : Player \cup {NoPlayer}, budget : Nat, found : Nat]

WorkersOK ==
    /\ pc \in [Worker -> PC]
    /\ claim \in [Worker -> ClaimType]
    /\ local \in [Worker -> LocalType]
    /\ \A w \in Worker : pc[w] \in Resting <=> Tag(w) = NoPlayer
    /\ \A w \in Worker : pc[w] = "evicting" => local[w].victim \in Player

TableOK ==
    /\ targets \in [Player -> Row]
    /\ now \in Nat
    /\ ctxDone \in BOOLEAN

LEMMA TypeParts ==
    /\ TypeOK <=> TableOK /\ WorkersOK
    /\ TypeOK' <=> TableOK' /\ WorkersOK'
BY DEF TypeOK, TableOK, WorkersOK, ClaimType, LocalType, Resting

LEMMA NoLocalType ==
    /\ NoLocal \in LocalType
    /\ \A t \in Nat : [NoLocal EXCEPT !.at = t] \in LocalType
    /\ \A s \in Status : [NoLocal EXCEPT !.outcome = s] \in LocalType
BY DEF NoLocal, LocalType, Status

LEMMA NoClaimType == NoClaim \in ClaimType
BY DEF NoClaim, ClaimType

\* A worker that works has the tag of a player.
LEMMA BusyTag ==
    ASSUME WorkersOK, NEW w \in Worker, pc[w] \notin Resting
    PROVE  Tag(w) \in Player
BY DEF WorkersOK, ClaimType, Tag

LEMMA ReturnOK ==
    ASSUME WorkersOK, NEW w \in Worker, NEW next \in Resting, Return(w, next)
    PROVE  WorkersOK'
<1> USE NoClaimType, NoLocalType
<1>1. /\ pc' \in [Worker -> PC]
      /\ claim' \in [Worker -> ClaimType]
      /\ local' \in [Worker -> LocalType]
  BY DEF WorkersOK, Return, Resting, PC
<1>2. \A v \in Worker : pc'[v] \in Resting <=> Tag(v)' = NoPlayer
  BY DEF WorkersOK, Return, Tag, NoClaim
<1>3. \A v \in Worker : pc'[v] = "evicting" => local'[v].victim \in Player
  BY DEF WorkersOK, Return, Resting
<1> QED BY <1>1, <1>2, <1>3 DEF WorkersOK

LEMMA GotoOK ==
    ASSUME WorkersOK, NEW w \in Worker, pc[w] \notin Resting,
           NEW next \in PC \ Resting, Goto(w, next),
           NEW mem \in LocalType, local' = [local EXCEPT ![w] = mem],
           next = "evicting" => mem.victim \in Player
    PROVE  WorkersOK'
<1>1. /\ pc' \in [Worker -> PC]
      /\ claim' \in [Worker -> ClaimType]
      /\ local' \in [Worker -> LocalType]
  BY DEF WorkersOK, Goto
<1>2. \A v \in Worker : pc'[v] \in Resting <=> Tag(v)' = NoPlayer
  BY DEF WorkersOK, Goto, Tag
<1>3. \A v \in Worker : pc'[v] = "evicting" => local'[v].victim \in Player
  BY DEF WorkersOK, Goto
<1> QED BY <1>1, <1>2, <1>3 DEF WorkersOK

LEMMA ShutdownOrOK ==
    ASSUME WorkersOK, NEW w \in Worker, pc[w] \notin Resting,
           NEW next \in PC \ (Resting \cup {"evicting"}),
           NEW mem \in LocalType, ShutdownOr(w, next, mem)
    PROVE  WorkersOK'
<1>1. CASE Return(w, "exited")  BY <1>1, ReturnOK DEF Resting
<1>2. CASE Goto(w, next) /\ local' = [local EXCEPT ![w] = mem]
  BY <1>2, GotoOK
<1> QED BY <1>1, <1>2 DEF ShutdownOr

\* The row updates of the code keep the type of the row.
LEMMA RowTypes ==
    ASSUME NEW r \in Row
    PROVE  /\ \A g, l \in Nat : [r EXCEPT !.gen = g, !.lease = l] \in Row
           /\ \A b \in TrophyBucket, q \in Priority :
                 [r EXCEPT !.bucket = b, !.priority = q] \in Row
           /\ \A q \in Priority : [r EXCEPT !.priority = q] \in Row
           /\ [r EXCEPT !.active = FALSE, !.status = "sampled_out"] \in Row
           /\ \A s \in Status, t \in Int, a \in BOOLEAN :
                 [r EXCEPT !.status = s, !.nextAt = t, !.active = a,
                           !.count = @ + 1, !.lease = NoLease] \in Row
<1>1. \A g, l \in Nat : [r EXCEPT !.gen = g, !.lease = l] \in Row  BY DEF Row
<1>2. \A b \in TrophyBucket, q \in Priority :
         [r EXCEPT !.bucket = b, !.priority = q] \in Row  BY DEF Row
<1>3. \A q \in Priority : [r EXCEPT !.priority = q] \in Row  BY DEF Row
<1>4. [r EXCEPT !.active = FALSE, !.status = "sampled_out"] \in Row  BY DEF Row, Status
<1>5. ASSUME NEW s \in Status, NEW t \in Int, NEW a \in BOOLEAN
      PROVE  [r EXCEPT !.status = s, !.nextAt = t, !.active = a,
                       !.count = @ + 1, !.lease = NoLease] \in Row
  <2>1. r.count + 1 \in Nat /\ NoLease \in Nat  BY DEF Row, NoLease
  <2> QED BY <2>1, Zenon DEF Row
<1> QED BY <1>1, <1>2, <1>3, <1>4, <1>5

LEMMA NewRowType == ASSUME NEW t \in Nat PROVE NewRow(t) \in Row
BY DEF NewRow, Row, NoLease, Status, NoBucket, Priority, DiscoveryPriority

LEMMA ClassifiedType ==
    ASSUME TypeOK, NEW w \in Worker, pc[w] \notin Resting
    PROVE  Classified(w) \in [Player -> Row]
<1>1. Tag(w) \in Player  BY TypeParts, BusyTag
<1>2. local[w].trophies \in Nat  BY DEF TypeOK
<1>3. MyBucket(w) \in TrophyBucket  BY <1>2, BucketType DEF MyBucket
<1>4. PriorityForTrophies(local[w].trophies) \in Priority  BY <1>2, PriorityType
<1>5. targets \in [Player -> Row]  BY DEF TypeOK
<1>6. [targets[Tag(w)] EXCEPT !.bucket = MyBucket(w),
                              !.priority = PriorityForTrophies(local[w].trophies)] \in Row
  BY <1>1, <1>3, <1>4, <1>5, RowTypes
<1> QED BY <1>1, <1>5, <1>6 DEF Classified

LEMMA EnqueueType ==
    ASSUME TypeOK, NEW p \in Player, Enqueue(p)
    PROVE  targets' \in [Player -> Row]
<1>1. now \in Nat /\ targets \in [Player -> Row]  BY DEF TypeOK
<1>2. NewRow(now) \in Row  BY <1>1, NewRowType
<1> QED BY <1>1, <1>2 DEF Enqueue

LEMMA ClaimTypes ==
    ASSUME TypeOK, NEW w \in Worker,
           ClaimSelect(w) \/ ClaimEmpty(w) \/ ClaimCommit(w) \/ ClaimUnacked(w)
              \/ ClaimFail(w) \/ Wake(w) \/ Stop(w)
    PROVE  TypeOK'
<1> USE TypeParts
<1>1. ASSUME ClaimSelect(w) PROVE TypeOK'
  <2>1. PICK p \in Player :
           claim' = [claim EXCEPT ![w] = [tag |-> p, gen |-> targets[p].gen + 1,
                                          classified |-> targets[p].bucket # NoBucket]]
    BY <1>1 DEF ClaimSelect, Claimable, ActiveRows, Rows
  <2>2. [tag |-> p, gen |-> targets[p].gen + 1,
         classified |-> targets[p].bucket # NoBucket] \in ClaimType
    BY DEF TableOK, Row, ClaimType
  <2>3. pc' = [pc EXCEPT ![w] = "claim"] /\ local' = [local EXCEPT ![w] = [NoLocal EXCEPT !.at = now]]
    BY <1>1 DEF ClaimSelect
  <2>4. [NoLocal EXCEPT !.at = now] \in LocalType
    <3>1. now \in Nat  BY DEF TableOK
    <3> QED BY <3>1, NoLocalType
  <2>5. /\ pc' \in [Worker -> PC]
        /\ claim' \in [Worker -> ClaimType]
        /\ local' \in [Worker -> LocalType]
    BY <2>1, <2>2, <2>3, <2>4 DEF WorkersOK, PC
  <2>6. \A v \in Worker : pc'[v] \in Resting <=> Tag(v)' = NoPlayer
    BY <2>1, <2>3, PlayerAssumption DEF WorkersOK, Tag, Resting
  <2>7. \A v \in Worker : pc'[v] = "evicting" => local'[v].victim \in Player
    BY <2>3 DEF WorkersOK
  <2>8. TableOK'  BY <1>1 DEF ClaimSelect, TableOK
  <2> QED BY <2>5, <2>6, <2>7, <2>8 DEF WorkersOK
<1>2. ASSUME ClaimEmpty(w) PROVE TypeOK'
  <2>1. WorkersOK'  BY <1>2, ReturnOK DEF ClaimEmpty, Resting
  <2> QED BY <2>1, <1>2 DEF ClaimEmpty, TableOK
<1>3. ASSUME pc[w] = "claim", Lease(w) PROVE targets' \in [Player -> Row]
  <2>1. Tag(w) \in Player  BY <1>3, BusyTag DEF Resting
  <2>2. claim[w].gen \in Nat /\ local[w].at + LeaseTTL \in Nat
    BY ClockAssumption DEF WorkersOK, ClaimType, LocalType
  <2>3. [targets[Tag(w)] EXCEPT !.gen = claim[w].gen, !.lease = local[w].at + LeaseTTL] \in Row
    BY <2>1, <2>2, RowTypes DEF TableOK
  <2> QED BY <1>3, <2>1, <2>3 DEF Lease, TableOK
<1>4. ASSUME ClaimCommit(w) PROVE TypeOK'
  <2>1. WorkersOK'
    <3>1. /\ pc[w] \notin Resting
          /\ Goto(w, "player")
          /\ local' = [local EXCEPT ![w] = NoLocal]
      BY <1>4 DEF ClaimCommit, Resting
    <3>2. "player" \in PC \ Resting  BY DEF Resting, PC
    <3> QED BY <3>1, <3>2, GotoOK, NoLocalType
  <2> QED BY <2>1, <1>3, <1>4 DEF ClaimCommit, TableOK
<1>5. ASSUME ClaimUnacked(w) PROVE TypeOK'
  <2>1. WorkersOK'  BY <1>5, ReturnOK DEF ClaimUnacked, Resting
  <2> QED BY <2>1, <1>3, <1>5 DEF ClaimUnacked, TableOK
<1>6. ASSUME ClaimFail(w) PROVE TypeOK'
  <2>1. WorkersOK'  BY <1>6, ReturnOK DEF ClaimFail, Resting
  <2> QED BY <2>1, <1>6 DEF ClaimFail, TableOK
<1>7. ASSUME Wake(w) PROVE TypeOK'
  <2>1. pc' = [pc EXCEPT ![w] = "idle"] /\ pc[w] = "sleep" /\ UNCHANGED <<claim, local>>
    BY <1>7 DEF Wake, Goto
  <2>2. WorkersOK'  BY <2>1 DEF WorkersOK, Tag, Resting, PC
  <2> QED BY <2>2, <1>7 DEF Wake, TableOK
<1>8. ASSUME Stop(w) PROVE TypeOK'
  <2>1. WorkersOK'  BY <1>8, ReturnOK DEF Stop, Resting
  <2> QED BY <2>1, <1>8 DEF Stop, TableOK
<1> QED BY <1>1, <1>2, <1>4, <1>5, <1>6, <1>7, <1>8

LEMMA LocalTypes ==
    ASSUME NEW m \in LocalType
    PROVE  /\ \A t \in Nat : [m EXCEPT !.trophies = t] \in LocalType
           /\ \A t \in Nat : [m EXCEPT !.at = t] \in LocalType
           /\ \A b \in Nat : [m EXCEPT !.budget = b] \in LocalType
           /\ [m EXCEPT !.found = @ + 1] \in LocalType
           /\ \A p \in Player : [m EXCEPT !.victim = p] \in LocalType
           /\ \A p \in Player : [m EXCEPT !.victim = p].victim = p
           /\ \A s \in Status : [m EXCEPT !.outcome = s] \in LocalType
<1>1. \A t \in Nat : [m EXCEPT !.trophies = t] \in LocalType  BY DEF LocalType
<1>2. \A t \in Nat : [m EXCEPT !.at = t] \in LocalType  BY DEF LocalType
<1>3. \A b \in Nat : [m EXCEPT !.budget = b] \in LocalType  BY DEF LocalType
<1>4. [m EXCEPT !.found = @ + 1] \in LocalType
  <2>1. m.found + 1 \in Nat  BY DEF LocalType
  <2> QED BY <2>1, Zenon DEF LocalType
<1>5. \A p \in Player : [m EXCEPT !.victim = p] \in LocalType  BY DEF LocalType
<1>6. \A p \in Player : [m EXCEPT !.victim = p].victim = p  BY DEF LocalType
<1>7. \A s \in Status : [m EXCEPT !.outcome = s] \in LocalType  BY DEF LocalType
<1> QED BY <1>1, <1>2, <1>3, <1>4, <1>5, <1>6, <1>7

\* A step of a busy worker that leaves its local variables alone.
LEMMA GotoKeepOK ==
    ASSUME WorkersOK, NEW w \in Worker, pc[w] \notin Resting,
           NEW next \in PC \ (Resting \cup {"evicting"}), Goto(w, next), UNCHANGED local
    PROVE  WorkersOK'
<1>1. local[w] \in LocalType /\ local' = [local EXCEPT ![w] = local[w]]
  BY DEF WorkersOK
<1> QED BY <1>1, GotoOK

LEMMA APITypes ==
    ASSUME TypeOK, NEW w \in Worker,
           GetPlayer(w) \/ GetBattleLog(w) \/ APIError(w) \/ GlobalHalt(w)
              \/ CheckOwnership(w) \/ OwnershipError(w)
              \/ IngestPlayer(w) \/ IngestPlayerFail(w)
    PROVE  TypeOK'
<1> USE TypeParts
<1>a. local[w] \in LocalType /\ now \in Nat  BY DEF WorkersOK, TableOK
<1>b. {"log", "owner", "ingest", "finalize", "reprofile", "classify"}
         \subseteq PC \ (Resting \cup {"evicting"})
  BY DEF Resting, PC
<1>1. ASSUME GetPlayer(w) PROVE TypeOK'
  <2>1. pc[w] \notin Resting /\ Goto(w, "log")  BY <1>1 DEF GetPlayer, Resting
  <2>2. PICK t \in Nat : local' = [local EXCEPT ![w] = [local[w] EXCEPT !.trophies = t]]
    BY <1>1, TrophiesAssumption DEF GetPlayer
  <2>3. [local[w] EXCEPT !.trophies = t] \in LocalType  BY <1>a, LocalTypes
  <2>4. WorkersOK'  BY <2>1, <2>2, <2>3, <1>b, GotoOK
  <2> QED BY <2>4, <1>1 DEF GetPlayer, TableOK
<1>2. ASSUME GetBattleLog(w) PROVE TypeOK'
  <2>1. WorkersOK'  BY <1>2, <1>b, GotoKeepOK DEF GetBattleLog, Resting
  <2> QED BY <2>1, <1>2 DEF GetBattleLog, TableOK
<1>3. ASSUME APIError(w) PROVE TypeOK'
  <2>1. pc[w] \notin Resting  BY <1>3 DEF APIError, Resting
  <2>2. PICK s \in Status : ShutdownOr(w, "finalize", [NoLocal EXCEPT !.outcome = s])
    BY <1>3 DEF APIError, Status
  <2>3. [NoLocal EXCEPT !.outcome = s] \in LocalType  BY NoLocalType
  <2>4. WorkersOK'  BY <2>1, <2>2, <2>3, <1>b, ShutdownOrOK
  <2> QED BY <2>4, <1>3 DEF APIError, TableOK
<1>4. ASSUME GlobalHalt(w) PROVE TypeOK'
  <2>1. WorkersOK'  BY <1>4, ReturnOK DEF GlobalHalt, Resting
  <2> QED BY <2>1, <1>4 DEF GlobalHalt, TableOK
<1>5. ASSUME CheckOwnership(w) PROVE TypeOK'
  <2>1. CASE Goto(w, "ingest") /\ UNCHANGED local
    <3>1. pc[w] \notin Resting  BY <1>5 DEF CheckOwnership, Resting
    <3> QED BY <2>1, <3>1, <1>5, <1>b, GotoKeepOK DEF CheckOwnership, TableOK
  <2>2. CASE Return(w, "idle")
    <3>1. WorkersOK'  BY <2>2, ReturnOK DEF Resting
    <3> QED BY <3>1, <1>5 DEF CheckOwnership, TableOK
  <2> QED BY <2>1, <2>2, <1>5 DEF CheckOwnership
<1>6. ASSUME OwnershipError(w) PROVE TypeOK'
  <2>1. WorkersOK'  BY <1>6, ReturnOK DEF OwnershipError, Resting
  <2> QED BY <2>1, <1>6 DEF OwnershipError, TableOK
<1>7. ASSUME IngestPlayer(w) PROVE TypeOK'
  <2>1. PICK next \in {"reprofile", "classify"} : Goto(w, next)
    BY <1>7 DEF IngestPlayer
  <2>2. pc[w] \notin Resting /\ local' = [local EXCEPT ![w] = [local[w] EXCEPT !.at = now]]
    BY <1>7 DEF IngestPlayer, Resting
  <2>3. [local[w] EXCEPT !.at = now] \in LocalType  BY <1>a, LocalTypes
  <2>4. WorkersOK'  BY <2>1, <2>2, <2>3, <1>b, GotoOK
  <2> QED BY <2>4, <1>7 DEF IngestPlayer, TableOK
<1>8. ASSUME IngestPlayerFail(w) PROVE TypeOK'
  <2>1. pc[w] \notin Resting /\ ShutdownOr(w, "finalize", [NoLocal EXCEPT !.outcome = "error"])
    BY <1>8 DEF IngestPlayerFail, Resting
  <2>2. [NoLocal EXCEPT !.outcome = "error"] \in LocalType
    BY NoLocalType DEF Status
  <2>3. WorkersOK'  BY <2>1, <2>2, <1>b, ShutdownOrOK
  <2> QED BY <2>3, <1>8 DEF IngestPlayerFail, TableOK
<1> QED BY <1>1, <1>2, <1>3, <1>4, <1>5, <1>6, <1>7, <1>8

\* What RunOnce keeps of a classification.
LEMMA VerdictedType == \A v : Verdicted(v) \in LocalType
<1> TAKE v
<1>1. (IF v = "reject" THEN "sampled_out" ELSE "success") \in Status  BY DEF Status
<1> QED BY <1>1, NoLocalType, Zenon DEF Verdicted

LEMMA SamplingTypes ==
    ASSUME TypeOK, NEW w \in Worker,
           Classify(w) \/ ClassifyEvict(w) \/ ClassifyFail(w) \/ RejectRolledBack(w)
              \/ EvictSelect(w) \/ EvictNobody(w) \/ EvictCommit(w)
              \/ UpdateCrawlProfile(w) \/ UpdateCrawlProfileFail(w)
    PROVE  TypeOK'
<1> USE TypeParts
<1>a. local[w] \in LocalType /\ now \in Nat /\ targets \in [Player -> Row]
  BY DEF WorkersOK, TableOK
<1>b. "ceiling" \in PC \ (Resting \cup {"evicting"})
      /\ "evict" \in PC \ (Resting \cup {"evicting"})
      /\ "evicting" \in PC \ Resting
  BY DEF Resting, PC
<1>c. pc[w] \in {"classify", "evict", "evicting", "reprofile"}
  BY DEF Classify, ClassifyEvict, ClassifyFail, RejectRolledBack, EvictSelect,
         EvictNobody, EvictCommit, UpdateCrawlProfile, UpdateCrawlProfileFail, CanClassify
<1>d. pc[w] \notin Resting  BY <1>c DEF Resting
<1>e. Tag(w) \in Player  BY <1>d, BusyTag
<1>f. Classified(w) \in [Player -> Row]  BY <1>d, ClassifiedType
<1>g. UNCHANGED <<now, ctxDone>>
  BY DEF Classify, ClassifyEvict, ClassifyFail, RejectRolledBack, EvictSelect,
         EvictNobody, EvictCommit, UpdateCrawlProfile, UpdateCrawlProfileFail
<1>h. ASSUME NEW mem \in LocalType, ShutdownOr(w, "ceiling", mem) PROVE WorkersOK'
  BY <1>h, <1>b, <1>d, ShutdownOrOK
<1>i. ASSUME WorkersOK', targets' \in [Player -> Row] PROVE TypeOK'
  BY <1>i, <1>g DEF TableOK
<1>1. ASSUME Classify(w) PROVE TypeOK'
  <2>1. WorkersOK'  BY <1>1, <1>h, VerdictedType DEF Classify
  <2>2. targets' \in [Player -> Row]  BY <1>1, <1>f DEF Classify
  <2> QED BY <2>1, <2>2, <1>i
<1>2. ASSUME ClassifyEvict(w) PROVE TypeOK'
  <2>1. WorkersOK'  BY <1>2, <1>b, <1>d, GotoKeepOK DEF ClassifyEvict
  <2> QED BY <2>1, <1>2, <1>a, <1>i DEF ClassifyEvict
<1>3. ASSUME ClassifyFail(w) PROVE TypeOK'
  <2>1. WorkersOK'  BY <1>3, <1>h, NoLocalType DEF ClassifyFail
  <2> QED BY <2>1, <1>3, <1>a, <1>i DEF ClassifyFail
<1>4. ASSUME RejectRolledBack(w) PROVE TypeOK'
  <2>1. WorkersOK'  BY <1>4, <1>h, VerdictedType DEF RejectRolledBack
  <2> QED BY <2>1, <1>4, <1>a, <1>i DEF RejectRolledBack
<1>5. ASSUME EvictSelect(w) PROVE TypeOK'
  <2>1. PICK p \in Player : local' = [local EXCEPT ![w] = [local[w] EXCEPT !.victim = p]]
    BY <1>5 DEF EvictSelect, Victims, OtherActive, Bucket, Rows
  <2>2. [local[w] EXCEPT !.victim = p] \in LocalType
        /\ [local[w] EXCEPT !.victim = p].victim \in Player
    BY <1>a, LocalTypes
  <2>3. Goto(w, "evicting")  BY <1>5 DEF EvictSelect
  <2>4. WorkersOK'  BY <2>1, <2>2, <2>3, <1>b, <1>d, GotoOK
  <2> QED BY <2>4, <1>5, <1>a, <1>i DEF EvictSelect
<1>6. ASSUME EvictNobody(w) PROVE TypeOK'
  <2>1. WorkersOK'  BY <1>6, <1>h, NoLocalType DEF EvictNobody
  <2>2. targets' \in [Player -> Row]  BY <1>6, <1>f DEF EvictNobody
  <2> QED BY <2>1, <2>2, <1>i
<1>7. ASSUME EvictCommit(w) PROVE TypeOK'
  <2>1. WorkersOK'  BY <1>7, <1>h, NoLocalType DEF EvictCommit
  <2>2. local[w].victim \in Player  BY <1>7 DEF EvictCommit, WorkersOK
  <2>3. [Classified(w)[local[w].victim] EXCEPT !.active = FALSE, !.status = "sampled_out"] \in Row
    BY <2>2, <1>f, RowTypes
  <2>4. targets' = [Classified(w) EXCEPT ![local[w].victim] =
           [Classified(w)[local[w].victim] EXCEPT !.active = FALSE, !.status = "sampled_out"]]
    BY <1>7 DEF EvictCommit
  <2>5. targets' \in [Player -> Row]  BY <2>2, <2>3, <2>4, <1>f
  <2> QED BY <2>1, <2>5, <1>i
<1>8. ASSUME UpdateCrawlProfile(w) PROVE TypeOK'
  <2>1. WorkersOK'  BY <1>8, <1>h, NoLocalType DEF UpdateCrawlProfile
  <2>2. PriorityForTrophies(local[w].trophies) \in Priority
    BY <1>a, PriorityType DEF LocalType
  <2>3. [targets[Tag(w)] EXCEPT !.priority = PriorityForTrophies(local[w].trophies)] \in Row
    BY <2>2, <1>a, <1>e, RowTypes
  <2>4. targets' = [targets EXCEPT ![Tag(w)] =
           [targets[Tag(w)] EXCEPT !.priority = PriorityForTrophies(local[w].trophies)]]
    BY <1>8 DEF UpdateCrawlProfile
  <2>5. targets' \in [Player -> Row]  BY <2>3, <2>4, <1>a, <1>e
  <2> QED BY <2>1, <2>5, <1>i
<1>9. ASSUME UpdateCrawlProfileFail(w) PROVE TypeOK'
  <2>1. WorkersOK'  BY <1>9, <1>h, NoLocalType DEF UpdateCrawlProfileFail
  <2> QED BY <2>1, <1>9, <1>a, <1>i DEF UpdateCrawlProfileFail
<1> QED BY <1>1, <1>2, <1>3, <1>4, <1>5, <1>6, <1>7, <1>8, <1>9

LEMMA BattleTypes ==
    ASSUME TypeOK, NEW w \in Worker,
           CheckCeiling(w) \/ (\E p \in Player : DiscoverPlayer(w, p)) \/ BattlesDone(w)
              \/ BattlesFail(w) \/ FinalizeCrawl(w) \/ FinalizeNoEffect(w)
    PROVE  TypeOK'
<1> USE TypeParts
<1>a. local[w] \in LocalType /\ now \in Nat /\ targets \in [Player -> Row]
  BY DEF WorkersOK, TableOK
<1>b. "battles" \in PC \ (Resting \cup {"evicting"})
      /\ "finalize" \in PC \ (Resting \cup {"evicting"})
  BY DEF Resting, PC
<1>c. pc[w] \in {"ceiling", "battles", "finalize"}
  BY DEF CheckCeiling, DiscoverPlayer, BattlesDone, BattlesFail, FinalizeCrawl, FinalizeNoEffect
<1>d. pc[w] \notin Resting  BY <1>c DEF Resting
<1>e. Tag(w) \in Player  BY <1>d, BusyTag
<1>g. UNCHANGED <<now, ctxDone>>
  BY DEF CheckCeiling, DiscoverPlayer, BattlesDone, BattlesFail, FinalizeCrawl, FinalizeNoEffect
<1>i. ASSUME WorkersOK', targets' \in [Player -> Row] PROVE TypeOK'
  BY <1>i, <1>g DEF TableOK
<1>1. ASSUME CheckCeiling(w) PROVE TypeOK'
  <2>1. PICK b \in Nat : local' = [local EXCEPT ![w] = [local[w] EXCEPT !.budget = b]]
    BY <1>1, ConfigAssumption DEF CheckCeiling
  <2>2. [local[w] EXCEPT !.budget = b] \in LocalType  BY <1>a, LocalTypes
  <2>3. Goto(w, "battles")  BY <1>1 DEF CheckCeiling
  <2>4. WorkersOK'  BY <2>1, <2>2, <2>3, <1>b, <1>d, GotoOK
  <2> QED BY <2>4, <1>1, <1>a, <1>i DEF CheckCeiling
<1>2. ASSUME NEW p \in Player, DiscoverPlayer(w, p) PROVE TypeOK'
  <2>1. targets' \in [Player -> Row]  BY <1>2, EnqueueType DEF DiscoverPlayer
  <2>2. UNCHANGED <<pc, claim>> /\ pc[w] = "battles"  BY <1>2 DEF DiscoverPlayer
  <2>3. CASE UNCHANGED local
    BY <2>1, <2>2, <2>3, <1>i DEF WorkersOK, Tag
  <2>4. CASE local' = [local EXCEPT ![w] = [local[w] EXCEPT !.found = @ + 1]]
    <3>1. [local[w] EXCEPT !.found = @ + 1] \in LocalType  BY <1>a, LocalTypes
    <3>2. local' \in [Worker -> LocalType]  BY <2>4, <3>1 DEF WorkersOK
    <3>3. \A v \in Worker : v # w => local'[v] = local[v]  BY <2>4 DEF WorkersOK
    <3>4. \A v \in Worker : pc'[v] = "evicting" => local'[v].victim \in Player
      BY <2>2, <3>3 DEF WorkersOK
    <3>5. WorkersOK'  BY <2>2, <3>2, <3>4 DEF WorkersOK, Tag
    <3> QED BY <3>5, <2>1, <1>i
  <2> QED BY <2>3, <2>4, <1>2 DEF DiscoverPlayer
<1>3. ASSUME BattlesDone(w) PROVE TypeOK'
  <2>1. [NoLocal EXCEPT !.outcome = local[w].outcome] \in LocalType
    <3>1. local[w].outcome \in Status  BY <1>a DEF LocalType
    <3> QED BY <3>1, NoLocalType
  <2>2. Goto(w, "finalize")
        /\ local' = [local EXCEPT ![w] = [NoLocal EXCEPT !.outcome = local[w].outcome]]
    BY <1>3 DEF BattlesDone
  <2>3. WorkersOK'  BY <2>1, <2>2, <1>b, <1>d, GotoOK
  <2> QED BY <2>3, <1>3, <1>a, <1>i DEF BattlesDone
<1>4. ASSUME BattlesFail(w) PROVE TypeOK'
  <2>1. [NoLocal EXCEPT !.outcome = "error"] \in LocalType
    <3>1. "error" \in Status  BY DEF Status
    <3> QED BY <3>1, NoLocalType
  <2>2. ShutdownOr(w, "finalize", [NoLocal EXCEPT !.outcome = "error"])
    BY <1>4 DEF BattlesFail
  <2>3. WorkersOK'  BY <2>1, <2>2, <1>b, <1>d, ShutdownOrOK
  <2> QED BY <2>3, <1>4, <1>a, <1>i DEF BattlesFail
<1>5. ASSUME FinalizeCrawl(w) PROVE TypeOK'
  <2>1. WorkersOK'  BY <1>5, ReturnOK DEF FinalizeCrawl, Resting
  <2>2. PICK d \in Delay :
           targets' = [targets EXCEPT ![Tag(w)] =
              [targets[Tag(w)] EXCEPT !.status = local[w].outcome, !.nextAt = AppNow + d,
                 !.active = KeepsActive(local[w].outcome), !.count = targets[Tag(w)].count + 1,
                 !.lease = NoLease]]
    BY <1>5 DEF FinalizeCrawl
  <2>3. local[w].outcome \in Status /\ AppNow + d \in Int
        /\ KeepsActive(local[w].outcome) \in BOOLEAN
    BY <1>a, ClockAssumption DEF LocalType, AppNow, KeepsActive
  <2>4. targets' \in [Player -> Row]
    BY <2>2, <2>3, <1>a, <1>e, RowTypes
  <2> QED BY <2>1, <2>4, <1>i
<1>6. ASSUME FinalizeNoEffect(w) PROVE TypeOK'
  <2>1. WorkersOK'  BY <1>6, ReturnOK DEF FinalizeNoEffect, Resting
  <2> QED BY <2>1, <1>6, <1>a, <1>i DEF FinalizeNoEffect
<1> QED BY <1>1, <1>2, <1>3, <1>4, <1>5, <1>6

LEMMA EnvironmentTypes ==
    ASSUME TypeOK, Tick \/ Signal \/ Restart \/ \E p \in Player : CollectPlayer(p)
    PROVE  TypeOK'
<1> USE TypeParts
<1>1. CASE Tick
  BY <1>1 DEF Tick, TableOK, WorkersOK, Tag
<1>2. CASE Signal
  BY <1>2 DEF Signal, TableOK, WorkersOK, Tag
<1>3. CASE Restart
  <2>1. WorkersOK'
    <3>1. \A w \in Worker : pc'[w] = "idle" /\ Tag(w)' = NoPlayer
      BY <1>3 DEF Restart, Tag, NoClaim
    <3>2. /\ pc' \in [Worker -> PC]
          /\ claim' \in [Worker -> ClaimType]
          /\ local' \in [Worker -> LocalType]
      BY <1>3, NoClaimType, NoLocalType DEF Restart, PC
    <3> QED BY <3>1, <3>2 DEF WorkersOK, Resting
  <2> QED BY <2>1, <1>3 DEF Restart, TableOK
<1>4. ASSUME NEW p \in Player, CollectPlayer(p) PROVE TypeOK'
  <2>1. targets' \in [Player -> Row]  BY <1>4, EnqueueType DEF CollectPlayer
  <2> QED BY <2>1, <1>4 DEF CollectPlayer, TableOK, WorkersOK, Tag
<1> QED BY <1>1, <1>2, <1>3, <1>4

LEMMA InitTypes == Init => TypeOK
<1> SUFFICES ASSUME Init PROVE TypeOK
  OBVIOUS
<1> USE TypeParts
<1>1. TableOK
  <2>1. \A p \in Player : [NewRow(0) EXCEPT !.known = (p \in Seed)] \in Row
    <3>1. \A r \in Row, b \in BOOLEAN : [r EXCEPT !.known = b] \in Row  BY DEF Row
    <3>2. NewRow(0) \in Row  BY NewRowType
    <3>3. \A p \in Player : (p \in Seed) \in BOOLEAN  OBVIOUS
    <3> QED BY <3>1, <3>2, <3>3, Zenon
  <2> QED BY <2>1 DEF Init, TableOK
<1>2. WorkersOK
  <2>1. \A w \in Worker : pc[w] = "idle" /\ Tag(w) = NoPlayer
    BY DEF Init, Tag, NoClaim
  <2>2. /\ pc \in [Worker -> PC]
        /\ claim \in [Worker -> ClaimType]
        /\ local \in [Worker -> LocalType]
    BY NoClaimType, NoLocalType DEF Init, PC
  <2> QED BY <2>1, <2>2 DEF WorkersOK, Resting
<1> QED BY <1>1, <1>2

LEMMA StepTypes == TypeOK /\ [Next]_vars => TypeOK'
<1> SUFFICES ASSUME TypeOK, [Next]_vars PROVE TypeOK'
  OBVIOUS
<1>1. ASSUME NEW w \in Worker, Step(w) PROVE TypeOK'
  BY <1>1, ClaimTypes, APITypes, SamplingTypes, BattleTypes DEF Step
<1>2. CASE UNCHANGED vars
  BY <1>2 DEF vars, TypeOK, Tag
<1> QED BY <1>1, <1>2, EnvironmentTypes DEF Next

\* Every behaviour is type correct: the columns and the workers' variables.
THEOREM TypeCorrect == Spec => []TypeOK
BY InitTypes, StepTypes, PTL DEF Spec

-----------------------------------------------------------------------------
(* The generation fencing.  Most steps are quiet: they touch no generation,  *)
(* lease, counter or claim, or only let their worker's claim go.             *)

GenInv == ClaimsIssued /\ Fenced /\ CountedOncePerClaim /\ HeldTargetIsLeased

SameGenerations ==
    \A p \in Player : /\ targets'[p].known = targets[p].known
                      /\ targets'[p].gen = targets[p].gen
                      /\ targets'[p].count = targets[p].count
                      /\ targets'[p].lease = targets[p].lease

KeepsClaims ==
    /\ claim' = claim
    /\ \A v \in Worker : /\ Holding(v)' <=> Holding(v)
                         /\ pc'[v] = "claim" <=> pc[v] = "claim"

DropsClaim(w) ==
    /\ claim' = [claim EXCEPT ![w] = NoClaim]
    /\ pc'[w] \in Resting
    /\ \A v \in Worker \ {w} : pc'[v] = pc[v]

LEMMA HoldingTag ==
    ASSUME WorkersOK, NEW w \in Worker
    PROVE  /\ Holding(w) \/ pc[w] = "claim" <=> Tag(w) # NoPlayer
           /\ Tag(w) # NoPlayer => Tag(w) \in Player
           /\ claim[w].gen \in Nat
BY DEF WorkersOK, Holding, Resting, Tag, ClaimType, PC

LEMMA KeepsClaimsInv ==
    ASSUME TypeOK, GenInv, SameGenerations, KeepsClaims
    PROVE  GenInv'
<1>1. \A v \in Worker : Tag(v)' = Tag(v)  BY DEF KeepsClaims, Tag
<1>2. \A v \in Worker : Holding(v) \/ pc[v] = "claim" => Tag(v) \in Player
  BY TypeParts, HoldingTag
<1>3. \A v \in Worker : Tag(v) # NoPlayer => Tag(v) \in Player
  BY TypeParts, HoldingTag
<1>4. ClaimsIssued'
  BY <1>1, <1>2, <1>3 DEF GenInv, ClaimsIssued, SameGenerations, KeepsClaims
<1>5. Fenced'
  BY <1>1 DEF GenInv, Fenced, KeepsClaims
<1>6. CountedOncePerClaim'
  BY <1>1, <1>2 DEF GenInv, CountedOncePerClaim, SameGenerations, KeepsClaims, Current
<1>7. HeldTargetIsLeased'
  BY <1>1, <1>2 DEF GenInv, HeldTargetIsLeased, SameGenerations, KeepsClaims, Current
<1> QED BY <1>4, <1>5, <1>6, <1>7 DEF GenInv

LEMMA DropsClaimInv ==
    ASSUME TypeOK, GenInv, SameGenerations, NEW w \in Worker, DropsClaim(w)
    PROVE  GenInv'
<1>1. \A v \in Worker \ {w} : Tag(v)' = Tag(v) /\ claim'[v] = claim[v] /\ pc'[v] = pc[v]
                              /\ (Holding(v)' <=> Holding(v))
  BY DEF DropsClaim, Tag, Holding
<1>2. Tag(w)' = NoPlayer /\ ~Holding(w)' /\ pc'[w] # "claim"
  BY TypeParts DEF DropsClaim, Tag, NoClaim, Holding, Resting, WorkersOK
<1>3. \A v \in Worker : Tag(v) # NoPlayer => Tag(v) \in Player
  BY TypeParts, HoldingTag
<1>4. \A v \in Worker : Holding(v) \/ pc[v] = "claim" => Tag(v) \in Player
  BY TypeParts, HoldingTag
<1>5. ClaimsIssued'
  BY <1>1, <1>2, <1>3, <1>4 DEF GenInv, ClaimsIssued, SameGenerations
<1>6. Fenced'
  BY <1>1, <1>2 DEF GenInv, Fenced
<1>7. CountedOncePerClaim'
  BY <1>1, <1>2, <1>4 DEF GenInv, CountedOncePerClaim, SameGenerations, Current
<1>8. HeldTargetIsLeased'
  BY <1>1, <1>2, <1>4 DEF GenInv, HeldTargetIsLeased, SameGenerations, Current
<1> QED BY <1>5, <1>6, <1>7, <1>8 DEF GenInv

\* Choosing a row: its lock keeps every other claim transaction off it, and
\* holders of the same target have older generations.
LEMMA ClaimSelectInv ==
    ASSUME TypeOK, GenInv, NEW w \in Worker, ClaimSelect(w)
    PROVE  GenInv'
<1>1. PICK p \in Player :
         /\ targets[p].known /\ ~LockedByOther(w, p)
         /\ claim' = [claim EXCEPT ![w] = [tag |-> p, gen |-> targets[p].gen + 1,
                                           classified |-> targets[p].bucket # NoBucket]]
  BY DEF ClaimSelect, Claimable, ActiveRows, Rows
<1>2. pc' = [pc EXCEPT ![w] = "claim"] /\ UNCHANGED targets
  BY DEF ClaimSelect
<1>3. /\ Tag(w)' = p /\ claim'[w].gen = targets[p].gen + 1
      /\ ~Holding(w)' /\ pc'[w] = "claim"
  BY <1>1, <1>2, TypeParts DEF WorkersOK, Tag, Holding
<1>4. \A v \in Worker \ {w} : Tag(v)' = Tag(v) /\ claim'[v] = claim[v] /\ pc'[v] = pc[v]
                              /\ (Holding(v)' <=> Holding(v))
  BY <1>1, <1>2, TypeParts DEF WorkersOK, Tag, Holding
<1>5. \A v \in Worker : /\ Tag(v) # NoPlayer => Holding(v) \/ pc[v] = "claim"
                        /\ claim[v].gen \in Nat
  BY TypeParts, HoldingTag
<1>6. targets[p].gen \in Nat  BY TypeParts DEF TableOK, Row
<1>7. \A v \in Worker \ {w} : Tag(v) = p => claim[v].gen <= targets[p].gen
  <2> SUFFICES ASSUME NEW v \in Worker \ {w}, Tag(v) = p
               PROVE  claim[v].gen <= targets[p].gen
    OBVIOUS
  <2>1. pc[v] # "claim"  BY <1>1 DEF LockedByOther
  <2>2. Holding(v)  BY <2>1, <1>5, PlayerAssumption
  <2>3. claim[v].gen \in 1..targets[p].gen  BY <2>2 DEF GenInv, ClaimsIssued
  <2> QED BY <2>3, <1>5, <1>6
<1>8. ClaimsIssued'
  BY <1>1, <1>2, <1>3, <1>4 DEF GenInv, ClaimsIssued
<1>9. Fenced'
  <2> SUFFICES ASSUME NEW u \in Worker, NEW v \in Worker, u # v,
                      Tag(u)' = Tag(v)', Tag(u)' # NoPlayer
               PROVE  claim'[u].gen # claim'[v].gen
    BY DEF Fenced
  <2>1. CASE u # w /\ v # w  BY <2>1, <1>4 DEF GenInv, Fenced
  <2>2. CASE u = w
    <3>1. v \in Worker \ {w} /\ Tag(v) = p /\ claim'[v] = claim[v]
      BY <2>2, <1>3, <1>4
    <3>2. claim[v].gen <= targets[p].gen /\ claim[v].gen \in Nat
      BY <3>1, <1>5, <1>7
    <3> QED BY <2>2, <3>1, <3>2, <1>3, <1>6
  <2>3. CASE v = w  BY <2>3, <1>3, <1>4, <1>5, <1>6, <1>7
  <2> QED BY <2>1, <2>2, <2>3
<1>10. CountedOncePerClaim'
  BY <1>2, <1>3, <1>4 DEF GenInv, CountedOncePerClaim, Current
<1>11. HeldTargetIsLeased'
  BY <1>2, <1>3, <1>4 DEF GenInv, HeldTargetIsLeased, Current
<1> QED BY <1>8, <1>9, <1>10, <1>11 DEF GenInv

\* The claim's UPDATE: the generation moves on, so every older holder of the
\* target is fenced off, and there is no other claim under way.
LEMMA LeaseInv ==
    ASSUME TypeOK, GenInv, NEW w \in Worker, pc[w] = "claim", Lease(w),
           \/ claim' = claim /\ pc' = [pc EXCEPT ![w] = "player"]
           \/ DropsClaim(w)
    PROVE  GenInv'
<1> DEFINE p == Tag(w)
<1>1. p \in Player /\ p # NoPlayer
  BY TypeParts, BusyTag, PlayerAssumption DEF Resting
<1>2. claim[w].gen = targets[p].gen + 1  BY DEF GenInv, ClaimsIssued
<1>3. targets[p].gen \in Nat /\ targets[p].count \in Nat /\ targets[p] \in Row
  BY <1>1, TypeParts DEF TableOK, Row
<1>4. /\ targets'[p].known = targets[p].known
      /\ targets'[p].count = targets[p].count
      /\ targets'[p].gen = claim[w].gen
      /\ targets'[p].lease # NoLease
  <2>1. targets' = [targets EXCEPT ![p] =
           [targets[p] EXCEPT !.gen = claim[w].gen, !.lease = local[w].at + LeaseTTL]]
    BY DEF Lease
  <2>2. \A r \in Row : \A g, l \in Nat :
           LET s == [r EXCEPT !.gen = g, !.lease = l]
           IN  s.known = r.known /\ s.count = r.count /\ s.gen = g /\ s.lease = l
    BY DEF Row
  <2>3. claim[w].gen \in Nat /\ local[w].at + LeaseTTL \in Nat
        /\ local[w].at + LeaseTTL # NoLease
    BY TypeParts, ClockAssumption DEF WorkersOK, ClaimType, LocalType, NoLease
  <2>4. targets'[p] = [targets[p] EXCEPT !.gen = claim[w].gen, !.lease = local[w].at + LeaseTTL]
    BY <2>1, <1>1, TypeParts DEF TableOK
  <2> QED BY <2>2, <2>3, <2>4, <1>3
<1>5. \A q \in Player \ {p} : targets'[q] = targets[q]
  BY TypeParts DEF Lease, TableOK
<1>6. \A v \in Worker \ {w} :
         /\ Tag(v)' = Tag(v) /\ claim'[v] = claim[v] /\ pc'[v] = pc[v]
         /\ (Holding(v)' <=> Holding(v))
  BY TypeParts DEF WorkersOK, Tag, Holding, DropsClaim
<1>7. \/ Tag(w)' = p /\ claim'[w] = claim[w] /\ Holding(w)' /\ pc'[w] # "claim"
      \/ Tag(w)' = NoPlayer /\ ~Holding(w)' /\ pc'[w] # "claim"
  BY TypeParts DEF WorkersOK, Tag, Holding, DropsClaim, Resting, NoClaim
<1>8. \A v \in Worker : /\ Tag(v) # NoPlayer <=> Holding(v) \/ pc[v] = "claim"
                        /\ Tag(v) # NoPlayer => Tag(v) \in Player
                        /\ claim[v].gen \in Nat
  BY TypeParts, HoldingTag
<1>9. \A v \in Worker \ {w} : Tag(v) = p => Holding(v) /\ claim[v].gen \in 1..targets[p].gen
  <2> SUFFICES ASSUME NEW v \in Worker \ {w}, Tag(v) = p
               PROVE  Holding(v) /\ claim[v].gen \in 1..targets[p].gen
    OBVIOUS
  <2>1. pc[v] # "claim"
    BY <1>1, <1>2 DEF GenInv, ClaimsIssued, Fenced
  <2>2. Holding(v)  BY <2>1, <1>1, <1>8
  <2> QED BY <2>2 DEF GenInv, ClaimsIssued
<1> HIDE DEF p
<1>10. ClaimsIssued'
  <2>1. \A q \in Player : ~targets'[q].known => targets'[q].gen = 0 /\ targets'[q].count = 0
    <3>1. targets[p].known  BY <1>1 DEF GenInv, ClaimsIssued, p
    <3> QED BY <3>1, <1>4, <1>5 DEF GenInv, ClaimsIssued
  <2>2. \A v \in Worker \ {w} :
           /\ Tag(v)' # NoPlayer => targets'[Tag(v)'].known
           /\ Holding(v)' => claim'[v].gen \in 1..targets'[Tag(v)'].gen
           /\ pc'[v] = "claim" => claim'[v].gen = targets'[Tag(v)'].gen + 1
    <3> SUFFICES ASSUME NEW v \in Worker \ {w}
                 PROVE  /\ Tag(v) # NoPlayer => targets'[Tag(v)].known
                        /\ Holding(v) => claim[v].gen \in 1..targets'[Tag(v)].gen
                        /\ pc[v] = "claim" => claim[v].gen = targets'[Tag(v)].gen + 1
      BY <1>6
    <3>1. CASE Tag(v) = p
      <4>1. Holding(v) /\ claim[v].gen \in 1..targets[p].gen  BY <3>1, <1>9
      <4>2. targets[p].known  BY <1>1 DEF GenInv, ClaimsIssued, p
      <4> QED BY <3>1, <4>1, <4>2, <1>2, <1>3, <1>4 DEF Holding
    <3>2. CASE Tag(v) # p
      BY <3>2, <1>5, <1>8 DEF GenInv, ClaimsIssued
    <3> QED BY <3>1, <3>2
  <2>3. /\ Tag(w)' # NoPlayer => targets'[Tag(w)'].known
        /\ Holding(w)' => claim'[w].gen \in 1..targets'[Tag(w)'].gen
        /\ pc'[w] = "claim" => claim'[w].gen = targets'[Tag(w)'].gen + 1
    <3>1. targets[p].known  BY <1>1 DEF GenInv, ClaimsIssued, p
    <3>2. claim[w].gen \in 1..targets'[p].gen  BY <1>2, <1>3, <1>4
    <3>3. CASE Tag(w)' = p /\ claim'[w] = claim[w]
      BY <3>1, <3>2, <3>3, <1>4, <1>7
    <3>4. CASE Tag(w)' = NoPlayer /\ ~Holding(w)'
      BY <3>4, <1>7
    <3> QED BY <3>3, <3>4, <1>7
  <2> QED BY <2>1, <2>2, <2>3 DEF ClaimsIssued
<1>11. Fenced'
  BY <1>6, <1>7 DEF GenInv, Fenced, p
<1>12. CountedOncePerClaim'
  <2>1. \A q \in Player : targets'[q].count <= targets'[q].gen
    BY <1>2, <1>3, <1>4, <1>5 DEF GenInv, CountedOncePerClaim
  <2>2. ASSUME NEW v \in Worker, Holding(v)', Current(v)'
        PROVE  targets'[Tag(v)'].count < targets'[Tag(v)'].gen
    <3>1. CASE v = w
      BY <2>2, <3>1, <1>1, <1>2, <1>3, <1>4, <1>7 DEF GenInv, CountedOncePerClaim
    <3>2. CASE v # w /\ Tag(v) = p
      BY <2>2, <3>2, <1>2, <1>3, <1>4, <1>6, <1>9 DEF Current
    <3>3. CASE v # w /\ Tag(v) # p
      BY <2>2, <3>3, <1>5, <1>6, <1>8 DEF GenInv, CountedOncePerClaim, Current
    <3> QED BY <3>1, <3>2, <3>3
  <2> QED BY <2>1, <2>2 DEF CountedOncePerClaim
<1>13. HeldTargetIsLeased'
  <2> SUFFICES ASSUME NEW v \in Worker, Holding(v)', Current(v)'
               PROVE  targets'[Tag(v)'].lease # NoLease
    BY DEF HeldTargetIsLeased
  <2>1. CASE v = w  BY <2>1, <1>4, <1>7
  <2>2. CASE v # w /\ Tag(v) = p  BY <2>2, <1>4, <1>6
  <2>3. CASE v # w /\ Tag(v) # p
    BY <2>3, <1>5, <1>6, <1>8 DEF GenInv, HeldTargetIsLeased, Current
  <2> QED BY <2>1, <2>2, <2>3
<1> QED BY <1>10, <1>11, <1>12, <1>13 DEF GenInv

\* Inserting a row: nobody holds a target that is not in the table.
LEMMA EnqueueInv ==
    ASSUME TypeOK, GenInv, NEW p \in Player, Enqueue(p), UNCHANGED <<pc, claim>>
    PROVE  GenInv'
<1>1. \A q \in Player \ {p} : targets'[q] = targets[q]
  BY TypeParts DEF Enqueue, TableOK
<1>2. \A v \in Worker : Tag(v)' = Tag(v) /\ (Holding(v)' <=> Holding(v))
  BY DEF Tag, Holding
<1>3. CASE targets[p].known
  <2>1. targets'[p] = targets[p]  BY <1>3, TypeParts DEF Enqueue, TableOK
  <2>2. SameGenerations  BY <1>1, <2>1 DEF SameGenerations
  <2>3. KeepsClaims  BY <1>2 DEF KeepsClaims
  <2> QED BY <2>2, <2>3, KeepsClaimsInv
<1>4. CASE ~targets[p].known
  <2>1. targets'[p].known /\ targets'[p].gen = 0 /\ targets'[p].count = 0
    BY <1>4, TypeParts DEF Enqueue, TableOK, NewRow
  <2>2. \A v \in Worker : Tag(v) # p
    BY <1>4, PlayerAssumption DEF GenInv, ClaimsIssued
  <2>3. \A v \in Worker : Holding(v) \/ pc[v] = "claim" \/ Tag(v) # NoPlayer
                             => Tag(v) \in Player \ {p}
    BY <2>2, TypeParts, HoldingTag
  <2>4. ClaimsIssued'
    BY <1>1, <1>2, <2>1, <2>3 DEF GenInv, ClaimsIssued
  <2>5. Fenced'
    BY <1>2 DEF GenInv, Fenced
  <2>6. CountedOncePerClaim'
    BY <1>1, <1>2, <2>1, <2>3 DEF GenInv, CountedOncePerClaim, Current
  <2>7. HeldTargetIsLeased'
    BY <1>1, <1>2, <2>3 DEF GenInv, HeldTargetIsLeased, Current
  <2> QED BY <2>4, <2>5, <2>6, <2>7 DEF GenInv
<1> QED BY <1>3, <1>4

\* The compare-and-update: whoever else holds the target has another
\* generation, so after the lease is cleared no holder is current.
LEMMA FinalizeInv ==
    ASSUME TypeOK, GenInv, NEW w \in Worker, FinalizeCrawl(w)
    PROVE  GenInv'
<1> DEFINE p == Tag(w)
<1>1. p \in Player /\ p # NoPlayer /\ Holding(w) /\ Current(w)
  <2>1. pc[w] = "finalize" /\ Current(w)  BY DEF FinalizeCrawl, FinalizeMatches
  <2> QED BY <2>1, TypeParts, BusyTag, PlayerAssumption DEF Resting, Holding
<1>2. /\ targets[p].gen \in Nat /\ targets[p].count \in Nat /\ targets[p].known
      /\ targets[p].count < targets[p].gen
  <2>1. targets[p] \in Row  BY <1>1, TypeParts DEF TableOK
  <2>2. targets[p].known  BY <1>1 DEF GenInv, ClaimsIssued
  <2>3. targets[p].count < targets[p].gen  BY <1>1 DEF GenInv, CountedOncePerClaim
  <2> QED BY <2>1, <2>2, <2>3 DEF Row
<1>3. /\ targets'[p].known = targets[p].known
      /\ targets'[p].gen = targets[p].gen
      /\ targets'[p].count = targets[p].count + 1
  <2>1. PICK d \in Delay :
           targets' = [targets EXCEPT ![p] =
              [targets[p] EXCEPT !.status = local[w].outcome, !.nextAt = AppNow + d,
                 !.active = KeepsActive(local[w].outcome), !.count = targets[p].count + 1,
                 !.lease = NoLease]]
    BY DEF FinalizeCrawl
  <2>2. \A r \in Row : \A s, t, a, n :
           LET x == [r EXCEPT !.status = s, !.nextAt = t, !.active = a,
                              !.count = n, !.lease = NoLease]
           IN  x.known = r.known /\ x.gen = r.gen /\ x.count = n
    BY DEF Row
  <2>3. targets[p] \in Row  BY <1>1, TypeParts DEF TableOK
  <2>4. targets'[p] = [targets[p] EXCEPT !.status = local[w].outcome, !.nextAt = AppNow + d,
                 !.active = KeepsActive(local[w].outcome), !.count = targets[p].count + 1,
                 !.lease = NoLease]
    BY <2>1, <1>1, TypeParts DEF TableOK
  <2> QED BY <2>2, <2>3, <2>4
<1>4. \A q \in Player \ {p} : targets'[q] = targets[q]
  BY TypeParts DEF FinalizeCrawl, TableOK
<1>5. \A v \in Worker \ {w} : /\ Tag(v)' = Tag(v) /\ claim'[v] = claim[v] /\ pc'[v] = pc[v]
                              /\ (Holding(v)' <=> Holding(v))
  BY TypeParts DEF FinalizeCrawl, Return, WorkersOK, Tag, Holding
<1>6. Tag(w)' = NoPlayer /\ ~Holding(w)' /\ pc'[w] # "claim"
  BY TypeParts DEF FinalizeCrawl, Return, WorkersOK, Tag, Holding, NoClaim
<1>7. \A v \in Worker : Holding(v) \/ pc[v] = "claim" \/ Tag(v) # NoPlayer => Tag(v) \in Player
  BY TypeParts, HoldingTag
<1>8. \A v \in Worker \ {w} : Holding(v)' /\ Current(v)' => Tag(v) \in Player \ {p} /\ Holding(v) /\ Current(v)
  <2> SUFFICES ASSUME NEW v \in Worker \ {w}, Holding(v)', Current(v)'
               PROVE  Tag(v) \in Player \ {p} /\ Holding(v) /\ Current(v)
    OBVIOUS
  <2>1. Holding(v) /\ Tag(v) \in Player  BY <1>5, <1>7
  <2>2. claim[v].gen = targets'[Tag(v)].gen  BY <1>5 DEF Current
  <2>3. Tag(v) # p
    BY <2>2, <1>1, <1>3 DEF GenInv, Fenced, Current
  <2> QED BY <2>1, <2>2, <2>3, <1>4 DEF Current
<1> HIDE DEF p
<1>9. ClaimsIssued'
  <2>1. \A q \in Player : targets'[q].known = targets[q].known /\ targets'[q].gen = targets[q].gen
    BY <1>3, <1>4
  <2>2. \A q \in Player : ~targets'[q].known => targets'[q].gen = 0 /\ targets'[q].count = 0
    BY <1>2, <1>3, <1>4 DEF GenInv, ClaimsIssued
  <2>3. \A v \in Worker \ {w} :
           /\ Tag(v)' # NoPlayer => targets'[Tag(v)'].known
           /\ Holding(v)' => claim'[v].gen \in 1..targets'[Tag(v)'].gen
           /\ pc'[v] = "claim" => claim'[v].gen = targets'[Tag(v)'].gen + 1
    BY <2>1, <1>5, <1>7 DEF GenInv, ClaimsIssued
  <2> QED BY <2>2, <2>3, <1>6 DEF ClaimsIssued
<1>10. Fenced'
  BY <1>5, <1>6 DEF GenInv, Fenced
<1>11. CountedOncePerClaim'
  <2>1. \A q \in Player : targets'[q].count <= targets'[q].gen
    BY <1>2, <1>3, <1>4 DEF GenInv, CountedOncePerClaim
  <2>2. \A v \in Worker : Holding(v)' /\ Current(v)'
                             => targets'[Tag(v)'].count < targets'[Tag(v)'].gen
    BY <1>4, <1>5, <1>6, <1>8 DEF GenInv, CountedOncePerClaim
  <2> QED BY <2>1, <2>2 DEF CountedOncePerClaim
<1>12. HeldTargetIsLeased'
  BY <1>4, <1>5, <1>6, <1>8 DEF GenInv, HeldTargetIsLeased
<1> QED BY <1>9, <1>10, <1>11, <1>12 DEF GenInv

\* A crash: no claim is left, only the table.
LEMMA RestartInv ==
    ASSUME TypeOK, GenInv, Restart
    PROVE  GenInv'
<1>1. \A v \in Worker : Tag(v)' = NoPlayer /\ ~Holding(v)' /\ pc'[v] # "claim"
  BY DEF Restart, Tag, NoClaim, Holding
<1> QED BY <1>1 DEF Restart, GenInv, ClaimsIssued, Fenced, CountedOncePerClaim, HeldTargetIsLeased

\* Leaving RunOnce, or going on to its next statement, is quiet.
LEMMA ReturnQuiet ==
    ASSUME TypeOK, NEW w \in Worker, NEW next \in Resting, Return(w, next)
    PROVE  DropsClaim(w)
BY TypeParts DEF Return, DropsClaim, WorkersOK

LEMMA GotoQuiet ==
    ASSUME TypeOK, NEW w \in Worker, Holding(w), NEW next \in PC, Goto(w, next),
           next \notin {"idle", "sleep", "exited", "claim"}
    PROVE  KeepsClaims
BY TypeParts DEF Goto, KeepsClaims, Holding, WorkersOK

LEMMA QuietInv ==
    ASSUME TypeOK, GenInv, NEW w \in Worker, SameGenerations, KeepsClaims \/ DropsClaim(w)
    PROVE  GenInv'
BY KeepsClaimsInv, DropsClaimInv

LEMMA ShutdownOrQuiet ==
    ASSUME TypeOK, NEW w \in Worker, Holding(w), NEW next \in PC, NEW mem,
           next \notin {"idle", "sleep", "exited", "claim"}, ShutdownOr(w, next, mem)
    PROVE  KeepsClaims \/ DropsClaim(w)
BY ReturnQuiet, GotoQuiet DEF ShutdownOr, Resting

LEMMA ClassifiedQuiet ==
    ASSUME TypeOK, NEW w \in Worker, Tag(w) \in Player
    PROVE  /\ Classified(w) \in [Player -> Row]
           /\ \A p \in Player : /\ Classified(w)[p].known = targets[p].known
                                /\ Classified(w)[p].gen = targets[p].gen
                                /\ Classified(w)[p].count = targets[p].count
                                /\ Classified(w)[p].lease = targets[p].lease
<1>1. targets \in [Player -> Row]  BY DEF TypeOK
<1>2. pc[w] \notin Resting
  BY TypeParts, PlayerAssumption DEF WorkersOK
<1>3. Classified(w) \in [Player -> Row]  BY <1>2, ClassifiedType
<1>4. \A r \in Row : \A b, q :
         LET x == [r EXCEPT !.bucket = b, !.priority = q]
         IN  x.known = r.known /\ x.gen = r.gen /\ x.count = r.count /\ x.lease = r.lease
  BY DEF Row
<1>5. CASE Matches(w)
  <2> DEFINE row == [targets[Tag(w)] EXCEPT !.bucket = MyBucket(w),
                                           !.priority = PriorityForTrophies(local[w].trophies)]
  <2>1. Classified(w) = [targets EXCEPT ![Tag(w)] = row]  BY <1>5 DEF Classified
  <2>2. /\ row.known = targets[Tag(w)].known /\ row.gen = targets[Tag(w)].gen
        /\ row.count = targets[Tag(w)].count /\ row.lease = targets[Tag(w)].lease
    BY <1>1, <1>4
  <2> HIDE DEF row
  <2> QED BY <2>1, <2>2, <1>1, <1>3
<1>6. CASE ~Matches(w)  BY <1>3, <1>6 DEF Classified
<1> QED BY <1>5, <1>6

LEMMA SamplingInv ==
    ASSUME TypeOK, GenInv, NEW w \in Worker,
           Classify(w) \/ ClassifyEvict(w) \/ ClassifyFail(w) \/ RejectRolledBack(w)
              \/ EvictSelect(w) \/ EvictNobody(w) \/ EvictCommit(w)
              \/ UpdateCrawlProfile(w) \/ UpdateCrawlProfileFail(w)
    PROVE  GenInv'
<1>1. pc[w] \in {"classify", "evict", "evicting", "reprofile"}
  BY DEF Classify, ClassifyEvict, ClassifyFail, RejectRolledBack, EvictSelect,
         EvictNobody, EvictCommit, UpdateCrawlProfile, UpdateCrawlProfileFail, CanClassify
<1>2. Holding(w) /\ Tag(w) \in Player
  BY <1>1, TypeParts, BusyTag DEF Holding, Resting
<1>3. {"ceiling", "evict", "evicting"} \subseteq PC  BY DEF PC
<1>4. KeepsClaims \/ DropsClaim(w)
  <2>1. ASSUME NEW mem, ShutdownOr(w, "ceiling", mem) PROVE KeepsClaims \/ DropsClaim(w)
    BY <2>1, <1>2, <1>3, ShutdownOrQuiet
  <2>2. CASE Goto(w, "evict") \/ Goto(w, "evicting")
    BY <2>2, <1>2, <1>3, GotoQuiet
  <2> QED BY <2>1, <2>2 DEF Classify, ClassifyEvict, ClassifyFail, RejectRolledBack, EvictSelect,
         EvictNobody, EvictCommit, UpdateCrawlProfile, UpdateCrawlProfileFail
<1>5. SameGenerations
  <2>1. CASE UNCHANGED targets  BY <2>1 DEF SameGenerations
  <2>2. CASE targets' = Classified(w)  BY <2>2, <1>2, ClassifiedQuiet DEF SameGenerations
  <2>3. CASE EvictCommit(w)
    <3> DEFINE v == local[w].victim
               row == [Classified(w)[v] EXCEPT !.active = FALSE, !.status = "sampled_out"]
    <3>1. v \in Player  BY <2>3, TypeParts DEF EvictCommit, WorkersOK
    <3>2. Classified(w) \in [Player -> Row]  BY <1>2, ClassifiedQuiet
    <3>3. \A r \in Row :
             LET x == [r EXCEPT !.active = FALSE, !.status = "sampled_out"]
             IN  x.known = r.known /\ x.gen = r.gen /\ x.count = r.count /\ x.lease = r.lease
      BY DEF Row
    <3>4. targets' = [Classified(w) EXCEPT ![v] = row]  BY <2>3 DEF EvictCommit
    <3>5. /\ row.known = Classified(w)[v].known /\ row.gen = Classified(w)[v].gen
          /\ row.count = Classified(w)[v].count /\ row.lease = Classified(w)[v].lease
      BY <3>1, <3>2, <3>3
    <3> HIDE DEF row, v
    <3> QED BY <3>1, <3>2, <3>4, <3>5, <1>2, ClassifiedQuiet DEF SameGenerations
  <2>4. CASE UpdateCrawlProfile(w)
    <3> DEFINE row == [targets[Tag(w)] EXCEPT !.priority = PriorityForTrophies(local[w].trophies)]
    <3>1. targets' = [targets EXCEPT ![Tag(w)] = row]  BY <2>4 DEF UpdateCrawlProfile
    <3>2. \A r \in Row : \A q :
             LET x == [r EXCEPT !.priority = q]
             IN  x.known = r.known /\ x.gen = r.gen /\ x.count = r.count /\ x.lease = r.lease
      BY DEF Row
    <3>3. targets \in [Player -> Row]  BY DEF TypeOK
    <3>4. /\ row.known = targets[Tag(w)].known /\ row.gen = targets[Tag(w)].gen
          /\ row.count = targets[Tag(w)].count /\ row.lease = targets[Tag(w)].lease
      BY <3>2, <3>3, <1>2
    <3> HIDE DEF row
    <3> QED BY <3>1, <3>3, <3>4, <1>2 DEF SameGenerations
  <2> QED BY <2>1, <2>2, <2>3, <2>4 DEF Classify, ClassifyEvict, ClassifyFail, RejectRolledBack,
         EvictSelect, EvictNobody, UpdateCrawlProfileFail
<1> QED BY <1>4, <1>5, QuietInv

\* Every other step of a worker leaves the table alone, save those above.
LEMMA StepInv ==
    ASSUME TypeOK, GenInv, NEW w \in Worker, Step(w)
    PROVE  GenInv'
<1>1. CASE ClaimSelect(w)  BY <1>1, ClaimSelectInv
<1>2. CASE ClaimCommit(w)
  BY <1>2, LeaseInv DEF ClaimCommit, Goto
<1>3. CASE ClaimUnacked(w)
  <2>1. DropsClaim(w)  BY <1>3, ReturnQuiet DEF ClaimUnacked, Resting
  <2> QED BY <2>1, <1>3, LeaseInv DEF ClaimUnacked
<1>4. CASE ClaimEmpty(w) \/ ClaimFail(w) \/ Stop(w) \/ GlobalHalt(w) \/ OwnershipError(w)
              \/ FinalizeNoEffect(w)
  <2>1. DropsClaim(w)
    BY <1>4, ReturnQuiet
       DEF ClaimEmpty, ClaimFail, Stop, GlobalHalt, OwnershipError, FinalizeNoEffect, Resting
  <2>2. SameGenerations
    BY <1>4 DEF ClaimEmpty, ClaimFail, Stop, GlobalHalt, OwnershipError, FinalizeNoEffect,
                SameGenerations
  <2> QED BY <2>1, <2>2, QuietInv
<1>5. CASE Wake(w)
  <2>1. KeepsClaims
    BY <1>5, TypeParts DEF Wake, Goto, KeepsClaims, Holding, WorkersOK
  <2>2. SameGenerations  BY <1>5 DEF Wake, SameGenerations
  <2> QED BY <2>1, <2>2, QuietInv
<1>6. CASE GetPlayer(w) \/ GetBattleLog(w) \/ APIError(w) \/ CheckOwnership(w)
              \/ IngestPlayer(w) \/ IngestPlayerFail(w) \/ CheckCeiling(w)
              \/ BattlesDone(w) \/ BattlesFail(w)
  <2>1. Holding(w)
    BY <1>6 DEF GetPlayer, GetBattleLog, APIError, CheckOwnership, IngestPlayer,
                IngestPlayerFail, CheckCeiling, BattlesDone, BattlesFail, Holding
  <2>2. {"log", "owner", "ingest", "classify", "reprofile", "battles", "finalize"} \subseteq PC
    BY DEF PC
  <2>3. ASSUME NEW mem, ShutdownOr(w, "finalize", mem) PROVE KeepsClaims \/ DropsClaim(w)
    BY <2>1, <2>2, <2>3, ShutdownOrQuiet
  <2>4. ASSUME NEW next \in {"log", "owner", "ingest", "classify", "reprofile", "battles", "finalize"},
               Goto(w, next)
        PROVE  KeepsClaims
    BY <2>1, <2>2, <2>4, GotoQuiet
  <2>5. ASSUME Return(w, "idle") PROVE DropsClaim(w)
    BY <2>5, ReturnQuiet DEF Resting
  <2>6. KeepsClaims \/ DropsClaim(w)
    BY <1>6, <2>3, <2>4, <2>5
       DEF GetPlayer, GetBattleLog, APIError, CheckOwnership, IngestPlayer,
           IngestPlayerFail, CheckCeiling, BattlesDone, BattlesFail
  <2>7. SameGenerations
    BY <1>6 DEF GetPlayer, GetBattleLog, APIError, CheckOwnership, IngestPlayer,
                IngestPlayerFail, CheckCeiling, BattlesDone, BattlesFail, SameGenerations
  <2> QED BY <2>6, <2>7, QuietInv
<1>7. ASSUME NEW p \in Player, DiscoverPlayer(w, p) PROVE GenInv'
  BY <1>7, EnqueueInv DEF DiscoverPlayer
<1>8. CASE FinalizeCrawl(w)  BY <1>8, FinalizeInv
<1> QED BY <1>1, <1>2, <1>3, <1>4, <1>5, <1>6, <1>7, <1>8, SamplingInv DEF Step

LEMMA NextInv == TypeOK /\ GenInv /\ [Next]_vars => GenInv'
<1> SUFFICES ASSUME TypeOK, GenInv, [Next]_vars PROVE GenInv'
  OBVIOUS
<1>1. ASSUME NEW w \in Worker, Step(w) PROVE GenInv'  BY <1>1, StepInv
<1>2. ASSUME NEW p \in Player, CollectPlayer(p) PROVE GenInv'
  BY <1>2, EnqueueInv DEF CollectPlayer
<1>3. CASE Tick \/ Signal \/ UNCHANGED vars
  <2>1. UNCHANGED <<targets, pc, claim>>  BY <1>3 DEF Tick, Signal, vars
  <2>2. SameGenerations /\ KeepsClaims
    BY <2>1 DEF SameGenerations, KeepsClaims, Holding
  <2> QED BY <2>2, KeepsClaimsInv
<1>4. CASE Restart  BY <1>4, RestartInv
<1> QED BY <1>1, <1>2, <1>3, <1>4 DEF Next

LEMMA InitInv == Init => GenInv
<1> SUFFICES ASSUME Init PROVE GenInv
  OBVIOUS
<1>1. \A w \in Worker : Tag(w) = NoPlayer /\ ~Holding(w) /\ pc[w] # "claim"
  BY DEF Init, Tag, NoClaim, Holding
<1>2. \A p \in Player : targets[p].gen = 0 /\ targets[p].count = 0
  <2>1. \A b : LET r == [NewRow(0) EXCEPT !.known = b] IN r.gen = 0 /\ r.count = 0
    BY DEF NewRow
  <2>2. \A p \in Player : targets[p] = [NewRow(0) EXCEPT !.known = (p \in Seed)]
    BY DEF Init
  <2> QED BY <2>1, <2>2
<1> QED BY <1>1, <1>2 DEF GenInv, ClaimsIssued, Fenced, CountedOncePerClaim, HeldTargetIsLeased

\* The inductive invariant holds throughout.
THEOREM Inductive == Spec => []IInv
<1>1. Init => IInv  BY InitTypes, InitInv DEF IInv, GenInv
<1>2. IInv /\ [Next]_vars => IInv'  BY StepTypes, NextInv DEF IInv, GenInv
<1> QED BY <1>1, <1>2, PTL DEF Spec

\* Two workers on the same target never carry the same generation.
THEOREM FencedAlways == Spec => []Fenced
<1>1. IInv => Fenced  BY DEF IInv
<1> QED BY <1>1, Inductive, PTL

\* However many workers, retries and restarts, crawl_count never outruns
\* crawl_generation: no claim is finalized twice.
THEOREM CountedOnce == Spec => []CountedOncePerClaim
<1>1. IInv => CountedOncePerClaim  BY DEF IInv
<1> QED BY <1>1, Inductive, PTL

\* The row of a worker at the current generation shows a lease.
THEOREM HeldIsLeased == Spec => []HeldTargetIsLeased
<1>1. IInv => HeldTargetIsLeased  BY DEF IInv
<1> QED BY <1>1, Inductive, PTL

=============================================================================
