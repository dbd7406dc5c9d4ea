------------------------- MODULE CrawlerLeases_proofs -------------------------
(***************************************************************************)
(* What the row locks of Crawler are for: a claim under way keeps its row, *)
(* so that the table implements LeaseQueue, no lease is stolen and what is *)
(* deactivated stays so; and nobody is sampled out of a bucket with room.  *)
(***************************************************************************)
EXTENDS Crawler_proofs, FiniteSetTheorems

-----------------------------------------------------------------------------
(* What one step of a worker may touch.                                    *)

\* The other workers' variables, and the clock.
Frame(w) ==
    /\ now' = now
    /\ \A v \in Worker \ {w} : /\ pc'[v] = pc[v]
                               /\ claim'[v] = claim[v]
                               /\ local'[v] = local[v]

\* The columns that the queue is about.
SameQueue ==
    \A p \in Player : /\ targets'[p].known = targets[p].known
                      /\ targets'[p].active = targets[p].active
                      /\ targets'[p].gen = targets[p].gen
                      /\ targets'[p].count = targets[p].count
                      /\ targets'[p].lease = targets[p].lease

\* A bucket once assigned stays.
SameBuckets ==
    \A p \in Player :
        targets[p].bucket # NoBucket => targets'[p].bucket = targets[p].bucket

\* A row that is not in the table yet looks as it will when it is inserted.
BlankRows ==
    \A p \in Player :
        ~targets[p].known => targets[p].active /\ targets[p].bucket = NoBucket
                             /\ targets[p].lease = NoLease

\* The victim of an eviction is a classified row.
VictimInBucket ==
    \A w \in Worker :
        pc[w] = "evicting" => /\ targets[local[w].victim].known
                              /\ targets[local[w].victim].bucket # NoBucket

LEMMA ReturnFrame ==
    ASSUME WorkersOK, NEW w \in Worker, NEW next, Return(w, next), now' = now
    PROVE  Frame(w)
BY DEF Return, Frame, WorkersOK

LEMMA GotoFrame ==
    ASSUME WorkersOK, NEW w \in Worker, NEW next, Goto(w, next), now' = now,
           NEW m, local' = [local EXCEPT ![w] = m]
    PROVE  Frame(w)
BY DEF Goto, Frame, WorkersOK

LEMMA GotoKeepFrame ==
    ASSUME WorkersOK, NEW w \in Worker, NEW next, Goto(w, next), now' = now, UNCHANGED local
    PROVE  Frame(w)
BY DEF Goto, Frame, WorkersOK

LEMMA ShutdownOrFrame ==
    ASSUME WorkersOK, NEW w \in Worker, NEW next, NEW m, ShutdownOr(w, next, m), now' = now
    PROVE  Frame(w)
BY ReturnFrame, GotoFrame DEF ShutdownOr

LEMMA StepFrame ==
    ASSUME TypeOK, NEW w \in Worker, Step(w)
    PROVE  Frame(w)
<1> USE TypeParts, ReturnFrame, GotoKeepFrame, ShutdownOrFrame
<1>1. CASE ClaimSelect(w)
  BY <1>1 DEF ClaimSelect, Frame, WorkersOK
<1>2. CASE ClaimEmpty(w) \/ ClaimUnacked(w) \/ ClaimFail(w) \/ Stop(w)
             \/ GlobalHalt(w) \/ OwnershipError(w) \/ FinalizeNoEffect(w) \/ FinalizeCrawl(w)
  BY <1>2 DEF ClaimEmpty, ClaimUnacked, ClaimFail, Stop, GlobalHalt, OwnershipError,
              FinalizeNoEffect, FinalizeCrawl
<1>3. CASE ClaimCommit(w) \/ GetPlayer(w) \/ IngestPlayer(w) \/ EvictSelect(w)
             \/ BattlesDone(w) \/ CheckCeiling(w)
  BY <1>3 DEF ClaimCommit, GetPlayer, IngestPlayer, EvictSelect, BattlesDone, CheckCeiling,
              Goto, Frame, WorkersOK
<1>4. CASE Wake(w) \/ GetBattleLog(w) \/ ClassifyEvict(w)
  BY <1>4 DEF Wake, GetBattleLog, ClassifyEvict
<1>5. CASE APIError(w) \/ IngestPlayerFail(w) \/ Classify(w) \/ ClassifyFail(w)
             \/ RejectRolledBack(w) \/ EvictNobody(w) \/ EvictCommit(w)
             \/ UpdateCrawlProfile(w) \/ UpdateCrawlProfileFail(w) \/ BattlesFail(w)
  BY <1>5 DEF APIError, IngestPlayerFail, Classify, ClassifyFail, RejectRolledBack,
              EvictNobody, EvictCommit, UpdateCrawlProfile, UpdateCrawlProfileFail, BattlesFail
<1>6. CASE CheckOwnership(w)
  BY <1>6 DEF CheckOwnership
<1>7. ASSUME NEW p \in Player, DiscoverPlayer(w, p) PROVE Frame(w)
  BY <1>7 DEF DiscoverPlayer, Frame, WorkersOK
<1> QED BY <1>1, <1>2, <1>3, <1>4, <1>5, <1>6, <1>7 DEF Step

-----------------------------------------------------------------------------
(* What each step does to the table.                                       *)

\* The row w has claimed, or is claiming.
LEMMA RowOf ==
    ASSUME TypeOK, NEW w \in Worker, pc[w] \notin Resting
    PROVE  Tag(w) \in Player /\ targets[Tag(w)] \in Row
BY TypeParts, BusyTag DEF TableOK

\* Classification writes bucket and priority, and the bucket only if it was NULL.
LEMMA ClassifiedQueue ==
    ASSUME TypeOK, NEW w \in Worker, pc[w] \notin Resting
    PROVE  \A p \in Player :
              /\ Classified(w)[p].known = targets[p].known
              /\ Classified(w)[p].active = targets[p].active
              /\ Classified(w)[p].gen = targets[p].gen
              /\ Classified(w)[p].count = targets[p].count
              /\ Classified(w)[p].lease = targets[p].lease
              /\ targets[p].bucket # NoBucket => Classified(w)[p].bucket = targets[p].bucket
              /\ p # Tag(w) => Classified(w)[p] = targets[p]
<1>1. targets \in [Player -> Row] /\ Tag(w) \in Player  BY RowOf DEF TypeOK
<1>2. \A r \in Row : \A b, q :
         LET x == [r EXCEPT !.bucket = b, !.priority = q]
         IN  /\ x.known = r.known /\ x.active = r.active /\ x.gen = r.gen
             /\ x.count = r.count /\ x.lease = r.lease
  BY DEF Row
<1>3. CASE Matches(w)
  <2>1. PICK row : row = [targets[Tag(w)] EXCEPT !.bucket = MyBucket(w),
                                   !.priority = PriorityForTrophies(local[w].trophies)]
    OBVIOUS
  <2>2. Classified(w) = [targets EXCEPT ![Tag(w)] = row]  BY <1>3, <2>1 DEF Classified
  <2>3. /\ row.known = targets[Tag(w)].known /\ row.active = targets[Tag(w)].active
        /\ row.gen = targets[Tag(w)].gen /\ row.count = targets[Tag(w)].count
        /\ row.lease = targets[Tag(w)].lease
    BY <1>1, <1>2, <2>1
  <2> QED BY <1>1, <1>3, <2>2, <2>3 DEF Matches
<1>4. CASE ~Matches(w)  BY <1>4 DEF Classified
<1> QED BY <1>3, <1>4

\* The eviction deactivates its victim.
LEMMA EvictQueue ==
    ASSUME TypeOK, NEW w \in Worker, EvictCommit(w)
    PROVE  /\ local[w].victim \in Player
           /\ \A p \in Player :
              /\ targets'[p].known = targets[p].known
              /\ targets'[p].active = (p # local[w].victim /\ targets[p].active)
              /\ targets'[p].gen = targets[p].gen
              /\ targets'[p].count = targets[p].count
              /\ targets'[p].lease = targets[p].lease
              /\ targets[p].bucket # NoBucket => targets'[p].bucket = targets[p].bucket
<1>1. pc[w] = "evicting" /\ pc[w] \notin Resting  BY DEF EvictCommit, Resting
<1>2. local[w].victim \in Player  BY <1>1 DEF TypeOK
<1>3. Classified(w) \in [Player -> Row]  BY <1>1, ClassifiedType
<1>4. PICK table : table = Classified(w)  OBVIOUS
<1>5. PICK v : v = local[w].victim  OBVIOUS
<1>6. targets' = [table EXCEPT ![v] = [table[v] EXCEPT !.active = FALSE, !.status = "sampled_out"]]
  BY <1>4, <1>5 DEF EvictCommit
<1>7. \A r \in Row :
         LET x == [r EXCEPT !.active = FALSE, !.status = "sampled_out"]
         IN  /\ x.known = r.known /\ x.active = FALSE /\ x.gen = r.gen
             /\ x.count = r.count /\ x.lease = r.lease /\ x.bucket = r.bucket
  BY DEF Row
<1>8. table[v] \in Row  BY <1>2, <1>3, <1>4, <1>5
<1>9. PICK row : row = [table[v] EXCEPT !.active = FALSE, !.status = "sampled_out"]  OBVIOUS
<1>10. /\ row.known = table[v].known /\ row.active = FALSE /\ row.gen = table[v].gen
       /\ row.count = table[v].count /\ row.lease = table[v].lease /\ row.bucket = table[v].bucket
  BY <1>7, <1>8, <1>9
<1>11. targets' = [table EXCEPT ![v] = row]  BY <1>6, <1>9
<1>12. \A p \in Player :
         /\ targets'[p].known = table[p].known
         /\ targets'[p].active = IF p = v THEN FALSE ELSE table[p].active
         /\ targets'[p].gen = table[p].gen
         /\ targets'[p].count = table[p].count
         /\ targets'[p].lease = table[p].lease
         /\ targets'[p].bucket = table[p].bucket
  BY <1>2, <1>3, <1>4, <1>5, <1>10, <1>11
<1>13. \A p \in Player : table[p].active \in BOOLEAN  BY <1>3, <1>4 DEF Row
<1>14. \A p \in Player : /\ table[p].known = targets[p].known
                         /\ table[p].active = targets[p].active
                         /\ table[p].gen = targets[p].gen
                         /\ table[p].count = targets[p].count
                         /\ table[p].lease = targets[p].lease
                         /\ targets[p].bucket # NoBucket => table[p].bucket = targets[p].bucket
  BY <1>1, <1>4, ClassifiedQueue
<1>15. \A p \in Player : targets'[p].active = (p # local[w].victim /\ targets[p].active)
  BY <1>5, <1>12, <1>13, <1>14
<1> QED BY <1>2, <1>12, <1>14, <1>15

\* The claim's UPDATE.
LEMMA LeaseQueueRow ==
    ASSUME TypeOK, NEW w \in Worker, pc[w] = "claim", Lease(w)
    PROVE  /\ \A p \in Player \ {Tag(w)} : targets'[p] = targets[p]
           /\ targets'[Tag(w)].known = targets[Tag(w)].known
           /\ targets'[Tag(w)].active = targets[Tag(w)].active
           /\ targets'[Tag(w)].count = targets[Tag(w)].count
           /\ targets'[Tag(w)].bucket = targets[Tag(w)].bucket
           /\ targets'[Tag(w)].gen = claim[w].gen
           /\ targets'[Tag(w)].lease = local[w].at + LeaseTTL
<1>1. Tag(w) \in Player /\ targets[Tag(w)] \in Row  BY RowOf DEF Resting
<1>2. \A r \in Row : \A g, l :
         LET x == [r EXCEPT !.gen = g, !.lease = l]
         IN  /\ x.known = r.known /\ x.active = r.active /\ x.count = r.count
             /\ x.bucket = r.bucket /\ x.gen = g /\ x.lease = l
  BY DEF Row
<1>3. PICK p : p = Tag(w)  OBVIOUS
<1>4. targets' = [targets EXCEPT ![p] =
         [targets[p] EXCEPT !.gen = claim[w].gen, !.lease = local[w].at + LeaseTTL]]
  BY <1>3 DEF Lease
<1>5. targets \in [Player -> Row]  BY DEF TypeOK
<1>6. targets'[p] = [targets[p] EXCEPT !.gen = claim[w].gen, !.lease = local[w].at + LeaseTTL]
  BY <1>1, <1>3, <1>4, <1>5
<1>7. \A q \in Player \ {p} : targets'[q] = targets[q]  BY <1>4, <1>5
<1> QED BY <1>1, <1>2, <1>3, <1>6, <1>7

\* The outcome of a crawl.
LEMMA FinalizeQueue ==
    ASSUME TypeOK, NEW w \in Worker, FinalizeCrawl(w)
    PROVE  /\ \A p \in Player \ {Tag(w)} : targets'[p] = targets[p]
           /\ targets'[Tag(w)].known = targets[Tag(w)].known
           /\ targets'[Tag(w)].active \in BOOLEAN
           /\ targets'[Tag(w)].count = targets[Tag(w)].count + 1
           /\ targets'[Tag(w)].bucket = targets[Tag(w)].bucket
           /\ targets'[Tag(w)].gen = targets[Tag(w)].gen
           /\ targets'[Tag(w)].lease = NoLease
           /\ targets'[Tag(w)].status = local[w].outcome
<1>1. Tag(w) \in Player /\ targets[Tag(w)] \in Row
  BY RowOf DEF Resting, FinalizeCrawl
<1>2. \A r \in Row : \A s, t, a, n :
         LET x == [r EXCEPT !.status = s, !.nextAt = t, !.active = a, !.count = n,
                            !.lease = NoLease]
         IN  /\ x.known = r.known /\ x.active = a /\ x.count = n
             /\ x.bucket = r.bucket /\ x.gen = r.gen /\ x.lease = NoLease
             /\ x.status = s
  BY DEF Row
<1>3. PICK p : p = Tag(w)  OBVIOUS
<1>4. PICK d \in Delay :
         targets' = [targets EXCEPT ![p] =
            [targets[p] EXCEPT !.status = local[w].outcome, !.nextAt = AppNow + d,
               !.active = KeepsActive(local[w].outcome), !.count = targets[p].count + 1,
               !.lease = NoLease]]
  BY <1>3 DEF FinalizeCrawl
<1>5. targets \in [Player -> Row]  BY DEF TypeOK
<1>6. targets'[p] = [targets[p] EXCEPT !.status = local[w].outcome, !.nextAt = AppNow + d,
               !.active = KeepsActive(local[w].outcome), !.count = targets[p].count + 1,
               !.lease = NoLease]
  BY <1>1, <1>3, <1>4, <1>5
<1>7. \A q \in Player \ {p} : targets'[q] = targets[q]  BY <1>4, <1>5
<1>8. KeepsActive(local[w].outcome) \in BOOLEAN  BY DEF KeepsActive
<1> QED BY <1>1, <1>2, <1>3, <1>6, <1>7, <1>8

\* The insert, if the row is not there yet.
LEMMA EnqueueQueue ==
    ASSUME TypeOK, NEW p \in Player, Enqueue(p)
    PROVE  /\ \A q \in Player \ {p} : targets'[q] = targets[q]
           /\ targets[p].known => targets'[p] = targets[p]
           /\ ~targets[p].known =>
                 /\ targets'[p].known /\ targets'[p].active
                 /\ targets'[p].gen = 0 /\ targets'[p].count = 0
                 /\ targets'[p].lease = NoLease
BY TypeParts DEF Enqueue, TableOK, NewRow

\* Every step of a worker that is not one of these leaves the queue alone.
QuietStep(w) ==
    /\ SameQueue /\ SameBuckets
    /\ KeepsClaims \/ DropsClaim(w)

\* An eviction deactivates its victim and nothing else.
EvictStep(w) ==
    /\ EvictCommit(w)
    /\ KeepsClaims \/ DropsClaim(w)

LEMMA SameTable ==
    UNCHANGED targets => SameQueue /\ SameBuckets
BY DEF SameQueue, SameBuckets

LEMMA SamplingQueue ==
    ASSUME TypeOK, NEW w \in Worker,
           Classify(w) \/ ClassifyEvict(w) \/ ClassifyFail(w) \/ RejectRolledBack(w)
              \/ EvictSelect(w) \/ EvictNobody(w) \/ EvictCommit(w)
              \/ UpdateCrawlProfile(w) \/ UpdateCrawlProfileFail(w)
    PROVE  QuietStep(w) \/ EvictStep(w)
<1>1. pc[w] \in {"classify", "evict", "evicting", "reprofile"}
  BY DEF Classify, ClassifyEvict, ClassifyFail, RejectRolledBack, EvictSelect,
         EvictNobody, EvictCommit, UpdateCrawlProfile, UpdateCrawlProfileFail, CanClassify
<1>2. Holding(w) /\ Tag(w) \in Player /\ pc[w] \notin Resting
  BY <1>1, TypeParts, BusyTag DEF Holding, Resting
<1>3. {"ceiling", "evict", "evicting"} \subseteq PC  BY DEF PC
<1>4. KeepsClaims \/ DropsClaim(w)
  <2>1. ASSUME NEW mem, ShutdownOr(w, "ceiling", mem) PROVE KeepsClaims \/ DropsClaim(w)
    BY <2>1, <1>2, <1>3, ShutdownOrQuiet
  <2>2. CASE Goto(w, "evict") \/ Goto(w, "evicting")
    BY <2>2, <1>2, <1>3, GotoQuiet
  <2> QED BY <2>1, <2>2 DEF Classify, ClassifyEvict, ClassifyFail, RejectRolledBack, EvictSelect,
         EvictNobody, EvictCommit, UpdateCrawlProfile, UpdateCrawlProfileFail
<1>5. CASE UNCHANGED targets  BY <1>4, <1>5, SameTable DEF QuietStep
<1>6. CASE targets' = Classified(w)
  BY <1>2, <1>4, <1>6, ClassifiedQueue DEF QuietStep, SameQueue, SameBuckets
<1>7. CASE EvictCommit(w)  BY <1>4, <1>7 DEF EvictStep
<1>8. CASE UpdateCrawlProfile(w)
  <2>1. \A r \in Row : \A q :
           LET x == [r EXCEPT !.priority = q]
           IN  /\ x.known = r.known /\ x.active = r.active /\ x.gen = r.gen
               /\ x.count = r.count /\ x.lease = r.lease /\ x.bucket = r.bucket
    BY DEF Row
  <2>2. PICK row : row = [targets[Tag(w)] EXCEPT !.priority = PriorityForTrophies(local[w].trophies)]
    OBVIOUS
  <2>3. targets' = [targets EXCEPT ![Tag(w)] = row]  BY <1>8, <2>2 DEF UpdateCrawlProfile
  <2>4. /\ row.known = targets[Tag(w)].known /\ row.active = targets[Tag(w)].active
        /\ row.gen = targets[Tag(w)].gen /\ row.count = targets[Tag(w)].count
        /\ row.lease = targets[Tag(w)].lease /\ row.bucket = targets[Tag(w)].bucket
    BY <1>2, <2>1, <2>2, RowOf
  <2>5. targets \in [Player -> Row]  BY DEF TypeOK
  <2>6. SameQueue /\ SameBuckets
    BY <1>2, <2>3, <2>4, <2>5 DEF SameQueue, SameBuckets
  <2> QED BY <1>4, <2>6 DEF QuietStep
<1> QED BY <1>5, <1>6, <1>7, <1>8 DEF Classify, ClassifyEvict, ClassifyFail, RejectRolledBack,
       EvictSelect, EvictNobody, UpdateCrawlProfileFail

\* The steps of a worker, by what they do to the queue.
LEMMA StepQueue ==
    ASSUME TypeOK, NEW w \in Worker, Step(w)
    PROVE  \/ QuietStep(w)
           \/ EvictStep(w)
           \/ ClaimSelect(w)
           \/ ClaimCommit(w)
           \/ ClaimUnacked(w) /\ DropsClaim(w)
           \/ FinalizeCrawl(w) /\ DropsClaim(w)
           \/ \E p \in Player : DiscoverPlayer(w, p)
<1>1. CASE ClaimUnacked(w) \/ FinalizeCrawl(w)
  BY <1>1, ReturnQuiet DEF ClaimUnacked, FinalizeCrawl, Resting
<1>2. CASE ClaimEmpty(w) \/ ClaimFail(w) \/ Stop(w) \/ GlobalHalt(w) \/ OwnershipError(w)
              \/ FinalizeNoEffect(w)
  <2>1. DropsClaim(w)
    BY <1>2, ReturnQuiet
       DEF ClaimEmpty, ClaimFail, Stop, GlobalHalt, OwnershipError, FinalizeNoEffect, Resting
  <2>2. UNCHANGED targets
    BY <1>2 DEF ClaimEmpty, ClaimFail, Stop, GlobalHalt, OwnershipError, FinalizeNoEffect
  <2> QED BY <2>1, <2>2, SameTable DEF QuietStep
<1>3. CASE Wake(w)
  <2>1. KeepsClaims
    BY <1>3, TypeParts DEF Wake, Goto, KeepsClaims, Holding, WorkersOK
  <2> QED BY <2>1, <1>3, SameTable DEF QuietStep, Wake
<1>4. CASE GetPlayer(w) \/ GetBattleLog(w) \/ APIError(w) \/ CheckOwnership(w)
              \/ IngestPlayer(w) \/ IngestPlayerFail(w) \/ CheckCeiling(w)
              \/ BattlesDone(w) \/ BattlesFail(w)
  <2>1. Holding(w)
    BY <1>4 DEF GetPlayer, GetBattleLog, APIError, CheckOwnership, IngestPlayer,
                IngestPlayerFail, CheckCeiling, BattlesDone, BattlesFail, Holding
  <2>2. {"log", "owner", "ingest", "classify", "reprofile", "battles", "finalize"} \subseteq PC
    BY DEF PC
  <2>3. ASSUME NEW mem, ShutdownOr(w, "finalize", mem) PROVE KeepsClaims \/ DropsClaim(w)
    BY <2>1, <2>2, <2>3, ShutdownOrQuiet
  <2>4. ASSUME NEW next \in {"log", "owner", "ingest", "classify", "reprofile", "battles", "finalize"},
               Goto(w, next)
        PROVE  KeepsClaims
    BY <2>1, <2>2, <2>4, GotoQuiet
  <2>5. ASSUME Return(w, "idle") PROVE DropsClaim(w)
    BY <2>5, ReturnQuiet DEF Resting
  <2>6. KeepsClaims \/ DropsClaim(w)
    BY <1>4, <2>3, <2>4, <2>5
       DEF GetPlayer, GetBattleLog, APIError, CheckOwnership, IngestPlayer,
           IngestPlayerFail, CheckCeiling, BattlesDone, BattlesFail
  <2>7. UNCHANGED targets
    BY <1>4 DEF GetPlayer, GetBattleLog, APIError, CheckOwnership, IngestPlayer,
                IngestPlayerFail, CheckCeiling, BattlesDone, BattlesFail
  <2> QED BY <2>6, <2>7, SameTable DEF QuietStep
<1> QED BY <1>1, <1>2, <1>3, <1>4, SamplingQueue DEF Step

-----------------------------------------------------------------------------
(* The invariant of the row locks.                                         *)

LInv == ClaimsLocked /\ BlankRows /\ VictimInBucket

\* Only a claim transaction that begins, and only the choice of a victim, lead
\* to the two places where a worker holds somebody else's row.
LEMMA StepPlaces ==
    ASSUME TypeOK, NEW w \in Worker, Step(w)
    PROVE  /\ pc'[w] = "claim" => ClaimSelect(w)
           /\ pc'[w] = "evicting" => EvictSelect(w)
<1> USE TypeParts
<1>1. ASSUME NEW next, Return(w, next) \/ Goto(w, next) PROVE pc'[w] = next
  BY <1>1 DEF Return, Goto, WorkersOK
<1>2. ASSUME NEW next, NEW m, ShutdownOr(w, next, m) PROVE pc'[w] \in {next, "exited"}
  BY <1>2, <1>1 DEF ShutdownOr
<1>3. CASE ClaimEmpty(w) \/ ClaimCommit(w) \/ ClaimUnacked(w) \/ ClaimFail(w) \/ Wake(w)
             \/ Stop(w) \/ GetPlayer(w) \/ GetBattleLog(w) \/ APIError(w) \/ GlobalHalt(w)
             \/ CheckOwnership(w) \/ OwnershipError(w) \/ IngestPlayerFail(w)
  BY <1>1, <1>2, <1>3 DEF ClaimEmpty, ClaimCommit, ClaimUnacked, ClaimFail, Wake, Stop,
     GetPlayer, GetBattleLog, APIError, GlobalHalt, CheckOwnership, OwnershipError,
     IngestPlayerFail
<1>4. CASE IngestPlayer(w)
  <2>1. PICK next \in {"reprofile", "classify"} : Goto(w, next)  BY <1>4 DEF IngestPlayer
  <2> QED BY <1>1, <2>1
<1>5. CASE Classify(w) \/ ClassifyEvict(w) \/ ClassifyFail(w) \/ RejectRolledBack(w)
             \/ EvictNobody(w) \/ EvictCommit(w) \/ UpdateCrawlProfile(w)
             \/ UpdateCrawlProfileFail(w)
  BY <1>1, <1>2, <1>5 DEF Classify, ClassifyEvict, ClassifyFail, RejectRolledBack,
     EvictNobody, EvictCommit, UpdateCrawlProfile, UpdateCrawlProfileFail
<1>6. CASE CheckCeiling(w) \/ BattlesDone(w) \/ BattlesFail(w) \/ FinalizeCrawl(w)
             \/ FinalizeNoEffect(w)
  <2>1. Goto(w, "battles") \/ Goto(w, "finalize") \/ Return(w, "idle") \/ BattlesFail(w)
    BY <1>6 DEF CheckCeiling, BattlesDone, FinalizeCrawl, FinalizeNoEffect
  <2> QED BY <1>1, <1>2, <2>1 DEF BattlesFail
<1>7. ASSUME NEW p \in Player, DiscoverPlayer(w, p)
      PROVE  pc'[w] = "battles"
  BY <1>7 DEF DiscoverPlayer
<1>8. CASE ClaimSelect(w)
  BY <1>8 DEF ClaimSelect, WorkersOK
<1>9. CASE EvictSelect(w)
  BY <1>1, <1>9 DEF EvictSelect
<1> QED BY <1>3, <1>4, <1>5, <1>6, <1>7, <1>8, <1>9 DEF Step

\* A worker writes only rows that are in the table, or inserts one.
LEMMA BlankKept ==
    ASSUME TypeOK, GenInv, VictimInBucket, NEW w \in Worker, Step(w),
           NEW p \in Player, ~targets[p].known
    PROVE  targets'[p] = targets[p] \/ targets'[p].known
<1>1. pc[w] \notin Resting => Tag(w) \in Player /\ Tag(w) # p
  <2>1. Tag(w) # NoPlayer => targets[Tag(w)].known  BY DEF GenInv, ClaimsIssued
  <2>2. pc[w] \notin Resting => Tag(w) \in Player  BY TypeParts, BusyTag
  <2> QED BY <2>1, <2>2, PlayerAssumption
<1>2. CASE UNCHANGED targets  BY <1>2
<1>3. CASE pc[w] \notin Resting /\ targets' = Classified(w)
  BY <1>1, <1>3, ClassifiedQueue
<1>4. CASE EvictCommit(w)
  <2>1. pc[w] = "evicting" /\ pc[w] \notin Resting  BY <1>4 DEF EvictCommit, Resting
  <2>2. Classified(w)[p] = targets[p]  BY <1>1, <2>1, ClassifiedQueue
  <2>3. Classified(w) \in [Player -> Row]  BY <2>1, ClassifiedType
  <2>4. local[w].victim # p  BY <2>1 DEF VictimInBucket
  <2>5. PICK table : table = Classified(w)  OBVIOUS
  <2>6. PICK v : v = local[w].victim  OBVIOUS
  <2>7. targets' = [table EXCEPT ![v] =
                      [table[v] EXCEPT !.active = FALSE, !.status = "sampled_out"]]
    BY <1>4, <2>5, <2>6 DEF EvictCommit
  <2> QED BY <2>2, <2>3, <2>4, <2>5, <2>6, <2>7
<1>5. CASE ClaimCommit(w) \/ ClaimUnacked(w)
  BY <1>1, <1>5, LeaseQueueRow DEF ClaimCommit, ClaimUnacked, Resting
<1>6. CASE FinalizeCrawl(w)
  BY <1>1, <1>6, FinalizeQueue DEF FinalizeCrawl, Resting
<1>7. CASE UpdateCrawlProfile(w)
  <2>1. pc[w] \notin Resting  BY <1>7 DEF UpdateCrawlProfile, Resting
  <2>2. targets \in [Player -> Row]  BY DEF TypeOK
  <2> QED BY <1>1, <1>7, <2>1, <2>2 DEF UpdateCrawlProfile
<1>8. ASSUME NEW q \in Player, DiscoverPlayer(w, q)
      PROVE  targets'[p] = targets[p] \/ targets'[p].known
  BY <1>8, EnqueueQueue DEF DiscoverPlayer
<1>9. CASE Classify(w) \/ EvictNobody(w)
  <2>1. pc[w] \notin Resting /\ targets' = Classified(w)
    BY <1>9 DEF Classify, EvictNobody, CanClassify, Resting
  <2> QED BY <1>3, <2>1
<1>10. CASE ~(Classify(w) \/ EvictNobody(w) \/ EvictCommit(w) \/ ClaimCommit(w)
              \/ ClaimUnacked(w) \/ FinalizeCrawl(w) \/ UpdateCrawlProfile(w)
              \/ \E q \in Player : DiscoverPlayer(w, q))
  <2>1. UNCHANGED targets
    BY <1>10 DEF Step, ClaimSelect, ClaimEmpty, ClaimFail, Wake, Stop, GetPlayer,
       GetBattleLog, APIError, GlobalHalt, CheckOwnership, OwnershipError, IngestPlayer,
       IngestPlayerFail, ClassifyEvict, ClassifyFail, RejectRolledBack, EvictSelect,
       UpdateCrawlProfileFail, CheckCeiling, BattlesDone, BattlesFail, FinalizeNoEffect
  <2> QED BY <2>1
<1> QED BY <1>4, <1>5, <1>6, <1>7, <1>8, <1>9, <1>10

\* The victim of an eviction is chosen among the classified rows.
LEMMA VictimChosen ==
    ASSUME TypeOK, NEW w \in Worker, EvictSelect(w)
    PROVE  /\ targets' = targets
           /\ targets[local'[w].victim].known
           /\ targets[local'[w].victim].bucket # NoBucket
<1>1. PICK p \in Victims(w) : local' = [local EXCEPT ![w].victim = p]
  BY DEF EvictSelect
<1>2. p \in Player /\ targets[p].known /\ targets[p].bucket = MyBucket(w)
  BY <1>1 DEF Victims, OtherActive, Bucket, Rows
<1>3. local[w] \in LocalType  BY DEF TypeOK, LocalType
<1>4. local'[w].victim = p
  <2>1. local' = [local EXCEPT ![w] = [local[w] EXCEPT !.victim = p]]  BY <1>1
  <2>2. local'[w] = [local[w] EXCEPT !.victim = p]  BY <2>1 DEF TypeOK
  <2>3. [local[w] EXCEPT !.victim = p].victim = p  BY <1>2, <1>3, LocalTypes
  <2> QED BY <2>2, <2>3
<1>5. MyBucket(w) # NoBucket
  <2>1. local[w].trophies \in Nat  BY DEF TypeOK
  <2>2. BucketForTrophies(local[w].trophies) \in TrophyBucket  BY <2>1, BucketType
  <2> QED BY <2>2 DEF MyBucket, TrophyBucket, NoBucket
<1> QED BY <1>2, <1>4, <1>5 DEF EvictSelect

\* What the SELECT ... FOR UPDATE finds.
LEMMA ClaimChosen ==
    ASSUME TypeOK, NEW w \in Worker, ClaimSelect(w)
    PROVE  /\ targets' = targets /\ now' = now
           /\ local'[w].at = now
           /\ Tag(w)' \in Player
           /\ targets[Tag(w)'].known /\ targets[Tag(w)'].active
           /\ Unleased(Tag(w)', now)
           /\ \A v \in Worker \ {w} : pc[v] = "claim" => Tag(v) # Tag(w)'
<1>1. PICK p \in Claimable(w) :
         claim' = [claim EXCEPT ![w] = [tag |-> p, gen |-> targets[p].gen + 1,
                                        classified |-> targets[p].bucket # NoBucket]]
  BY DEF ClaimSelect
<1>2. Tag(w)' = p  BY <1>1 DEF TypeOK, Tag
<1>3. /\ p \in Player /\ targets[p].known /\ targets[p].active
      /\ Unleased(p, now) /\ ~LockedByOther(w, p)
  BY <1>1 DEF Claimable, ActiveRows, Rows
<1>4. local'[w].at = now
  BY DEF ClaimSelect, TypeOK, NoLocal
<1> QED BY <1>2, <1>3, <1>4 DEF ClaimSelect, LockedByOther

\* If nobody touches the rows that are being claimed, the claims stay locked.
LEMMA OthersKeepLocked ==
    ASSUME TypeOK, ClaimsLocked, NEW w \in Worker, Frame(w), pc'[w] # "claim",
           \A v \in Worker \ {w} : pc[v] = "claim" =>
              /\ targets'[Tag(v)].known = targets[Tag(v)].known
              /\ targets'[Tag(v)].active = targets[Tag(v)].active
              /\ targets'[Tag(v)].lease = targets[Tag(v)].lease
    PROVE  ClaimsLocked'
<1>1. \A v \in Worker \ {w} : Tag(v)' = Tag(v)  BY DEF Frame, Tag
<1>2. \A v \in Worker : pc'[v] = "claim" => v # w /\ pc[v] = "claim"  BY DEF Frame
<1>3. ASSUME NEW v \in Worker, pc'[v] = "claim"
      PROVE  /\ local'[v].at \in 0..now'
             /\ targets'[Tag(v)'].known /\ targets'[Tag(v)'].active
             /\ Unleased(Tag(v), local[v].at)'
  BY <1>1, <1>2, <1>3 DEF Frame, ClaimsLocked, Unleased
<1>4. ASSUME NEW u \in Worker, NEW v \in Worker, pc'[u] = "claim", pc'[v] = "claim",
             Tag(u)' = Tag(v)'
      PROVE  u = v
  BY <1>1, <1>2, <1>4 DEF ClaimsLocked
<1> QED BY <1>3, <1>4 DEF ClaimsLocked

\* Rows stay in the table, in the bucket they were given.
RowsKept ==
    \A p \in Player :
        /\ targets[p].known => targets'[p].known
        /\ targets[p].known /\ targets[p].bucket # NoBucket
              => targets'[p].bucket = targets[p].bucket

LEMMA StepRowsKept ==
    ASSUME TypeOK, NEW w \in Worker, Step(w)
    PROVE  RowsKept
<1>1. CASE QuietStep(w)  BY <1>1 DEF QuietStep, SameQueue, SameBuckets, RowsKept
<1>2. CASE EvictStep(w)  BY <1>2, EvictQueue DEF EvictStep, RowsKept
<1>3. CASE ClaimSelect(w)  BY <1>3 DEF ClaimSelect, RowsKept
<1>4. CASE ClaimCommit(w) \/ ClaimUnacked(w)
  BY <1>4, LeaseQueueRow DEF ClaimCommit, ClaimUnacked, RowsKept
<1>5. CASE FinalizeCrawl(w)  BY <1>5, FinalizeQueue DEF RowsKept
<1>6. ASSUME NEW q \in Player, DiscoverPlayer(w, q) PROVE RowsKept
  BY <1>6, EnqueueQueue DEF DiscoverPlayer, RowsKept
<1> QED BY <1>1, <1>2, <1>3, <1>4, <1>5, <1>6, StepQueue

\* A worker's step leaves the claims of the others locked.
LEMMA StepClaimsLocked ==
    ASSUME TypeOK, GenInv, LInv, NEW w \in Worker, Step(w)
    PROVE  ClaimsLocked'
<1> USE DEF LInv
<1>1. Frame(w)  BY StepFrame
<1>2. \A v \in Worker : pc[v] = "claim" => Tag(v) \in Player /\ targets[Tag(v)].known
  BY TypeParts, BusyTag DEF ClaimsLocked, Resting
<1>3. CASE ClaimSelect(w)
  <2>1. \A v \in Worker \ {w} : Tag(v)' = Tag(v) /\ pc'[v] = pc[v] /\ local'[v] = local[v]
    BY <1>1 DEF Frame, Tag
  <2>2. ASSUME NEW v \in Worker, pc'[v] = "claim"
        PROVE  /\ local'[v].at \in 0..now'
               /\ targets'[Tag(v)'].known /\ targets'[Tag(v)'].active
               /\ Unleased(Tag(v), local[v].at)'
    <3>1. CASE v = w
      <4>1. now \in Nat  BY DEF TypeOK
      <4> QED BY <1>3, <3>1, <4>1, ClaimChosen DEF Unleased
    <3>2. CASE v # w
      BY <1>3, <2>1, <2>2, <3>2, ClaimChosen DEF ClaimsLocked, Unleased
    <3> QED BY <3>1, <3>2
  <2>3. ASSUME NEW u \in Worker, NEW v \in Worker, pc'[u] = "claim", pc'[v] = "claim",
               Tag(u)' = Tag(v)'
        PROVE  u = v
    BY <1>3, <2>1, <2>3, ClaimChosen DEF ClaimsLocked
  <2> QED BY <2>2, <2>3 DEF ClaimsLocked
<1>4. CASE ~ClaimSelect(w)
  <2>1. pc'[w] # "claim"  BY <1>4, StepPlaces
  <2>2. SUFFICES ASSUME NEW v \in Worker \ {w}, pc[v] = "claim"
                 PROVE  /\ targets'[Tag(v)].known = targets[Tag(v)].known
                        /\ targets'[Tag(v)].active = targets[Tag(v)].active
                        /\ targets'[Tag(v)].lease = targets[Tag(v)].lease
    BY <1>1, <2>1, OthersKeepLocked
  <2>3. Tag(v) \in Player /\ targets[Tag(v)].known  BY <1>2, <2>2
  <2>4. CASE QuietStep(w)  BY <2>3, <2>4 DEF QuietStep, SameQueue
  <2>5. CASE EvictStep(w)
    <3>1. local[w].victim # Tag(v)
      BY <2>2, <2>5 DEF EvictStep, EvictCommit, LockedByOther
    <3>2. targets[Tag(v)].active \in BOOLEAN  BY <2>3 DEF TypeOK, Row
    <3>3. EvictCommit(w)  BY <2>5 DEF EvictStep
    <3> HIDE DEF LInv
    <3> QED BY <2>3, <3>1, <3>2, <3>3, EvictQueue, Zenon
  <2>6. CASE ClaimCommit(w) \/ ClaimUnacked(w)
    <3>1. pc[w] = "claim" /\ Lease(w)  BY <2>6 DEF ClaimCommit, ClaimUnacked
    <3>2. Tag(v) # Tag(w)  BY <2>2, <3>1 DEF ClaimsLocked
    <3> QED BY <2>3, <3>1, <3>2, LeaseQueueRow
  <2>7. CASE FinalizeCrawl(w)
    <3>1. Tag(v) # Tag(w)  BY <2>2, <2>7 DEF FinalizeCrawl, LockedByOther
    <3> QED BY <2>3, <2>7, <3>1, FinalizeQueue
  <2>8. ASSUME NEW q \in Player, DiscoverPlayer(w, q)
        PROVE  targets'[Tag(v)] = targets[Tag(v)]
    BY <2>3, <2>8, EnqueueQueue DEF DiscoverPlayer
  <2> QED BY <1>4, <2>4, <2>5, <2>6, <2>7, <2>8, StepQueue
<1> QED BY <1>3, <1>4

LEMMA StepLInv ==
    ASSUME TypeOK, GenInv, LInv, NEW w \in Worker, Step(w)
    PROVE  LInv'
<1>1. ClaimsLocked'  BY StepClaimsLocked
<1>2. BlankRows'
  <2>1. SUFFICES ASSUME NEW p \in Player, ~targets'[p].known
                 PROVE  targets'[p].active /\ targets'[p].bucket = NoBucket
                        /\ targets'[p].lease = NoLease
    BY DEF BlankRows
  <2>2. ~targets[p].known  BY <2>1, StepRowsKept DEF RowsKept
  <2>3. targets'[p] = targets[p]  BY <2>1, <2>2, BlankKept DEF LInv
  <2> QED BY <2>2, <2>3 DEF LInv, BlankRows
<1>3. VictimInBucket'
  <2>1. SUFFICES ASSUME NEW v \in Worker, pc'[v] = "evicting"
                 PROVE  /\ targets'[local'[v].victim].known
                        /\ targets'[local'[v].victim].bucket # NoBucket
    BY DEF VictimInBucket
  <2>2. CASE v = w  BY <2>1, <2>2, StepPlaces, VictimChosen
  <2>3. CASE v # w
    <3>1. pc[v] = "evicting" /\ local'[v] = local[v]  BY <2>1, <2>3, StepFrame DEF Frame
    <3>2. local[v].victim \in Player  BY <3>1 DEF TypeOK
    <3>3. /\ targets[local[v].victim].known
          /\ targets[local[v].victim].bucket # NoBucket
      BY <3>1 DEF LInv, VictimInBucket
    <3> QED BY <3>1, <3>2, <3>3, StepRowsKept DEF RowsKept
  <2> QED BY <2>2, <2>3
<1> QED BY <1>1, <1>2, <1>3 DEF LInv

\* `collect player' inserts a row nobody has.
LEMMA CollectLInv ==
    ASSUME TypeOK, GenInv, LInv, NEW p \in Player, CollectPlayer(p)
    PROVE  LInv'
<1>1. ~targets[p].known /\ Enqueue(p) /\ UNCHANGED <<now, pc, claim, local>>
  BY DEF CollectPlayer
<1>2. \A q \in Player : targets[q].known => targets'[q] = targets[q]
  BY <1>1, EnqueueQueue
<1>3. \A q \in Player : ~targets'[q].known => ~targets[q].known /\ targets'[q] = targets[q]
  BY <1>1, <1>2, EnqueueQueue
<1>4. \A v \in Worker : pc[v] = "claim" => Tag(v) \in Player
  BY TypeParts, BusyTag DEF Resting
<1>5. ClaimsLocked'
  BY <1>1, <1>2, <1>4 DEF LInv, ClaimsLocked, Unleased, Tag
<1>6. BlankRows'  BY <1>3 DEF LInv, BlankRows
<1>7. VictimInBucket'
  BY <1>1, <1>2 DEF LInv, VictimInBucket, TypeOK
<1> QED BY <1>5, <1>6, <1>7 DEF LInv

LEMMA NextLInv == TypeOK /\ GenInv /\ LInv /\ [Next]_vars => LInv'
<1> SUFFICES ASSUME TypeOK, GenInv, LInv, [Next]_vars PROVE LInv'
  OBVIOUS
<1>1. ASSUME NEW w \in Worker, Step(w) PROVE LInv'  BY <1>1, StepLInv
<1>2. ASSUME NEW p \in Player, CollectPlayer(p) PROVE LInv'  BY <1>2, CollectLInv
<1>3. CASE Tick \/ Signal \/ UNCHANGED vars
  <2>1. UNCHANGED <<targets, pc, claim, local>> /\ now' \in {now, now + 1}
    BY <1>3 DEF Tick, Signal, vars
  <2>2. \A n \in Nat : 0..n \subseteq 0..(n + 1)  OBVIOUS
  <2>3. now \in Nat  BY DEF TypeOK
  <2> QED BY <2>1, <2>2, <2>3
          DEF LInv, ClaimsLocked, BlankRows, VictimInBucket, Unleased, Tag
<1>4. CASE Restart
  BY <1>4 DEF Restart, LInv, ClaimsLocked, BlankRows, VictimInBucket
<1> QED BY <1>1, <1>2, <1>3, <1>4 DEF Next

LEMMA InitLInv == Init => LInv
<1> SUFFICES ASSUME Init PROVE LInv
  OBVIOUS
<1>1. \A b : LET r == [NewRow(0) EXCEPT !.known = b]
             IN  r.active /\ r.bucket = NoBucket /\ r.lease = NoLease
  BY DEF NewRow
<1>2. \A p \in Player : targets[p] = [NewRow(0) EXCEPT !.known = (p \in Seed)]
  BY DEF Init
<1> QED BY <1>1, <1>2 DEF Init, LInv, ClaimsLocked, BlankRows, VictimInBucket

\* The locks of the claim and eviction transactions hold what they are for.
THEOREM LocksHold == Spec => [](TypeOK /\ GenInv /\ LInv)
<1>1. Init => TypeOK /\ GenInv /\ LInv  BY InitTypes, InitInv, InitLInv
<1>2. (TypeOK /\ GenInv /\ LInv) /\ [Next]_vars => (TypeOK /\ GenInv /\ LInv)'
  BY StepTypes, NextInv, NextLInv
<1> QED BY <1>1, <1>2, PTL DEF Spec

\* A claim under way keeps its row to itself, active and free, until it commits
\* (crawl.go ClaimNextTarget, FOR UPDATE).
THEOREM ClaimsAreLocked == Spec => []ClaimsLocked
<1>1. LInv => ClaimsLocked  BY DEF LInv
<1> QED BY <1>1, LocksHold, PTL

\* No two classification transactions wait for each other's rows (sampling.go).
THEOREM NeverLockCycle == Spec => []NoLockCycle
<1>1. LInv => NoLockCycle
  BY DEF LInv, VictimInBucket, NoLockCycle, Classifying
<1> QED BY <1>1, LocksHold, PTL

-----------------------------------------------------------------------------
(* What no step does.                                                      *)

\* A claim that commits takes a free, active row.
LEMMA LeaseTakesFree ==
    ASSUME TypeOK, LInv, NEW w \in Worker, pc[w] = "claim"
    PROVE  /\ Tag(w) \in Player
           /\ targets[Tag(w)].known /\ targets[Tag(w)].active
           /\ local[w].at \in 0..now
           /\ targets[Tag(w)].lease = NoLease \/ targets[Tag(w)].lease < now
<1>1. Tag(w) \in Player /\ targets[Tag(w)] \in Row  BY RowOf DEF Resting
<1>2. targets[Tag(w)].lease \in Nat /\ now \in Nat  BY <1>1 DEF Row, TypeOK
<1>3. /\ targets[Tag(w)].known /\ targets[Tag(w)].active
      /\ local[w].at \in 0..now
      /\ Unleased(Tag(w), local[w].at)
  BY DEF LInv, ClaimsLocked
<1> QED BY <1>1, <1>2, <1>3 DEF Unleased

\* A target changes hands only when its lease has run out or was given back.
THEOREM NoLeaseIsStolen == Spec => NoLeaseStolen
<1> DEFINE Fair == \A p \in Player :
              targets'[p].gen # targets[p].gen
                 => targets[p].lease = NoLease \/ targets[p].lease < now
<1>1. TypeOK /\ GenInv /\ LInv /\ [Next]_vars => Fair
  <2> SUFFICES ASSUME TypeOK, GenInv, LInv, [Next]_vars PROVE Fair
    OBVIOUS
  <2>1. ASSUME NEW p \in Player, Enqueue(p) PROVE Fair
    <3>1. ~targets[p].known => targets[p].gen = 0  BY DEF GenInv, ClaimsIssued
    <3> QED BY <2>1, <3>1, EnqueueQueue
  <2>2. ASSUME NEW w \in Worker, Step(w) PROVE Fair
    <3>1. CASE QuietStep(w)  BY <3>1 DEF QuietStep, SameQueue
    <3>2. CASE EvictStep(w)  BY <3>2, EvictQueue DEF EvictStep
    <3>3. CASE ClaimSelect(w)  BY <3>3 DEF ClaimSelect
    <3>4. CASE ClaimCommit(w) \/ ClaimUnacked(w)
      BY <3>4, LeaseQueueRow, LeaseTakesFree DEF ClaimCommit, ClaimUnacked
    <3>5. CASE FinalizeCrawl(w)  BY <3>5, FinalizeQueue
    <3>6. ASSUME NEW q \in Player, DiscoverPlayer(w, q) PROVE Fair
      BY <3>6, <2>1 DEF DiscoverPlayer
    <3> QED BY <2>2, <3>1, <3>2, <3>3, <3>4, <3>5, <3>6, StepQueue
  <2>3. CASE Tick \/ Signal \/ Restart \/ UNCHANGED vars
    BY <2>3 DEF Tick, Signal, Restart, vars
  <2> QED BY <2>1, <2>2, <2>3 DEF Next, CollectPlayer
<1> QED BY <1>1, LocksHold, PTL DEF Spec, NoLeaseStolen

\* A deactivated target that nobody holds stays out of the queue.
THEOREM StaysDeactivated == Spec => DeactivatedForGood
<1> DEFINE Stays == \A p \in Player :
              (~targets[p].active /\ targets[p].lease = NoLease)
                 => /\ ~targets'[p].active
                    /\ targets'[p].lease = NoLease
                    /\ targets'[p].gen = targets[p].gen
<1>1. TypeOK /\ GenInv /\ LInv /\ [Next]_vars => Stays
  <2> SUFFICES ASSUME TypeOK, GenInv, LInv, [Next]_vars PROVE Stays
    OBVIOUS
  <2>1. ASSUME NEW p \in Player, Enqueue(p) PROVE Stays
    BY <2>1, EnqueueQueue DEF LInv, BlankRows
  <2>2. ASSUME NEW w \in Worker, Step(w) PROVE Stays
    <3>1. CASE QuietStep(w)  BY <3>1 DEF QuietStep, SameQueue
    <3>2. CASE EvictStep(w)
      <4>1. EvictCommit(w)  BY <3>2 DEF EvictStep
      <4>2. \A p \in Player : targets'[p].active => targets[p].active  BY <4>1, EvictQueue
      <4> QED BY <4>1, <4>2, EvictQueue
    <3>3. CASE ClaimSelect(w)  BY <3>3 DEF ClaimSelect
    <3>4. CASE ClaimCommit(w) \/ ClaimUnacked(w)
      BY <3>4, LeaseQueueRow, LeaseTakesFree DEF ClaimCommit, ClaimUnacked
    <3>5. CASE FinalizeCrawl(w)
      <4>1. Holding(w) /\ Current(w)
        BY <3>5 DEF FinalizeCrawl, FinalizeMatches, Holding
      <4>2. targets[Tag(w)].lease # NoLease  BY <4>1 DEF GenInv, HeldTargetIsLeased
      <4> QED BY <3>5, <4>2, FinalizeQueue
    <3>6. ASSUME NEW q \in Player, DiscoverPlayer(w, q) PROVE Stays
      BY <3>6, <2>1 DEF DiscoverPlayer
    <3> QED BY <2>2, <3>1, <3>2, <3>3, <3>4, <3>5, <3>6, StepQueue
  <2>3. CASE Tick \/ Signal \/ Restart \/ UNCHANGED vars
    BY <2>3 DEF Tick, Signal, Restart, vars
  <2> QED BY <2>1, <2>2, <2>3 DEF Next, CollectPlayer
<1> QED BY <1>1, LocksHold, PTL DEF Spec, DeactivatedForGood

\* A player's trophy bucket, once assigned, never changes.
THEOREM BucketNeverChanges == Spec => BucketIsSticky
<1> DEFINE Sticky == \A p \in Player :
              targets[p].bucket # NoBucket => targets'[p].bucket = targets[p].bucket
<1>1. TypeOK /\ GenInv /\ LInv /\ [Next]_vars => Sticky
  <2> SUFFICES ASSUME TypeOK, GenInv, LInv, [Next]_vars PROVE Sticky
    OBVIOUS
  <2>1. \A p \in Player : targets[p].bucket # NoBucket => targets[p].known
    BY DEF LInv, BlankRows
  <2>2. ASSUME NEW w \in Worker, Step(w) PROVE Sticky
    BY <2>1, <2>2, StepRowsKept DEF RowsKept
  <2>3. ASSUME NEW p \in Player, CollectPlayer(p) PROVE Sticky
    BY <2>1, <2>3, EnqueueQueue DEF CollectPlayer
  <2>4. CASE Tick \/ Signal \/ Restart \/ UNCHANGED vars
    BY <2>4 DEF Tick, Signal, Restart, vars
  <2> QED BY <2>2, <2>3, <2>4 DEF Next
<1> QED BY <1>1, LocksHold, PTL DEF Spec, BucketIsSticky

-----------------------------------------------------------------------------
(* The table implements the queue of leases.                               *)

LEMMA SameQueueView == SameQueue => QueueView' = QueueView
BY DEF SameQueue, QueueView

LEMMA KeepsHeldView == KeepsClaims => HeldView' = HeldView
BY DEF KeepsClaims, HeldView, Tag

LEMMA DropsHeldView ==
    ASSUME TypeOK, NEW w \in Worker, DropsClaim(w)
    PROVE  HeldView' = Queue!Without({w})
<1>1. \A v \in Worker \ {w} : Tag(v)' = Tag(v) /\ claim'[v] = claim[v]
                              /\ (Holding(v)' <=> Holding(v))
  BY DEF DropsClaim, Tag, Holding
<1>2. ~Holding(w)'  BY DEF DropsClaim, Holding, Resting
<1>3. HeldView' = [v \in Worker |-> IF v \in {w} THEN [tag |-> NoPlayer, gen |-> 0]
                                    ELSE HeldView[v]]
  BY <1>1, <1>2 DEF HeldView
<1> QED BY <1>3 DEF Queue!Without, Queue!NotHeld

LEMMA QuietSim ==
    ASSUME TypeOK, NEW w \in Worker, SameQueue, KeepsClaims \/ DropsClaim(w), now' = now
    PROVE  [Queue!Next]_(Queue!vars)
<1>1. QueueView' = QueueView  BY SameQueueView
<1>2. CASE KeepsClaims  BY <1>1, <1>2, KeepsHeldView DEF Queue!vars
<1>3. CASE DropsClaim(w)
  <2>1. Queue!GiveUp({w})  BY <1>1, <1>3, DropsHeldView DEF Queue!GiveUp
  <2> QED BY <2>1 DEF Queue!Next
<1> QED BY <1>2, <1>3

LEMMA EvictSim ==
    ASSUME TypeOK, LInv, NEW w \in Worker, EvictStep(w), now' = now
    PROVE  Queue!Next
<1>1. EvictCommit(w) /\ local[w].victim \in Player  BY EvictQueue DEF EvictStep
<1>2. PICK p \in Player : p = local[w].victim  BY <1>1
<1>3. QueueView[p].listed
  BY <1>1, <1>2 DEF QueueView, LInv, VictimInBucket, EvictCommit
<1>4. QueueView' = [QueueView EXCEPT ![p] = [QueueView[p] EXCEPT !.active = FALSE]]
  <2>1. \A q \in Player : QueueView'[q] = IF q = p THEN [QueueView[p] EXCEPT !.active = FALSE]
                                          ELSE QueueView[q]
    <3>1. SUFFICES ASSUME NEW q \in Player
                   PROVE  QueueView'[q] = IF q = p THEN [QueueView[p] EXCEPT !.active = FALSE]
                                          ELSE QueueView[q]
      OBVIOUS
    <3>2. /\ targets'[q].known = targets[q].known
          /\ targets'[q].active = (q # p /\ targets[q].active)
          /\ targets'[q].gen = targets[q].gen
          /\ targets'[q].count = targets[q].count
          /\ targets'[q].lease = targets[q].lease
      BY <1>1, <1>2, EvictQueue
    <3>3. targets[q].active \in BOOLEAN  BY DEF TypeOK, Row
    <3>4. targets'[q].active = IF q = p THEN FALSE ELSE targets[q].active
      BY <3>2, <3>3
    <3> QED BY <3>2, <3>4 DEF QueueView
  <2> QED BY <2>1 DEF QueueView
<1>5. CASE KeepsClaims
  <2>1. HeldView' = Queue!Without({})
    BY <1>5, KeepsHeldView DEF Queue!Without, HeldView
  <2>2. Queue!Deactivate(p, {})  BY <1>3, <1>4, <2>1 DEF Queue!Deactivate
  <2> QED BY <1>2, <2>2 DEF Queue!Next
<1>6. CASE DropsClaim(w)
  <2>1. Queue!Deactivate(p, {w})
    BY <1>3, <1>4, <1>6, DropsHeldView DEF Queue!Deactivate
  <2> QED BY <1>2, <2>1 DEF Queue!Next
<1> QED BY <1>5, <1>6 DEF EvictStep

LEMMA InsertSim ==
    ASSUME TypeOK, GenInv, LInv, NEW p \in Player, Enqueue(p), UNCHANGED <<now, pc, claim>>
    PROVE  [Queue!Next]_(Queue!vars)
<1>1. KeepsClaims  BY DEF KeepsClaims, Holding
<1>2. CASE targets[p].known
  <2>1. SameQueue  BY <1>2, EnqueueQueue DEF SameQueue
  <2> QED BY <1>1, <2>1, SameQueueView, KeepsHeldView DEF Queue!vars
<1>3. CASE ~targets[p].known
  <2>1. /\ \A q \in Player \ {p} : targets'[q] = targets[q]
        /\ targets'[p].known /\ targets'[p].active
        /\ targets'[p].gen = 0 /\ targets'[p].count = 0 /\ targets'[p].lease = NoLease
    BY <1>3, EnqueueQueue
  <2>2. targets' \in [Player -> Row]  BY EnqueueType
  <2>3. targets'[p].known = TRUE /\ targets'[p].active = TRUE  BY <2>1, <2>2 DEF Row
  <2>4. QueueView' = [QueueView EXCEPT ![p] = [listed |-> TRUE, active |-> TRUE, gen |-> 0,
                                               lease |-> NoLease, count |-> 0]]
    BY <2>1, <2>3 DEF QueueView
  <2>5. ~QueueView[p].listed  BY <1>3 DEF QueueView
  <2>6. Queue!List(p)  BY <1>1, <2>4, <2>5, KeepsHeldView DEF Queue!List
  <2> QED BY <2>6 DEF Queue!Next
<1> QED BY <1>2, <1>3

\* The claim's UPDATE, whether or not the worker hears of its commit.
LEMMA LeaseSim ==
    ASSUME TypeOK, GenInv, LInv, NEW w \in Worker, ClaimCommit(w) \/ ClaimUnacked(w)
    PROVE  Queue!Next
<1>1. pc[w] = "claim" /\ Lease(w) /\ now' = now  BY DEF ClaimCommit, ClaimUnacked
<1>2. PICK p \in Player : p = Tag(w)  BY <1>1, LeaseTakesFree
<1>3. claim[w].gen = targets[p].gen + 1  BY <1>1, <1>2 DEF GenInv, ClaimsIssued
<1>4. /\ QueueView[p].listed /\ QueueView[p].active
      /\ QueueView[p].lease = NoLease \/ QueueView[p].lease < now
      /\ QueueView[p].gen = targets[p].gen
  BY <1>1, <1>2, LeaseTakesFree DEF QueueView
<1>5. HeldView[w] = Queue!NotHeld
  BY <1>1 DEF HeldView, Holding, Queue!NotHeld
<1>6. PICK since \in 0..now : since = local[w].at  BY <1>1, LeaseTakesFree
<1>7. QueueView' = [QueueView EXCEPT ![p] =
                       [QueueView[p] EXCEPT !.gen = QueueView[p].gen + 1,
                                            !.lease = since + LeaseTTL]]
  <2>1. /\ \A q \in Player \ {p} : targets'[q] = targets[q]
        /\ targets'[p].known = targets[p].known /\ targets'[p].active = targets[p].active
        /\ targets'[p].count = targets[p].count
        /\ targets'[p].gen = claim[w].gen /\ targets'[p].lease = local[w].at + LeaseTTL
    BY <1>1, <1>2, LeaseQueueRow
  <2>2. \A q \in Player : QueueView'[q] =
           IF q = p THEN [QueueView[p] EXCEPT !.gen = QueueView[p].gen + 1,
                                              !.lease = since + LeaseTTL]
           ELSE QueueView[q]
    BY <1>3, <1>6, <2>1 DEF QueueView
  <2> QED BY <2>2 DEF QueueView
<1>8. HeldView' \in {HeldView, [HeldView EXCEPT ![w] =
                                  [tag |-> p, gen |-> QueueView[p].gen + 1]]}
  <2>1. CASE ClaimCommit(w)
    <3>1. claim' = claim /\ pc' = [pc EXCEPT ![w] = "player"]
      BY <2>1 DEF ClaimCommit, Goto
    <3>2. Holding(w)' /\ \A v \in Worker \ {w} : Holding(v)' <=> Holding(v)
      BY <3>1 DEF Holding, TypeOK
    <3> QED BY <1>2, <1>3, <1>4, <3>1, <3>2 DEF HeldView, Tag
  <2>2. CASE ClaimUnacked(w)
    <3>1. DropsClaim(w)  BY <2>2, ReturnQuiet DEF ClaimUnacked, Resting
    <3>2. HeldView' = Queue!Without({w})  BY <3>1, DropsHeldView
    <3> QED BY <1>5, <3>2 DEF Queue!Without, HeldView
  <2> QED BY <2>1, <2>2
<1>9. Queue!Claim(w, p)
  BY <1>1, <1>4, <1>5, <1>7, <1>8 DEF Queue!Claim, Queue!Free
<1> QED BY <1>9 DEF Queue!Next

LEMMA CompleteSim ==
    ASSUME TypeOK, GenInv, NEW w \in Worker, FinalizeCrawl(w), DropsClaim(w)
    PROVE  Queue!Next
<1>1. Holding(w) /\ Current(w) /\ pc[w] \notin Resting /\ now' = now
  BY DEF FinalizeCrawl, FinalizeMatches, Holding, Resting
<1>2. PICK p \in Player : p = Tag(w)  BY <1>1, RowOf
<1>3. HeldView[w] = [tag |-> p, gen |-> claim[w].gen]  BY <1>1, <1>2 DEF HeldView
<1>4. HeldView[w] # Queue!NotHeld  BY <1>3, PlayerAssumption DEF Queue!NotHeld
<1>5. HeldView[w].gen = QueueView[p].gen
  BY <1>1, <1>2, <1>3 DEF QueueView, Current
<1>6. QueueView[p].lease # NoLease
  BY <1>1, <1>2 DEF QueueView, GenInv, HeldTargetIsLeased
<1>7. PICK a \in BOOLEAN : a = targets'[p].active  BY <1>2, FinalizeQueue
<1>8. QueueView' = [QueueView EXCEPT ![p] =
                      [QueueView[p] EXCEPT !.lease = NoLease, !.active = a,
                                           !.count = QueueView[p].count + 1]]
  BY <1>2, <1>7, FinalizeQueue DEF QueueView
<1>9. HeldView' = [HeldView EXCEPT ![w] = Queue!NotHeld]
  BY DropsHeldView DEF Queue!Without, HeldView
<1>10. HeldView[w].tag = p  BY <1>3
<1>11. Queue!Complete(w)
  BY <1>1, <1>4, <1>5, <1>6, <1>8, <1>9, <1>10, Zenon DEF Queue!Complete
<1> QED BY <1>11 DEF Queue!Next

LEMMA NextSim ==
    TypeOK /\ GenInv /\ LInv /\ [Next]_vars => [Queue!Next]_(Queue!vars)
<1> SUFFICES ASSUME TypeOK, GenInv, LInv, [Next]_vars PROVE [Queue!Next]_(Queue!vars)
  OBVIOUS
<1>1. ASSUME NEW w \in Worker, Step(w) PROVE [Queue!Next]_(Queue!vars)
  <2>1. now' = now  BY <1>1, StepFrame DEF Frame
  <2>2. CASE QuietStep(w)  BY <2>1, <2>2, QuietSim DEF QuietStep
  <2>3. CASE EvictStep(w)  BY <2>1, <2>3, EvictSim
  <2>4. CASE ClaimSelect(w)
    <3>1. /\ pc[w] = "idle" /\ pc' = [pc EXCEPT ![w] = "claim"]
          /\ \A v \in Worker \ {w} : claim'[v] = claim[v]
          /\ UNCHANGED targets
      BY <2>4 DEF ClaimSelect, TypeOK
    <3>2. ~Holding(w) /\ ~Holding(w)'
          /\ \A v \in Worker \ {w} : (Holding(v)' <=> Holding(v)) /\ Tag(v)' = Tag(v)
      BY <3>1 DEF Holding, Tag, TypeOK
    <3>3. HeldView' = HeldView  BY <3>1, <3>2 DEF HeldView
    <3>4. QueueView' = QueueView  BY <3>1 DEF QueueView
    <3> QED BY <2>1, <3>3, <3>4 DEF Queue!vars
  <2>5. CASE ClaimCommit(w) \/ ClaimUnacked(w)  BY <2>5, LeaseSim
  <2>6. CASE FinalizeCrawl(w) /\ DropsClaim(w)  BY <2>6, CompleteSim
  <2>7. ASSUME NEW p \in Player, DiscoverPlayer(w, p) PROVE [Queue!Next]_(Queue!vars)
    BY <2>7, InsertSim DEF DiscoverPlayer
  <2> QED BY <1>1, <2>2, <2>3, <2>4, <2>5, <2>6, <2>7, StepQueue
<1>2. ASSUME NEW p \in Player, CollectPlayer(p) PROVE [Queue!Next]_(Queue!vars)
  BY <1>2, InsertSim DEF CollectPlayer
<1>3. CASE Tick
  <2>1. QueueView' = QueueView /\ HeldView' = HeldView /\ now' = now + 1
    BY <1>3 DEF Tick, QueueView, HeldView, Holding, Tag
  <2>2. Queue!Tick  BY <2>1 DEF Queue!Tick
  <2> QED BY <2>2 DEF Queue!Next
<1>4. CASE Signal \/ UNCHANGED vars
  <2>1. QueueView' = QueueView /\ HeldView' = HeldView /\ now' = now
    BY <1>4 DEF Signal, vars, QueueView, HeldView, Holding, Tag
  <2> QED BY <2>1 DEF Queue!vars
<1>5. CASE Restart
  <2>1. QueueView' = QueueView /\ now' = now  BY <1>5 DEF Restart, QueueView
  <2>2. \A w \in Worker : ~Holding(w)'  BY <1>5 DEF Restart, Holding
  <2>3. HeldView' = Queue!Without(Worker)
    BY <2>2 DEF HeldView, Queue!Without, Queue!NotHeld
  <2>4. Queue!GiveUp(Worker)  BY <2>1, <2>3 DEF Queue!GiveUp
  <2> QED BY <2>4 DEF Queue!Next
<1> QED BY <1>1, <1>2, <1>3, <1>4, <1>5 DEF Next

LEMMA InitSim == Init => Queue!Init
<1> SUFFICES ASSUME Init PROVE Queue!Init
  OBVIOUS
<1>1. \A b \in BOOLEAN : LET r == [NewRow(0) EXCEPT !.known = b]
             IN  /\ r.known = b /\ r.active = TRUE /\ r.gen = 0 /\ r.lease = NoLease
                 /\ r.count = 0
  BY DEF NewRow
<1>2. \A p \in Player : targets[p] = [NewRow(0) EXCEPT !.known = (p \in Seed)]
  BY DEF Init
<1>3. QueueView = [p \in Player |-> [listed |-> p \in Seed, active |-> TRUE, gen |-> 0,
                                     lease |-> NoLease, count |-> 0]]
  <2>1. \A p : (p \in Seed) \in BOOLEAN  OBVIOUS
  <2>2. \A p \in Player : /\ targets[p].known = (p \in Seed) /\ targets[p].active = TRUE
                          /\ targets[p].gen = 0 /\ targets[p].lease = NoLease
                          /\ targets[p].count = 0
    BY <1>1, <1>2, <2>1, Zenon
  <2> QED BY <2>2, Zenon DEF QueueView
<1>4. HeldView = [w \in Worker |-> Queue!NotHeld]
  BY DEF Init, HeldView, Holding, Queue!NotHeld
<1>5. now = 0 /\ Seed \in SUBSET Player  BY PlayerAssumption DEF Init
<1> QED BY <1>3, <1>4, <1>5 DEF Queue!Init

\* The claim queries, the eviction and the finalize, interleaved in every way,
\* implement the queue of leases.
THEOREM ImplementsLeaseQueue == Spec => IsLeaseQueue
<1>1. Init => Queue!Init  BY InitSim
<1>2. TypeOK /\ GenInv /\ LInv /\ [Next]_vars => [Queue!Next]_(Queue!vars)  BY NextSim
<1> QED BY <1>1, <1>2, LocksHold, PTL DEF Spec, IsLeaseQueue, Queue!Spec

-----------------------------------------------------------------------------
(* Who is sampled out, and from which buckets.                             *)

Overfull(S) == BucketCap > 0 /\ Cardinality(S) > BucketCap

\* Some bucket is above the cap, p itself included.
Crowded(p) == \E b \in TrophyBucket : Overfull(Bucket(b) \cup {p})

\* The row that an open classification has added, or will add, to its bucket.
Own(w) == IF Matches(w) THEN {Tag(w)} ELSE {}

Evicting(w) == pc[w] \in {"evict", "evicting"}

\* SampledOnlyWhenFull, of verdicts and evictions under way as well.
SampledInv ==
    /\ \A p \in Player : targets[p].status = "sampled_out" => Crowded(p)
    /\ \A w \in Worker :
        local[w].outcome = "sampled_out" => pc[w] \notin Resting /\ Crowded(Tag(w))
    /\ \A w \in Worker :
        Evicting(w) => Overfull(Bucket(MyBucket(w)) \cup Own(w))
    /\ \A w \in Worker :
        pc[w] = "evicting" => local[w].victim \in Bucket(MyBucket(w))
    /\ \A v, w \in Worker :
        v # w /\ Classifying(v) /\ Classifying(w) => Tag(v) # Tag(w)

LEMMA OverfullGrows ==
    ASSUME NEW T \in SUBSET Player, NEW S \in SUBSET T, Overfull(S)
    PROVE  Overfull(T)
<1>1. IsFiniteSet(T)  BY FinitePlayers, FS_Subset
<1>2. Cardinality(S) <= Cardinality(T) /\ IsFiniteSet(S)  BY <1>1, FS_Subset
<1>3. Cardinality(S) \in Nat /\ Cardinality(T) \in Nat  BY <1>1, <1>2, FS_CardinalityType
<1> QED BY <1>2, <1>3, ConfigAssumption DEF Overfull

\* Buckets never lose a row.
LEMMA BucketsGrow ==
    ASSUME RowsKept, NEW b \in TrophyBucket
    PROVE  Bucket(b) \subseteq Bucket(b)'
BY DEF RowsKept, Bucket, Rows, TrophyBucket, NoBucket

LEMMA CrowdedStays ==
    ASSUME RowsKept, NEW p \in Player, Crowded(p)
    PROVE  Crowded(p)'
<1>1. PICK b \in TrophyBucket : Overfull(Bucket(b) \cup {p})  BY DEF Crowded
<1>2. Bucket(b) \cup {p} \subseteq Bucket(b)' \cup {p}  BY BucketsGrow
<1>3. Bucket(b)' \cup {p} \subseteq Player  BY DEF Bucket, Rows
<1>4. Overfull(Bucket(b)' \cup {p})  BY <1>1, <1>2, <1>3, OverfullGrows
<1> QED BY <1>4 DEF Crowded, Overfull

LEMMA MyBucketType ==
    ASSUME TypeOK, NEW w \in Worker
    PROVE  MyBucket(w) \in TrophyBucket
<1>1. local[w].trophies \in Nat  BY DEF TypeOK
<1> QED BY <1>1, BucketType DEF MyBucket

\* The verdicts other than "keep".
LEMMA VerdictFull ==
    ASSUME TypeOK, NEW w \in Worker, pc[w] \notin Resting, Verdict(w) # {"keep"}
    PROVE  Overfull(Bucket(MyBucket(w)) \cup Own(w))
<1>1. ~(BucketCap = 0 \/ Seen(w) <= BucketCap)  BY DEF Verdict
<1>2. Seen(w) = Cardinality(Bucket(MyBucket(w)) \cup Own(w))  BY DEF Seen, Own
<1>3. Bucket(MyBucket(w)) \cup Own(w) \subseteq Player  BY RowOf DEF Bucket, Rows, Own
<1>4. Seen(w) \in Nat  BY <1>2, <1>3, FinitePlayers, FS_Subset, FS_CardinalityType
<1> QED BY <1>1, <1>2, <1>4, ConfigAssumption DEF Overfull

LEMMA StepStatus ==
    ASSUME TypeOK, NEW w \in Worker, Step(w), NEW p \in Player,
           targets'[p].status = "sampled_out"
    PROVE  \/ targets[p].status = "sampled_out"
           \/ FinalizeCrawl(w) /\ p = Tag(w) /\ local[w].outcome = "sampled_out"
           \/ EvictCommit(w) /\ p = local[w].victim
<1>1. targets \in [Player -> Row]  BY DEF TypeOK
<1>2. \A r \in Row : \A x, y, z, u :
         /\ [r EXCEPT !.bucket = x, !.priority = y].status = r.status
         /\ [r EXCEPT !.gen = x, !.lease = y].status = r.status
         /\ [r EXCEPT !.priority = x].status = r.status
         /\ [r EXCEPT !.status = x, !.nextAt = y, !.active = z, !.count = u,
                      !.lease = NoLease].status = x
  BY DEF Row
<1>3. CASE UNCHANGED targets  BY <1>3
<1>4. CASE pc[w] \notin Resting /\ targets' = Classified(w)
  <2>1. Classified(w)[p].status = targets[p].status  BY <1>1, <1>2 DEF Classified
  <2> QED BY <1>4, <2>1
<1>5. CASE EvictCommit(w) /\ p # local[w].victim
  <2>1. Classified(w)[p].status = targets[p].status  BY <1>1, <1>2 DEF Classified
  <2>2. pc[w] = "evicting" /\ pc[w] \notin Resting  BY <1>5 DEF EvictCommit, Resting
  <2>3. Classified(w) \in [Player -> Row]  BY <2>2, ClassifiedType
  <2>4. targets'[p] = Classified(w)[p]  BY <1>5, <2>3 DEF EvictCommit
  <2> QED BY <2>1, <2>4
<1>6. CASE Lease(w)  BY <1>1, <1>2, <1>6 DEF Lease
<1>7. CASE FinalizeCrawl(w)
  BY <1>7, FinalizeQueue
<1>8. CASE UpdateCrawlProfile(w)
  BY <1>1, <1>2, <1>8 DEF UpdateCrawlProfile
<1>9. ASSUME NEW q \in Player, Enqueue(q)  PROVE targets[p].status = "sampled_out"
  BY <1>1, <1>9 DEF Enqueue, NewRow
<1>10. CASE Classify(w) \/ EvictNobody(w)
  BY <1>4, <1>10 DEF Classify, EvictNobody, CanClassify, Resting
<1>11. CASE ~(Classify(w) \/ EvictNobody(w) \/ EvictCommit(w) \/ ClaimCommit(w)
              \/ ClaimUnacked(w) \/ FinalizeCrawl(w) \/ UpdateCrawlProfile(w)
              \/ \E q \in Player : DiscoverPlayer(w, q))
  <2>1. UNCHANGED targets
    BY <1>11 DEF Step, ClaimSelect, ClaimEmpty, ClaimFail, Wake, Stop, GetPlayer,
       GetBattleLog, APIError, GlobalHalt, CheckOwnership, OwnershipError, IngestPlayer,
       IngestPlayerFail, ClassifyEvict, ClassifyFail, RejectRolledBack, EvictSelect,
       UpdateCrawlProfileFail, CheckCeiling, BattlesDone, BattlesFail, FinalizeNoEffect
  <2> QED BY <1>3, <2>1
<1> QED BY <1>5, <1>6, <1>7, <1>8, <1>9, <1>10, <1>11
        DEF ClaimCommit, ClaimUnacked, DiscoverPlayer

\* Only a classification that holds the row assigns a bucket.
LEMMA StepBucket ==
    ASSUME TypeOK, NEW w \in Worker, Step(w), NEW p \in Player,
           targets[p].known, targets[p].bucket = NoBucket, targets'[p].bucket # NoBucket
    PROVE  p = Tag(w) /\ Matches(w) /\ (CanClassify(w) \/ Evicting(w))
<1>1. targets \in [Player -> Row]  BY DEF TypeOK
<1>2. \A r \in Row : \A x, y, z, u :
         /\ [r EXCEPT !.gen = x, !.lease = y].bucket = r.bucket
         /\ [r EXCEPT !.priority = x].bucket = r.bucket
         /\ [r EXCEPT !.active = x, !.status = y].bucket = r.bucket
         /\ [r EXCEPT !.status = x, !.nextAt = y, !.active = z, !.count = u,
                      !.lease = NoLease].bucket = r.bucket
  BY DEF Row
<1>3. ASSUME Classified(w)[p].bucket # NoBucket  PROVE p = Tag(w) /\ Matches(w)
  BY <1>1, <1>3 DEF Classified
<1>4. CASE Classify(w) \/ EvictNobody(w)
  BY <1>3, <1>4 DEF Classify, EvictNobody, Evicting
<1>5. CASE EvictCommit(w)
  <2>1. pc[w] = "evicting" /\ pc[w] \notin Resting  BY <1>5 DEF EvictCommit, Resting
  <2>2. PICK table : table = Classified(w)  OBVIOUS
  <2>3. table \in [Player -> Row]  BY <2>1, <2>2, ClassifiedType
  <2>4. PICK v : v = local[w].victim  OBVIOUS
  <2>5. targets' = [table EXCEPT ![v] = [table[v] EXCEPT !.active = FALSE, !.status = "sampled_out"]]
    BY <1>5, <2>2, <2>4 DEF EvictCommit
  <2>6. targets'[p].bucket = table[p].bucket  BY <1>2, <2>3, <2>5
  <2> QED BY <1>3, <2>1, <2>2, <2>6 DEF Evicting
<1>6. CASE ClaimCommit(w) \/ ClaimUnacked(w)
  BY <1>6, LeaseQueueRow DEF ClaimCommit, ClaimUnacked
<1>7. CASE FinalizeCrawl(w)
  BY <1>7, FinalizeQueue
<1>8. CASE UpdateCrawlProfile(w)
  BY <1>1, <1>2, <1>8 DEF UpdateCrawlProfile
<1>9. ASSUME NEW q \in Player, Enqueue(q)  PROVE FALSE
  BY <1>9, EnqueueQueue
<1>10. CASE ~(Classify(w) \/ EvictNobody(w) \/ EvictCommit(w) \/ ClaimCommit(w)
              \/ ClaimUnacked(w) \/ FinalizeCrawl(w) \/ UpdateCrawlProfile(w)
              \/ \E q \in Player : DiscoverPlayer(w, q))
  <2>1. UNCHANGED targets
    BY <1>10 DEF Step, ClaimSelect, ClaimEmpty, ClaimFail, Wake, Stop, GetPlayer,
       GetBattleLog, APIError, GlobalHalt, CheckOwnership, OwnershipError, IngestPlayer,
       IngestPlayerFail, ClassifyEvict, ClassifyFail, RejectRolledBack, EvictSelect,
       UpdateCrawlProfileFail, CheckCeiling, BattlesDone, BattlesFail, FinalizeNoEffect
  <2> QED BY <2>1
<1> QED BY <1>4, <1>5, <1>6, <1>7, <1>8, <1>9, <1>10 DEF DiscoverPlayer

\* A worker that says "sampled out" had the verdict, or has just been given it.
LEMMA StepOutcome ==
    ASSUME TypeOK, NEW w \in Worker, Step(w), local'[w].outcome = "sampled_out",
           local[w].outcome = "sampled_out" => pc[w] \notin Resting
    PROVE  /\ pc'[w] \notin Resting /\ claim'[w] = claim[w]
           /\ \/ local[w].outcome = "sampled_out"
              \/ CanClassify(w) /\ "reject" \in Verdict(w)
<1> USE TypeParts
<1>1. \A m \in LocalType : \A x : /\ [m EXCEPT !.trophies = x].outcome = m.outcome
                                 /\ [m EXCEPT !.at = x].outcome = m.outcome
                                 /\ [m EXCEPT !.victim = x].outcome = m.outcome
                                 /\ [m EXCEPT !.budget = x].outcome = m.outcome
                                 /\ [m EXCEPT !.found = x].outcome = m.outcome
                                 /\ [NoLocal EXCEPT !.at = x].outcome = "success"
                                 /\ [NoLocal EXCEPT !.outcome = x].outcome = x
  BY DEF LocalType, NoLocal
<1>2. NoLocal.outcome = "success"  BY DEF NoLocal
<1>3. local \in [Worker -> LocalType]  BY DEF WorkersOK
<1>4. ASSUME NEW next, Return(w, next)  PROVE local'[w].outcome = "success"
  BY <1>2, <1>3, <1>4 DEF Return
<1>5. ASSUME NEW next, Goto(w, next)  PROVE pc'[w] = next /\ claim'[w] = claim[w]
  BY <1>5 DEF Goto, WorkersOK
<1>6. ASSUME NEW next, NEW m, ShutdownOr(w, next, m)
      PROVE  \/ local'[w].outcome = "success"
             \/ local'[w] = m /\ pc'[w] = next /\ claim'[w] = claim[w]
  BY <1>3, <1>4, <1>5, <1>6 DEF ShutdownOr
<1>7. CASE ClaimEmpty(w) \/ ClaimUnacked(w) \/ ClaimFail(w) \/ Stop(w) \/ GlobalHalt(w)
             \/ OwnershipError(w) \/ FinalizeNoEffect(w) \/ FinalizeCrawl(w)
  BY <1>4, <1>7 DEF ClaimEmpty, ClaimUnacked, ClaimFail, Stop, GlobalHalt, OwnershipError,
     FinalizeNoEffect, FinalizeCrawl
<1>8. CASE ClaimSelect(w) \/ ClaimCommit(w)
  <2>1. local'[w] \in {[NoLocal EXCEPT !.at = now], NoLocal}
    BY <1>3, <1>8 DEF ClaimSelect, ClaimCommit
  <2> QED BY <1>1, <1>2, <1>3, <2>1
<1>9. CASE ClassifyFail(w) \/ EvictNobody(w) \/ EvictCommit(w)
             \/ UpdateCrawlProfile(w) \/ UpdateCrawlProfileFail(w)
  BY <1>2, <1>6, <1>9 DEF ClassifyFail, EvictNobody, EvictCommit, UpdateCrawlProfile,
     UpdateCrawlProfileFail
<1>10. CASE APIError(w) \/ IngestPlayerFail(w) \/ BattlesFail(w)
  <2>1. PICK t \in {"not_found", "error"} :
           ShutdownOr(w, "finalize", [NoLocal EXCEPT !.outcome = t])
    BY <1>10 DEF APIError, IngestPlayerFail, BattlesFail
  <2>2. PICK m : m = [NoLocal EXCEPT !.outcome = t]  OBVIOUS
  <2>3. m.outcome = t  BY <1>1, <2>2, NoLocalType
  <2>4. local'[w].outcome \in {"success", t}  BY <1>6, <2>1, <2>2, <2>3
  <2> QED BY <2>1, <2>4
<1>11. CASE GetPlayer(w) \/ GetBattleLog(w) \/ CheckOwnership(w) \/ IngestPlayer(w)
             \/ ClassifyEvict(w) \/ EvictSelect(w) \/ CheckCeiling(w) \/ BattlesDone(w)
  <2>1. PICK next \in PC \ Resting : Goto(w, next) \/ Return(w, "idle")
    BY <1>11 DEF GetPlayer, GetBattleLog, CheckOwnership, IngestPlayer, ClassifyEvict,
       EvictSelect, CheckCeiling, BattlesDone, PC, Resting
  <2>2. pc[w] \notin Resting
    BY <1>11 DEF GetPlayer, GetBattleLog, CheckOwnership, IngestPlayer, ClassifyEvict,
       EvictSelect, CheckCeiling, BattlesDone, Resting
  <2>3. Goto(w, next)  BY <1>4, <2>1
  <2>4. local[w] \in LocalType  BY <1>3
  <2>5. local'[w].outcome = local[w].outcome
    <3>1. CASE GetPlayer(w)
      <4>1. PICK t \in Trophies : local' = [local EXCEPT ![w].trophies = t]
        BY <3>1 DEF GetPlayer
      <4>2. local'[w] = [local[w] EXCEPT !.trophies = t]  BY <1>3, <4>1
      <4> QED BY <1>1, <2>4, <4>2
    <3>2. CASE IngestPlayer(w)
      <4>1. local'[w] = [local[w] EXCEPT !.at = now]  BY <1>3, <3>2 DEF IngestPlayer
      <4> QED BY <1>1, <2>4, <4>1
    <3>3. CASE EvictSelect(w)
      <4>1. PICK q \in Victims(w) : local' = [local EXCEPT ![w].victim = q]
        BY <3>3 DEF EvictSelect
      <4>2. local'[w] = [local[w] EXCEPT !.victim = q]  BY <1>3, <4>1
      <4> QED BY <1>1, <2>4, <4>2
    <3>4. CASE CheckCeiling(w)
      <4>1. PICK b : local' = [local EXCEPT ![w].budget = b]  BY <3>4 DEF CheckCeiling
      <4>2. local'[w] = [local[w] EXCEPT !.budget = b]  BY <1>3, <4>1
      <4> QED BY <1>1, <2>4, <4>2
    <3>5. CASE BattlesDone(w)
      <4>1. local'[w] = [NoLocal EXCEPT !.outcome = local[w].outcome]
        BY <1>3, <3>5 DEF BattlesDone
      <4> QED BY <1>1, <4>1
    <3>6. CASE GetBattleLog(w) \/ CheckOwnership(w) \/ ClassifyEvict(w)
      BY <1>4, <3>6 DEF GetBattleLog, CheckOwnership, ClassifyEvict
    <3> QED BY <1>11, <3>1, <3>2, <3>3, <3>4, <3>5, <3>6
  <2> QED BY <1>5, <2>1, <2>3, <2>5
<1>12. CASE Wake(w)
  BY <1>12 DEF Wake, Resting
<1>13. CASE Classify(w)
  <2>1. PICK v \in Verdict(w) \ {"evict"} : ShutdownOr(w, "ceiling", Verdicted(v))
    BY <1>13 DEF Classify
  <2>2. Verdicted(v).outcome = "sampled_out" => v = "reject"  BY <1>1 DEF Verdicted
  <2> QED BY <1>6, <1>13, <2>1, <2>2 DEF Classify, Resting
<1>14. CASE RejectRolledBack(w)
  BY <1>6, <1>14 DEF RejectRolledBack, Resting
<1>15. ASSUME NEW p \in Player, DiscoverPlayer(w, p)
       PROVE  /\ pc'[w] \notin Resting /\ claim'[w] = claim[w]
              /\ local[w].outcome = "sampled_out"
  <2>1. local[w] \in LocalType  BY <1>3
  <2>2. CASE UNCHANGED local  BY <1>15, <2>2 DEF DiscoverPlayer, Resting
  <2>3. CASE local' = [local EXCEPT ![w].found = @ + 1]
    <3>1. PICK n : n = local[w].found + 1  OBVIOUS
    <3>2. local'[w] = [local[w] EXCEPT !.found = n]  BY <1>3, <2>3, <3>1
    <3>3. local'[w].outcome = local[w].outcome  BY <1>1, <2>1, <3>2
    <3> QED BY <1>15, <3>3 DEF DiscoverPlayer, Resting
  <2> QED BY <1>15, <2>2, <2>3 DEF DiscoverPlayer
<1> QED BY <1>7, <1>8, <1>9, <1>10, <1>11, <1>12, <1>13, <1>14, <1>15 DEF Step

\* Two ways into, or on inside, the classifications that hold a bucket lock.
LEMMA StepEvicting ==
    ASSUME TypeOK, NEW w \in Worker, Step(w), Evicting(w)'
    PROVE  /\ UNCHANGED <<targets, claim>> /\ local'[w].trophies = local[w].trophies
           /\ \/ CanClassify(w) /\ "evict" \in Verdict(w) /\ pc'[w] = "evict"
              \/ pc[w] = "evict" /\ local'[w].victim \in Victims(w)
<1> USE TypeParts DEF Evicting
<1>1. ASSUME NEW next, Return(w, next) \/ Goto(w, next) PROVE pc'[w] = next
  BY <1>1 DEF Return, Goto, WorkersOK
<1>2. ASSUME NEW next, NEW m, ShutdownOr(w, next, m) PROVE pc'[w] \in {next, "exited"}
  BY <1>2, <1>1 DEF ShutdownOr
<1>3. CASE ClaimEmpty(w) \/ ClaimCommit(w) \/ ClaimUnacked(w) \/ ClaimFail(w) \/ Wake(w)
             \/ Stop(w) \/ GetPlayer(w) \/ GetBattleLog(w) \/ APIError(w) \/ GlobalHalt(w)
             \/ CheckOwnership(w) \/ OwnershipError(w) \/ IngestPlayerFail(w)
  BY <1>1, <1>2, <1>3 DEF ClaimEmpty, ClaimCommit, ClaimUnacked, ClaimFail, Wake, Stop,
     GetPlayer, GetBattleLog, APIError, GlobalHalt, CheckOwnership, OwnershipError,
     IngestPlayerFail
<1>4. CASE IngestPlayer(w)
  <2>1. PICK next \in {"reprofile", "classify"} : Goto(w, next)  BY <1>4 DEF IngestPlayer
  <2> QED BY <1>1, <2>1
<1>5. CASE Classify(w) \/ ClassifyFail(w) \/ RejectRolledBack(w) \/ EvictNobody(w)
             \/ EvictCommit(w) \/ UpdateCrawlProfile(w) \/ UpdateCrawlProfileFail(w)
  BY <1>1, <1>2, <1>5 DEF Classify, ClassifyFail, RejectRolledBack, EvictNobody,
     EvictCommit, UpdateCrawlProfile, UpdateCrawlProfileFail
<1>6. CASE CheckCeiling(w) \/ BattlesDone(w) \/ BattlesFail(w) \/ FinalizeCrawl(w)
             \/ FinalizeNoEffect(w)
  <2>1. Goto(w, "battles") \/ Goto(w, "finalize") \/ Return(w, "idle") \/ BattlesFail(w)
    BY <1>6 DEF CheckCeiling, BattlesDone, FinalizeCrawl, FinalizeNoEffect
  <2> QED BY <1>1, <1>2, <2>1 DEF BattlesFail
<1>7. ASSUME NEW p \in Player, DiscoverPlayer(w, p)
      PROVE  pc'[w] = "battles"
  BY <1>7 DEF DiscoverPlayer
<1>8. CASE ClaimSelect(w)
  BY <1>8 DEF ClaimSelect, WorkersOK
<1>9. CASE ClassifyEvict(w)
  BY <1>1, <1>9 DEF ClassifyEvict, Goto
<1>10. CASE EvictSelect(w)
  <2>1. PICK q \in Victims(w) : local' = [local EXCEPT ![w].victim = q]
    BY <1>10 DEF EvictSelect
  <2>2. local'[w] = [local[w] EXCEPT !.victim = q] /\ local[w] \in LocalType
    BY <2>1 DEF WorkersOK
  <2>3. local'[w].victim = q /\ local'[w].trophies = local[w].trophies
    BY <2>2 DEF LocalType
  <2> QED BY <1>10, <2>3 DEF EvictSelect, Goto
<1> QED BY <1>3, <1>4, <1>5, <1>6, <1>7, <1>8, <1>9, <1>10 DEF Step

\* A row that another worker has classified in an open transaction stays as it is.
LEMMA OwnKept ==
    ASSUME TypeOK, GenInv, SampledInv, NEW w \in Worker, Step(w),
           NEW v \in Worker \ {w}, Classifying(v)
    PROVE  targets'[Tag(v)].bucket = NoBucket
<1>1. pc[v] \notin Resting  BY DEF Classifying, Resting
<1>2. Tag(v) \in Player /\ Tag(v) # NoPlayer  BY <1>1, RowOf, PlayerAssumption
<1>3. targets[Tag(v)].known  BY <1>2 DEF GenInv, ClaimsIssued
<1>4. SUFFICES ASSUME targets'[Tag(v)].bucket # NoBucket PROVE FALSE
  OBVIOUS
<1>5. Tag(v) = Tag(w) /\ Matches(w) /\ (CanClassify(w) \/ Evicting(w))
  BY <1>2, <1>3, <1>4, StepBucket DEF Classifying
<1>6. CASE CanClassify(w)
  BY <1>5, <1>6 DEF CanClassify, LockedByOther
<1>7. CASE Evicting(w)
  BY <1>5, <1>7 DEF Evicting, Classifying, Matches, SampledInv
<1> QED BY <1>5, <1>6, <1>7

\* The eviction classifies the row of the evictor as well.
LEMMA EvictOwn ==
    ASSUME TypeOK, GenInv, NEW w \in Worker, EvictCommit(w), NEW b, b = MyBucket(w)
    PROVE  Own(w) \subseteq Bucket(b)'
<1>1. pc[w] = "evicting" /\ pc[w] \notin Resting  BY DEF EvictCommit, Resting
<1>2. Tag(w) \in Player /\ Tag(w) # NoPlayer /\ targets[Tag(w)] \in Row
  BY <1>1, RowOf, PlayerAssumption
<1>3. targets[Tag(w)].known  BY <1>2 DEF GenInv, ClaimsIssued
<1>4. SUFFICES ASSUME Matches(w) PROVE targets'[Tag(w)].known
                                       /\ targets'[Tag(w)].bucket = MyBucket(w)
  BY <1>2 DEF Own, Bucket, Rows
<1>5. \A r \in Row : \A x, y :
         /\ [r EXCEPT !.bucket = x, !.priority = y].bucket = x
         /\ [r EXCEPT !.bucket = x, !.priority = y].known = r.known
         /\ [r EXCEPT !.active = x, !.status = y].bucket = r.bucket
         /\ [r EXCEPT !.active = x, !.status = y].known = r.known
  BY DEF Row
<1>6. PICK table : table = Classified(w)  OBVIOUS
<1>7. table \in [Player -> Row]  BY <1>1, <1>6, ClassifiedType
<1>8. table[Tag(w)].known /\ table[Tag(w)].bucket = MyBucket(w)
  <2>1. targets \in [Player -> Row]  BY DEF TypeOK
  <2>2. table[Tag(w)] = [targets[Tag(w)] EXCEPT !.bucket = MyBucket(w),
                            !.priority = PriorityForTrophies(local[w].trophies)]
    BY <1>2, <1>4, <1>6, <2>1 DEF Classified
  <2> QED BY <1>2, <1>3, <1>5, <2>2
<1>9. PICK v : v = local[w].victim  OBVIOUS
<1>10. targets' = [table EXCEPT ![v] = [table[v] EXCEPT !.active = FALSE, !.status = "sampled_out"]]
  BY <1>6, <1>9 DEF EvictCommit
<1> QED BY <1>2, <1>5, <1>7, <1>8, <1>10

LEMMA StepSampledInv ==
    ASSUME TypeOK, GenInv, SampledInv, NEW w \in Worker, Step(w)
    PROVE  SampledInv'
<1>1. RowsKept /\ Frame(w)  BY StepRowsKept, StepFrame
<1>2. Evicting(w) => pc[w] \notin Resting  BY DEF Evicting, Resting
<1>3. ASSUME NEW p \in Player, targets'[p].status = "sampled_out"  PROVE Crowded(p)'
  <2>1. CASE targets[p].status = "sampled_out"
    BY <1>1, <2>1, CrowdedStays DEF SampledInv
  <2>2. CASE p = Tag(w) /\ local[w].outcome = "sampled_out"
    BY <1>1, <2>2, CrowdedStays DEF SampledInv
  <2>3. CASE EvictCommit(w) /\ p = local[w].victim
    <3>1. PICK b : b = MyBucket(w)  OBVIOUS
    <3>2. b \in TrophyBucket  BY <3>1, MyBucketType
    <3>3. pc[w] = "evicting" /\ Evicting(w)  BY <2>3 DEF EvictCommit, Evicting
    <3>4. Overfull(Bucket(b) \cup Own(w))  BY <3>1, <3>3 DEF SampledInv
    <3>5. Bucket(b) \cup Own(w) \subseteq Bucket(b)' \cup {p}
      BY <1>1, <2>3, <3>1, <3>2, EvictOwn, BucketsGrow
    <3>6. Bucket(b)' \cup {p} \subseteq Player  BY DEF Bucket, Rows
    <3>7. Overfull(Bucket(b)' \cup {p})  BY <3>4, <3>5, <3>6, OverfullGrows
    <3> QED BY <3>2, <3>7 DEF Crowded, Overfull
  <2> QED BY <1>3, <2>1, <2>2, <2>3, StepStatus
<1>4. ASSUME NEW v \in Worker, local'[v].outcome = "sampled_out"
      PROVE  pc'[v] \notin Resting /\ Crowded(Tag(v))'
  <2>1. CASE v # w
    <3>1. local[v].outcome = "sampled_out" /\ pc'[v] = pc[v] /\ Tag(v)' = Tag(v)
      BY <1>1, <1>4, <2>1 DEF Frame, Tag
    <3>2. pc[v] \notin Resting /\ Crowded(Tag(v))  BY <3>1 DEF SampledInv
    <3>3. PICK p \in Player : p = Tag(v)  BY <3>2, RowOf
    <3>4. Crowded(p)'  BY <1>1, <3>2, <3>3, CrowdedStays
    <3> QED BY <3>1, <3>2, <3>3, <3>4 DEF Crowded
  <2>2. CASE v = w
    <3>1. /\ pc'[w] \notin Resting /\ claim'[w] = claim[w]
          /\ \/ local[w].outcome = "sampled_out"
             \/ CanClassify(w) /\ "reject" \in Verdict(w)
      BY <1>4, <2>2, StepOutcome DEF SampledInv
    <3>2. pc[w] \notin Resting  BY <3>1 DEF SampledInv, CanClassify, Resting
    <3>3. PICK p \in Player : p = Tag(w)  BY <3>2, RowOf
    <3>4. Tag(w)' = p  BY <3>1, <3>3 DEF Tag
    <3>5. CASE local[w].outcome = "sampled_out"
      BY <1>1, <2>2, <3>1, <3>3, <3>4, <3>5, CrowdedStays DEF SampledInv, Crowded
    <3>6. CASE CanClassify(w) /\ "reject" \in Verdict(w)
      <4>1. PICK b \in TrophyBucket : b = MyBucket(w)  BY MyBucketType
      <4>2. Overfull(Bucket(b) \cup Own(w))  BY <3>2, <3>6, <4>1, VerdictFull
      <4>3. Bucket(b) \cup Own(w) \subseteq Bucket(b)' \cup {p}
        BY <1>1, <3>3, BucketsGrow DEF Own
      <4>4. Bucket(b)' \cup {p} \subseteq Player  BY DEF Bucket, Rows
      <4>5. Overfull(Bucket(b)' \cup {p})  BY <4>2, <4>3, <4>4, OverfullGrows
      <4> QED BY <2>2, <3>1, <3>4, <4>5 DEF Crowded, Overfull
    <3> QED BY <3>1, <3>5, <3>6
  <2> QED BY <2>1, <2>2
<1>5. ASSUME NEW v \in Worker, Evicting(v)'
      PROVE  /\ Overfull(Bucket(MyBucket(v)) \cup Own(v))'
             /\ pc'[v] = "evicting" => local'[v].victim \in Bucket(MyBucket(v))'
  <2>1. PICK b \in TrophyBucket : b = MyBucket(v)  BY MyBucketType
  <2>2. CASE v # w
    <3>1. /\ pc'[v] = pc[v] /\ Tag(v)' = Tag(v) /\ local'[v] = local[v]
          /\ MyBucket(v)' = b /\ Evicting(v)
      BY <1>1, <1>5, <2>1, <2>2 DEF Frame, Tag, MyBucket, Evicting
    <3>2. Own(v) \subseteq Own(v)'
      BY <2>2, <3>1, OwnKept DEF Own, Matches, Evicting, Classifying
    <3>3. Bucket(b) \subseteq Bucket(b)'  BY <1>1, BucketsGrow
    <3>4. Tag(v) \in Player  BY <3>1, RowOf DEF Evicting, Resting
    <3>5. Bucket(b)' \cup Own(v)' \subseteq Player  BY <3>1, <3>4 DEF Bucket, Rows, Own
    <3>6. Overfull(Bucket(b) \cup Own(v))  BY <2>1, <3>1 DEF SampledInv
    <3>7. Overfull(Bucket(b)' \cup Own(v)')
      BY <3>2, <3>3, <3>5, <3>6, OverfullGrows
    <3>8. Bucket(MyBucket(v))' = Bucket(b)'  BY <3>1 DEF Bucket
    <3>9. pc[v] = "evicting" => local[v].victim \in Bucket(b)  BY <2>1 DEF SampledInv
    <3> QED BY <3>1, <3>3, <3>7, <3>8, <3>9 DEF Overfull
  <2>3. CASE v = w
    <3>1. /\ UNCHANGED <<targets, claim>> /\ local'[w].trophies = local[w].trophies
          /\ \/ CanClassify(w) /\ "evict" \in Verdict(w) /\ pc'[w] = "evict"
             \/ pc[w] = "evict" /\ local'[w].victim \in Victims(w)
      BY <1>5, <2>3, StepEvicting
    <3>2. MyBucket(w)' = MyBucket(w) /\ Own(w)' = Own(w)
          /\ Bucket(MyBucket(w))' = Bucket(MyBucket(w))
      BY <3>1 DEF MyBucket, Own, Matches, Tag, Bucket, Rows
    <3>3. Overfull(Bucket(MyBucket(w)) \cup Own(w))
      BY <3>1, VerdictFull DEF SampledInv, Evicting, CanClassify, Resting
    <3>4. pc'[w] = "evicting" => local'[w].victim \in Bucket(MyBucket(w))
      BY <3>1 DEF Victims, OtherActive
    <3> QED BY <2>3, <3>2, <3>3, <3>4 DEF Overfull
  <2> QED BY <2>2, <2>3
<1>6. ASSUME NEW u \in Worker, NEW v \in Worker, u # v, Classifying(u)', Classifying(v)'
      PROVE  Tag(u)' # Tag(v)'
  <2>1. ASSUME NEW x \in Worker, x # w, Classifying(x)'
        PROVE  pc[x] \in {"evict", "evicting"} /\ Classifying(x) /\ Tag(x)' = Tag(x)
    <3>1. pc[x] = pc'[x] /\ claim'[x] = claim[x]  BY <1>1, <2>1 DEF Frame
    <3>2. pc[x] \in {"evict", "evicting"} /\ Tag(x)' = Tag(x)
      BY <2>1, <3>1 DEF Classifying, Tag
    <3>3. Tag(x) \in Player /\ Tag(x) # NoPlayer
      BY <3>2, RowOf, PlayerAssumption DEF Resting
    <3>4. targets[Tag(x)].known  BY <3>3 DEF GenInv, ClaimsIssued
    <3>5. targets'[Tag(x)].bucket = NoBucket  BY <2>1, <3>2 DEF Classifying
    <3>6. targets[Tag(x)].bucket = NoBucket
      BY <1>1, <3>3, <3>4, <3>5 DEF RowsKept
    <3> QED BY <3>2, <3>6 DEF Classifying
  <2>2. ASSUME NEW x \in Worker, x # w, Classifying(x)', Classifying(w)'
        PROVE  Tag(x)' # Tag(w)'
    <3>1. Evicting(w)'  BY <2>2 DEF Classifying, Evicting
    <3>2. /\ UNCHANGED <<targets, claim>> /\ (CanClassify(w) \/ pc[w] = "evict")
      BY <3>1, StepEvicting
    <3>3. Tag(w)' = Tag(w) /\ Matches(w)  BY <2>2, <3>2 DEF Tag, Classifying, Matches
    <3>4. CASE CanClassify(w)
      BY <2>1, <2>2, <3>3, <3>4 DEF CanClassify, LockedByOther
    <3>5. CASE pc[w] = "evict"
      BY <2>1, <2>2, <3>3, <3>5 DEF SampledInv, Classifying, Matches
    <3> QED BY <3>2, <3>4, <3>5
  <2> QED BY <1>6, <2>1, <2>2 DEF SampledInv
<1> QED BY <1>3, <1>4, <1>5, <1>6 DEF SampledInv, Evicting

LEMMA CollectSampledInv ==
    ASSUME TypeOK, GenInv, SampledInv, NEW q \in Player, CollectPlayer(q)
    PROVE  SampledInv'
<1>1. ~targets[q].known /\ Enqueue(q) /\ UNCHANGED <<pc, claim, local>>
  BY DEF CollectPlayer
<1>2. targets \in [Player -> Row]  BY DEF TypeOK
<1>3. targets'[q].status = "none" /\ \A p \in Player \ {q} : targets'[p] = targets[p]
  BY <1>1, <1>2 DEF Enqueue, NewRow
<1>4. \A p \in Player : targets[p].known => targets'[p] = targets[p]
  BY <1>1, <1>3
<1>5. RowsKept  BY <1>4 DEF RowsKept
<1>6. \A p \in Player : targets'[p].status = "sampled_out" => Crowded(p)'
  BY <1>3, <1>5, CrowdedStays DEF SampledInv
<1>7. \A w \in Worker : pc[w] \notin Resting =>
         /\ Tag(w) \in Player /\ targets[Tag(w)].known /\ targets'[Tag(w)] = targets[Tag(w)]
  BY <1>4, RowOf, PlayerAssumption DEF GenInv, ClaimsIssued
<1>8. \A w \in Worker : Evicting(w) => pc[w] \notin Resting  BY DEF Evicting, Resting
<1>9. ASSUME NEW w \in Worker, local'[w].outcome = "sampled_out"
      PROVE  pc'[w] \notin Resting /\ Crowded(Tag(w))'
  <2>1. pc[w] \notin Resting /\ Crowded(Tag(w))  BY <1>1, <1>9 DEF SampledInv
  <2>2. PICK p \in Player : p = Tag(w)  BY <1>7, <2>1
  <2>3. Crowded(p)'  BY <1>5, <2>1, <2>2, CrowdedStays
  <2> QED BY <1>1, <2>1, <2>2, <2>3 DEF Crowded, Tag
<1>10. ASSUME NEW w \in Worker, Evicting(w)'
       PROVE  /\ Overfull(Bucket(MyBucket(w)) \cup Own(w))'
              /\ pc'[w] = "evicting" => local'[w].victim \in Bucket(MyBucket(w))'
  <2>1. PICK b \in TrophyBucket : b = MyBucket(w)  BY MyBucketType
  <2>2. Evicting(w) /\ pc[w] \notin Resting  BY <1>1, <1>8, <1>10 DEF Evicting
  <2>3. MyBucket(w)' = b /\ Own(w)' = Own(w)
    BY <1>1, <1>7, <2>1, <2>2 DEF MyBucket, Own, Matches, Tag
  <2>4. Bucket(b) \subseteq Bucket(b)'  BY <1>5, BucketsGrow
  <2>5. Bucket(b)' \cup Own(w) \subseteq Player  BY <1>7, <2>2 DEF Bucket, Rows, Own
  <2>6. Overfull(Bucket(b) \cup Own(w))  BY <2>1, <2>2 DEF SampledInv
  <2>7. Overfull(Bucket(b)' \cup Own(w))  BY <2>4, <2>5, <2>6, OverfullGrows
  <2>8. Bucket(MyBucket(w))' = Bucket(b)'  BY <2>3 DEF Bucket
  <2>9. pc[w] = "evicting" => local[w].victim \in Bucket(b)  BY <2>1 DEF SampledInv
  <2> QED BY <1>1, <2>3, <2>4, <2>7, <2>8, <2>9 DEF Overfull
<1>11. \A w \in Worker : Classifying(w)' => Classifying(w) /\ Tag(w)' = Tag(w)
  BY <1>1, <1>7 DEF Classifying, Tag, Resting
<1>12. \A v, w \in Worker : v # w /\ Classifying(v)' /\ Classifying(w)' => Tag(v)' # Tag(w)'
  BY <1>11 DEF SampledInv
<1> QED BY <1>6, <1>9, <1>10, <1>12 DEF SampledInv, Evicting

LEMMA NextSampledInv ==
    TypeOK /\ GenInv /\ SampledInv /\ [Next]_vars => SampledInv'
<1> SUFFICES ASSUME TypeOK, GenInv, SampledInv, [Next]_vars PROVE SampledInv'
  OBVIOUS
<1>1. ASSUME NEW w \in Worker, Step(w) PROVE SampledInv'  BY <1>1, StepSampledInv
<1>2. ASSUME NEW p \in Player, CollectPlayer(p) PROVE SampledInv'
  BY <1>2, CollectSampledInv
<1>3. CASE Tick \/ Signal \/ UNCHANGED vars
  <2>1. UNCHANGED <<targets, pc, claim, local>>  BY <1>3 DEF Tick, Signal, vars
  <2>2. \A b : Bucket(b)' = Bucket(b)  BY <2>1 DEF Bucket, Rows
  <2>3. \A p : Crowded(p) => Crowded(p)'  BY <2>2 DEF Crowded, Overfull
  <2>4. \A w \in Worker :
           /\ Tag(w)' = Tag(w) /\ MyBucket(w)' = MyBucket(w) /\ Own(w)' = Own(w)
           /\ Evicting(w)' = Evicting(w) /\ Classifying(w)' = Classifying(w)
    BY <2>1 DEF Own, Matches, Evicting, MyBucket, Classifying, Tag
  <2>5. \A w \in Worker : Bucket(MyBucket(w))' = Bucket(MyBucket(w))
    BY <2>1 DEF Bucket, Rows, MyBucket
  <2>6. \A w \in Worker : Overfull(Bucket(MyBucket(w)) \cup Own(w))
                           => Overfull(Bucket(MyBucket(w)) \cup Own(w))'
    BY <2>4, <2>5 DEF Overfull
  <2>7. \A p \in Player : targets'[p].status = "sampled_out" => Crowded(p)'
    BY <2>1, <2>3 DEF SampledInv
  <2>8. \A w \in Worker :
           local'[w].outcome = "sampled_out" => pc'[w] \notin Resting /\ Crowded(Tag(w))'
    BY <2>1, <2>3, <2>4 DEF SampledInv, Crowded
  <2> QED BY <2>1, <2>4, <2>5, <2>6, <2>7, <2>8 DEF SampledInv
<1>4. CASE Restart
  <2>1. \A p \in Player : targets'[p].status = "sampled_out" => Crowded(p)'
    BY <1>4 DEF Restart, SampledInv, Crowded, Bucket, Rows, Overfull
  <2>2. \A w \in Worker : pc'[w] = "idle" /\ local'[w].outcome = "success"
    BY <1>4 DEF Restart, NoLocal
  <2> QED BY <2>1, <2>2 DEF SampledInv, Evicting, Classifying
<1> QED BY <1>1, <1>2, <1>3, <1>4 DEF Next

LEMMA InitSampledInv == Init => SampledInv
<1> SUFFICES ASSUME Init PROVE SampledInv
  OBVIOUS
<1>1. \A b : [NewRow(0) EXCEPT !.known = b].status = "none"  BY DEF NewRow
<1>2. \A p \in Player : targets[p].status = "none"  BY <1>1 DEF Init
<1>3. \A w \in Worker : pc[w] = "idle" /\ local[w].outcome = "success"
  BY DEF Init, NoLocal
<1> QED BY <1>2, <1>3 DEF SampledInv, Evicting, Classifying

\* The population sampling deactivates players only where there are too many of
\* them: whoever is rejected or evicted, some bucket has more rows than the cap,
\* whatever was rolled back or classified in the meantime (sampling.go
\* ClassifyAndSampleTarget).
THEOREM SampledFromFullBuckets == Spec => []SampledOnlyWhenFull
<1>1. Init => SampledInv  BY InitSampledInv
<1>2. TypeOK /\ GenInv /\ SampledInv /\ [Next]_vars => SampledInv'
  BY NextSampledInv
<1>3. SampledInv => SampledOnlyWhenFull
  BY DEF SampledInv, SampledOnlyWhenFull, Crowded, Overfull
<1> QED BY <1>1, <1>2, <1>3, LocksHold, PTL DEF Spec
-----------------------------------------------------------------------------
(* The way out once the context is cancelled.                              *)

LEMMA StepAdvances ==
    ASSUME TypeOK, NEW w \in Worker, Step(w), ctxDone, pc'[w] # pc[w]
    PROVE  StepsLeft(pc'[w]) < StepsLeft(pc[w])
<1> USE TypeParts
<1>1. ASSUME NEW next, Return(w, next)  PROVE pc'[w] = next
  BY <1>1 DEF Return, WorkersOK
<1>2. ASSUME NEW next, Goto(w, next)  PROVE pc'[w] = next
  BY <1>2 DEF Goto, WorkersOK
<1>3. ASSUME NEW next, NEW m, ShutdownOr(w, next, m)  PROVE pc'[w] = "exited"
  BY <1>1, <1>3 DEF ShutdownOr
<1>4. CASE ClaimSelect(w) \/ ClaimEmpty(w) \/ ClaimCommit(w) \/ GetPlayer(w)
             \/ GetBattleLog(w) \/ GlobalHalt(w) \/ CheckOwnership(w) \/ IngestPlayer(w)
             \/ ClassifyEvict(w) \/ EvictSelect(w)
  BY <1>4 DEF ClaimSelect, ClaimEmpty, ClaimCommit, GetPlayer, GetBattleLog, GlobalHalt,
     CheckOwnership, IngestPlayer, ClassifyEvict, EvictSelect
<1>5. CASE pc'[w] = "exited"
  BY <1>5, pc[w] # "exited" DEF StepsLeft
<1>6. CASE ClaimUnacked(w) \/ ClaimFail(w) \/ Stop(w) \/ OwnershipError(w)
  BY <1>1, <1>5, <1>6 DEF ClaimUnacked, ClaimFail, Stop, OwnershipError
<1>7. CASE APIError(w) \/ IngestPlayerFail(w) \/ Classify(w) \/ ClassifyFail(w)
             \/ RejectRolledBack(w) \/ EvictNobody(w) \/ EvictCommit(w)
             \/ UpdateCrawlProfile(w) \/ UpdateCrawlProfileFail(w) \/ BattlesFail(w)
  BY <1>3, <1>5, <1>7 DEF APIError, IngestPlayerFail, Classify, ClassifyFail, RejectRolledBack,
     EvictNobody, EvictCommit, UpdateCrawlProfile, UpdateCrawlProfileFail, BattlesFail
<1>8. CASE Wake(w)
  <2>1. pc[w] = "sleep" /\ pc'[w] = "idle"  BY <1>2, <1>8 DEF Wake
  <2> QED BY <2>1 DEF StepsLeft
<1>9. CASE FinalizeCrawl(w)
  <2>1. pc[w] = "finalize" /\ pc'[w] = "idle"  BY <1>1, <1>9 DEF FinalizeCrawl
  <2> QED BY <2>1 DEF StepsLeft
<1>10. CASE FinalizeNoEffect(w)
  <2>1. pc[w] = "finalize" /\ pc'[w] = "idle"  BY <1>1, <1>10 DEF FinalizeNoEffect
  <2> QED BY <2>1 DEF StepsLeft
<1>11. CASE CheckCeiling(w)
  <2>1. pc[w] = "ceiling" /\ pc'[w] = "battles"  BY <1>2, <1>11 DEF CheckCeiling
  <2> QED BY <2>1 DEF StepsLeft
<1>12. CASE BattlesDone(w)
  <2>1. pc[w] = "battles" /\ pc'[w] = "finalize"  BY <1>2, <1>12 DEF BattlesDone
  <2> QED BY <2>1 DEF StepsLeft
<1>13. ASSUME NEW p \in Player, DiscoverPlayer(w, p)  PROVE FALSE
  BY <1>13 DEF DiscoverPlayer
<1> QED BY <1>4, <1>6, <1>7, <1>8, <1>9, <1>10, <1>11, <1>12, <1>13 DEF Step

\* The safety half of ShutdownCompletes: once the context is cancelled every
\* goroutine is at most four steps from its end and each step brings it nearer,
\* so that only a step that is never taken can keep Run from returning
\* (worker.go RunOnce, scheduler.go Run).
THEOREM ShutdownOnlyAdvances == Spec => ShutdownAdvances
<1>1. ASSUME TypeOK, [Next]_vars
      PROVE  [ctxDone /\ ctxDone' =>
                 \A w \in Worker : pc'[w] # pc[w] => StepsLeft(pc'[w]) < StepsLeft(pc[w])]_vars
  <2>1. SUFFICES ASSUME Next, ctxDone, ctxDone', NEW w \in Worker, pc'[w] # pc[w]
                 PROVE  StepsLeft(pc'[w]) < StepsLeft(pc[w])
    BY <1>1
  <2>2. ASSUME NEW v \in Worker, Step(v)  PROVE StepsLeft(pc'[w]) < StepsLeft(pc[w])
    <3>1. v = w  BY <1>1, <2>1, <2>2, StepFrame DEF Frame
    <3> QED BY <1>1, <2>1, <2>2, <3>1, StepAdvances
  <2>3. ASSUME NEW p \in Player, CollectPlayer(p)  PROVE FALSE
    BY <2>1, <2>3 DEF CollectPlayer
  <2>4. CASE Tick \/ Signal \/ Restart
    BY <2>1, <2>4 DEF Tick, Signal, Restart
  <2> QED BY <2>1, <2>2, <2>3, <2>4 DEF Next
<1> QED BY <1>1, TypeCorrect, PTL DEF Spec, ShutdownAdvances
-----------------------------------------------------------------------------
(* The budget of discoveries, below the ceiling.                           *)

\* A worker that walks through a battle log has the configured budget, and keeps
\* to it, or met the ceiling before.
Within(found, budget) ==
    /\ budget = MaxDiscoveries \/ (budget = 0 /\ MaxActive > 0)
    /\ budget > 0 => found <= budget

BudgetKept ==
    \A w \in Worker : IF pc[w] = "battles" THEN Within(local[w].found, local[w].budget)
                      ELSE local[w].found = 0

LEMMA FoundFields ==
    /\ NoLocal.found = 0
    /\ \A m \in LocalType : \A x : /\ [m EXCEPT !.trophies = x].found = m.found
                                  /\ [m EXCEPT !.at = x].found = m.found
                                  /\ [m EXCEPT !.victim = x].found = m.found
                                  /\ [m EXCEPT !.outcome = x].found = m.found
                                  /\ [m EXCEPT !.budget = x].found = m.found
                                  /\ [m EXCEPT !.budget = x].budget = x
                                  /\ [m EXCEPT !.found = x].budget = m.budget
                                  /\ [m EXCEPT !.found = x].found = x
BY DEF LocalType, NoLocal

\* Nobody has found anything but in "battles", and one row more only within the
\* budget.
LEMMA StepFound ==
    ASSUME TypeOK, BudgetKept, NEW w \in Worker, Step(w)
    PROVE  IF pc'[w] = "battles" THEN Within(local'[w].found, local'[w].budget)
           ELSE local'[w].found = 0
<1> USE TypeParts, FoundFields
<1>1. local \in [Worker -> LocalType] /\ local[w] \in LocalType /\ NoLocal \in LocalType
  BY NoLocalType DEF WorkersOK
<1>2. ASSUME NEW next, Return(w, next), next # "battles"
      PROVE  pc'[w] # "battles" /\ local'[w].found = 0
  BY <1>1, <1>2 DEF Return, WorkersOK
<1>3. ASSUME NEW next, Goto(w, next)  PROVE pc'[w] = next
  BY <1>3 DEF Goto, WorkersOK
<1>4. ASSUME NEW next, NEW m, ShutdownOr(w, next, m), next # "battles", m.found = 0
      PROVE  pc'[w] # "battles" /\ local'[w].found = 0
  BY <1>1, <1>2, <1>3, <1>4 DEF ShutdownOr
<1>5. CASE ClaimEmpty(w) \/ ClaimUnacked(w) \/ ClaimFail(w) \/ Stop(w) \/ GlobalHalt(w)
             \/ OwnershipError(w) \/ FinalizeNoEffect(w) \/ FinalizeCrawl(w)
  <2>1. CASE ClaimEmpty(w)  BY <1>2, <2>1 DEF ClaimEmpty
  <2>2. CASE ClaimUnacked(w)  BY <1>2, <2>2 DEF ClaimUnacked
  <2>3. CASE ClaimFail(w)  BY <1>2, <2>3 DEF ClaimFail
  <2>4. CASE Stop(w)  BY <1>2, <2>4 DEF Stop
  <2>5. CASE GlobalHalt(w)  BY <1>2, <2>5 DEF GlobalHalt
  <2>6. CASE OwnershipError(w)  BY <1>2, <2>6 DEF OwnershipError
  <2>7. CASE FinalizeNoEffect(w)  BY <1>2, <2>7 DEF FinalizeNoEffect
  <2>8. CASE FinalizeCrawl(w)  BY <1>2, <2>8 DEF FinalizeCrawl
  <2> QED BY <1>5, <2>1, <2>2, <2>3, <2>4, <2>5, <2>6, <2>7, <2>8
<1>6. CASE ClaimSelect(w)
  <2>1. local'[w] = [NoLocal EXCEPT !.at = now] /\ pc'[w] = "claim"
    BY <1>1, <1>6 DEF ClaimSelect, WorkersOK
  <2> QED BY <1>1, <2>1
<1>7. CASE ClaimCommit(w)
  <2>1. local'[w] = NoLocal /\ pc'[w] = "player"  BY <1>1, <1>3, <1>7 DEF ClaimCommit
  <2> QED BY <2>1
<1>8. CASE Wake(w) \/ GetBattleLog(w) \/ ClassifyEvict(w)
  <2>1. pc[w] # "battles" /\ pc'[w] # "battles" /\ local' = local
    BY <1>3, <1>8 DEF Wake, GetBattleLog, ClassifyEvict, CanClassify
  <2> QED BY <2>1 DEF BudgetKept
<1>9. CASE GetPlayer(w)
  <2>1. PICK t \in Trophies : local' = [local EXCEPT ![w].trophies = t]
    BY <1>9 DEF GetPlayer
  <2>2. local'[w] = [local[w] EXCEPT !.trophies = t]  BY <1>1, <2>1
  <2>3. pc[w] = "player" /\ pc'[w] = "log"  BY <1>3, <1>9 DEF GetPlayer
  <2> QED BY <1>1, <2>2, <2>3 DEF BudgetKept
<1>10. CASE CheckOwnership(w)
  <2>1. pc[w] = "owner"  BY <1>10 DEF CheckOwnership
  <2>2. CASE Goto(w, "ingest") /\ UNCHANGED local
    BY <1>3, <2>1, <2>2 DEF BudgetKept
  <2>3. CASE Return(w, "idle")
    BY <1>2, <2>3
  <2> QED BY <1>10, <2>2, <2>3 DEF CheckOwnership
<1>11. CASE IngestPlayer(w)
  <2>1. local'[w] = [local[w] EXCEPT !.at = now]  BY <1>1, <1>11 DEF IngestPlayer
  <2>2. pc[w] = "ingest" /\ pc'[w] \in {"reprofile", "classify"}
    BY <1>3, <1>11 DEF IngestPlayer
  <2> QED BY <1>1, <2>1, <2>2 DEF BudgetKept
<1>12. CASE EvictSelect(w)
  <2>1. PICK q \in Victims(w) : local' = [local EXCEPT ![w].victim = q]
    BY <1>12 DEF EvictSelect
  <2>2. local'[w] = [local[w] EXCEPT !.victim = q]  BY <1>1, <2>1
  <2>3. pc[w] = "evict" /\ pc'[w] = "evicting"  BY <1>3, <1>12 DEF EvictSelect
  <2> QED BY <1>1, <2>2, <2>3 DEF BudgetKept
<1>13. CASE APIError(w) \/ IngestPlayerFail(w) \/ BattlesFail(w)
  <2>1. PICK s : ShutdownOr(w, "finalize", [NoLocal EXCEPT !.outcome = s])
    BY <1>13 DEF APIError, IngestPlayerFail, BattlesFail
  <2>2. PICK m : m = [NoLocal EXCEPT !.outcome = s]  OBVIOUS
  <2>3. m.found = 0  BY <1>1, <2>2
  <2> QED BY <1>4, <2>1, <2>2, <2>3
<1>14. CASE ClassifyFail(w) \/ EvictNobody(w) \/ EvictCommit(w)
             \/ UpdateCrawlProfile(w) \/ UpdateCrawlProfileFail(w)
  <2>1. ShutdownOr(w, "ceiling", NoLocal)
    BY <1>14 DEF ClassifyFail, EvictNobody, EvictCommit, UpdateCrawlProfile,
       UpdateCrawlProfileFail
  <2> QED BY <1>4, <2>1
<1>15. CASE Classify(w) \/ RejectRolledBack(w)
  <2>1. PICK v : ShutdownOr(w, "ceiling", Verdicted(v))
    BY <1>15 DEF Classify, RejectRolledBack
  <2>2. Verdicted(v).found = 0  BY <1>1 DEF Verdicted
  <2> QED BY <1>4, <2>1, <2>2
<1>16. CASE CheckCeiling(w)
  <2>1. PICK n : /\ local' = [local EXCEPT ![w].budget = n]
                 /\ n = MaxDiscoveries \/ (n = 0 /\ MaxActive > 0)
    BY <1>16 DEF CheckCeiling
  <2>2. local'[w] = [local[w] EXCEPT !.budget = n]  BY <1>1, <2>1
  <2>3. pc[w] = "ceiling" /\ pc'[w] = "battles"  BY <1>3, <1>16 DEF CheckCeiling
  <2>4. local'[w].budget = n /\ local'[w].found = 0
    BY <1>1, <2>2, <2>3 DEF BudgetKept
  <2> QED BY <2>1, <2>3, <2>4, ConfigAssumption DEF Within
<1>17. ASSUME NEW p \in Player, DiscoverPlayer(w, p)
       PROVE  pc'[w] = "battles" /\ Within(local'[w].found, local'[w].budget)
  <2>1. pc'[w] = "battles" /\ pc[w] = "battles"  BY <1>17 DEF DiscoverPlayer
  <2>2. Within(local[w].found, local[w].budget)
    BY <2>1 DEF BudgetKept
  <2>3. CASE UNCHANGED local  BY <2>1, <2>2, <2>3
  <2>4. CASE local' = [local EXCEPT ![w].found = @ + 1]
    <3>1. PICK n : n = local[w].found + 1  OBVIOUS
    <3>2. local'[w] = [local[w] EXCEPT !.found = n]  BY <1>1, <2>4, <3>1
    <3>3. local'[w].budget = local[w].budget /\ local'[w].found = n  BY <1>1, <3>2
    <3>4. local[w].budget = 0 \/ local[w].found < local[w].budget
      BY <1>17 DEF DiscoverPlayer, HasBudget
    <3>5. local[w].found \in Nat /\ local[w].budget \in Nat  BY <1>1 DEF LocalType
    <3> QED BY <2>1, <2>2, <3>1, <3>3, <3>4, <3>5, ConfigAssumption DEF Within
  <2> QED BY <1>17, <2>3, <2>4 DEF DiscoverPlayer
<1>18. CASE BattlesDone(w)
  <2>1. local'[w] = [NoLocal EXCEPT !.outcome = local[w].outcome] /\ pc'[w] = "finalize"
    BY <1>1, <1>3, <1>18 DEF BattlesDone
  <2> QED BY <1>1, <2>1
<1> QED BY <1>5, <1>6, <1>7, <1>8, <1>9, <1>10, <1>11, <1>12, <1>13, <1>14, <1>15, <1>16,
           <1>17, <1>18 DEF Step

\* A crawl that inserts more rows than its budget met the ceiling, and lost the
\* budget there: below the ceiling, and where none is configured, DiscoveryIsBounded
\* holds (worker.go RunOnce, battle_ingestor.go discoverPlayer).
THEOREM OnlyTheCeilingUnbounds ==
    Spec => [](\A w \in Worker :
                   MaxDiscoveries > 0 /\ ~(local[w].found <= MaxDiscoveries) =>
                       MaxActive > 0 /\ pc[w] = "battles" /\ local[w].budget = 0)
<1>1. Init => BudgetKept
  BY FoundFields DEF Init, BudgetKept
<1>2. ASSUME TypeOK, BudgetKept, [Next]_vars
      PROVE  BudgetKept'
  <2>1. ASSUME NEW w \in Worker, Step(w)  PROVE BudgetKept'
    BY <1>2, <2>1, StepFrame, StepFound DEF Frame, BudgetKept
  <2>2. CASE Restart
    BY <2>2, FoundFields DEF Restart, BudgetKept
  <2>3. CASE (\E p \in Player : CollectPlayer(p)) \/ Tick \/ Signal \/ UNCHANGED vars
    <3>1. UNCHANGED <<pc, local>>  BY <2>3 DEF CollectPlayer, Tick, Signal, vars
    <3> QED BY <1>2, <3>1 DEF BudgetKept
  <2> QED BY <1>2, <2>1, <2>2, <2>3 DEF Next
<1>3. BudgetKept =>
          \A w \in Worker :
              MaxDiscoveries > 0 /\ ~(local[w].found <= MaxDiscoveries) =>
                  MaxActive > 0 /\ pc[w] = "battles" /\ local[w].budget = 0
  BY ConfigAssumption DEF BudgetKept, Within
<1> QED BY <1>1, <1>2, <1>3, TypeCorrect, PTL DEF Spec
=============================================================================
