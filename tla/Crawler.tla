------------------------------- MODULE Crawler -------------------------------
(***************************************************************************)
(* The crawl queue and the workers that drain it.                          *)
(*                                                                         *)
(* `targets' is the crawl_targets table; every other variable belongs to   *)
(* one collector process: the shared context and, for each goroutine of    *)
(* crawler.Run, its place in Worker.RunOnce and RunOnce's local variables. *)
(* One action is one database statement, one short transaction or one API  *)
(* call.  The two places where the code holds a row lock across a step     *)
(* (the claim transaction, the eviction inside the classification          *)
(* transaction) are split, so that other workers run in between.           *)
(*                                                                         *)
(* A statement that fails does so in one of two ways: it was rolled back,  *)
(* or it took effect and only its reply was lost ("Unacked").  After the   *)
(* shared context is cancelled no new statement or call succeeds, but one  *)
(* already sent may still take effect.                                     *)
(***************************************************************************)
EXTENDS Integers, FiniteSets, Domain

CONSTANTS
    Worker,          \* goroutines of crawler.Run
    Player,          \* player tags that can ever appear
    Seed,            \* the tags in the queue when the process starts
    NoPlayer,        \* the tag of a worker that holds no claim
    Trophies,        \* the trophy counts GetPlayer may report
    LeaseTTL,        \* the lease of 10 minutes, in ticks
    Delay,           \* re-crawl delays, in ticks (exact intervals abstracted)
    Skew,            \* application clock minus database clock
    MaxTime,         \* bound: the database clock stops here
    BucketCap,       \* WorkerConfig.BucketCap; 0 disables sampling
    MaxDiscoveries,  \* WorkerConfig.MaxDiscoveriesPerCrawl; 0 is unlimited
    MaxActive        \* WorkerConfig.MaxActiveTargets; 0 is unlimited

ASSUME PlayerAssumption == Seed \subseteq Player /\ NoPlayer \notin Player
\* A tag has at most 16 characters.
ASSUME FinitePlayers == IsFiniteSet(Player)
ASSUME TrophiesAssumption == Trophies \subseteq Nat
ASSUME ClockAssumption ==
    /\ LeaseTTL \in Nat \ {0}
    /\ Delay \subseteq Nat
    /\ Skew \in Int
    /\ MaxTime \in Nat
ASSUME ConfigAssumption ==
    BucketCap \in Nat /\ MaxDiscoveries \in Nat /\ MaxActive \in Nat

VARIABLES
    targets,   \* crawl_targets: one record for every tag of Player
    now,       \* the database clock; a transaction's NOW() is its start
    ctxDone,   \* the context shared by the workers is cancelled
    pc,        \* where each goroutine stands
    claim,     \* the ClaimResult each goroutine holds
    local      \* the other local variables of its RunOnce call

vars == <<targets, now, ctxDone, pc, claim, local>>

(***************************************************************************)
(* The table.  A row that is not `known' has not been inserted yet.        *)
(***************************************************************************)
\* "error" stands for "rate_limited" as well: they differ in the delay only.
Status == {"none", "success", "sampled_out", "not_found", "error"}

\* A NULL leased_until.  Leases are deadlines of at least LeaseTTL > 0.
NoLease == 0

Row == [known : BOOLEAN, active : BOOLEAN, priority : Priority, nextAt : Int,
        gen : Nat, lease : Nat, bucket : TrophyBucket \cup {NoBucket},
        status : Status, count : Nat]

\* The row EnqueueDiscoveredPlayer inserts, the other columns at their defaults.
NewRow(t) == [known |-> TRUE, active |-> TRUE, priority |-> DiscoveryPriority,
              nextAt |-> t, gen |-> 0, lease |-> NoLease, bucket |-> NoBucket,
              status |-> "none", count |-> 0]

Rows == {p \in Player : targets[p].known}
ActiveRows == {p \in Rows : targets[p].active}

\* Mutant: the rows without a bucket count as well.
BucketOrNone(b) == {p \in Rows : targets[p].bucket \in {b, NoBucket}}

\* WHERE player_trophy_bucket = b
Bucket(b) == {p \in Rows : targets[p].bucket = b}

\* Mutant: the lease is not looked at.
LeaseIgnored(p, t) == TRUE

\* The lease test shared by the claim and the eviction, at transaction time t.
Unleased(p, t) == targets[p].lease = NoLease \/ targets[p].lease < t

\* time.Now() in the collector.
AppNow == now + Skew

(***************************************************************************)
(* The workers.                                                            *)
(***************************************************************************)
PC == {"idle", "sleep", "exited",
       "claim",      \* claim transaction open, row locked
       "player", "log", "owner", "ingest",
       "classify",   \* classification transaction begun
       "evict",      \* bucket lock held, newcomer accepted in a full bucket
       "evicting",   \* victim chosen, UPDATE not yet applied
       "reprofile", "ceiling", "battles", "finalize"}

NoClaim == [tag |-> NoPlayer, gen |-> 0, classified |-> FALSE]
NoLocal == [at |-> 0, trophies |-> 0, outcome |-> "success",
            victim |-> NoPlayer, budget |-> 0, found |-> 0]

\* A worker whose claim has committed and whose RunOnce has not returned.
Holding(w) == pc[w] \notin {"idle", "sleep", "exited", "claim"}

Tag(w) == claim[w].tag

\* The row of the claim, while the claim's generation is still the current one.
Current(w) == claim[w].gen = targets[Tag(w)].gen

\* A worker that has updated its own row inside an open classification.
Classifying(w) == pc[w] \in {"evict", "evicting"} /\ targets[Tag(w)].bucket = NoBucket

\* Mutant: the claim does not lock its row.
NoRowLocks(w, p) == FALSE

\* Row locks other than w's: held from SELECT FOR UPDATE, or from the
\* classifying UPDATE, to the end of the transaction.
LockedByOther(w, p) ==
    \E v \in Worker \ {w} : Tag(v) = p /\ (pc[v] = "claim" \/ Classifying(v))

\* pg_advisory_xact_lock(bucket), held by a classification that has not ended.
BucketLockedByOther(w, b) ==
    \E v \in Worker \ {w} : /\ pc[v] \in {"evict", "evicting"}
                            /\ BucketForTrophies(local[v].trophies) = b

\* Mutant: the goroutine always goes on with its loop.
ReturnToLoop(w, next) ==
    /\ pc' = [pc EXCEPT ![w] = "idle"]
    /\ claim' = [claim EXCEPT ![w] = NoClaim]
    /\ local' = [local EXCEPT ![w] = NoLocal]

\* RunOnce returns: its local variables are gone.
Return(w, next) ==
    /\ pc' = [pc EXCEPT ![w] = next]
    /\ claim' = [claim EXCEPT ![w] = NoClaim]
    /\ local' = [local EXCEPT ![w] = NoLocal]

Goto(w, next) == pc' = [pc EXCEPT ![w] = next] /\ UNCHANGED claim

\* Mutant: the error handler does not look at the context.
ErrorGoesOn(w, next, mem) == Goto(w, next) /\ local' = [local EXCEPT ![w] = mem]

\* An error handler: "shutdown" if the context is cancelled, else go on.
ShutdownOr(w, next, mem) ==
    \/ ctxDone /\ Return(w, "exited")
    \/ ~ctxDone /\ Goto(w, next) /\ local' = [local EXCEPT ![w] = mem]

Init ==
    /\ targets = [p \in Player |-> [NewRow(0) EXCEPT !.known = (p \in Seed)]]
    /\ now = 0
    /\ ctxDone = FALSE
    /\ pc = [w \in Worker |-> "idle"]
    /\ claim = [w \in Worker |-> NoClaim]
    /\ local = [w \in Worker |-> NoLocal]

(***************************************************************************)
(* queries.ClaimNextTarget: SELECT ... FOR UPDATE SKIP LOCKED, then the    *)
(* UPDATE and the commit.  Any error ends the goroutine: with a cancelled  *)
(* context as "shutdown", otherwise because Run returns on every error.    *)
(***************************************************************************)
Claimable(w) ==
    {p \in ActiveRows : /\ targets[p].nextAt <= now
                        /\ Unleased(p, now)
                        /\ ~LockedByOther(w, p)}

\* ORDER BY priority, next_crawl_at
Before(p, q) ==
    \/ targets[p].priority < targets[q].priority
    \/ targets[p].priority = targets[q].priority /\ targets[p].nextAt < targets[q].nextAt

ClaimSelect(w) ==
    /\ pc[w] = "idle" /\ ~ctxDone
    /\ \E p \in Claimable(w) :
        /\ \A q \in Claimable(w) : ~Before(q, p)
        /\ claim' = [claim EXCEPT ![w] =
                        [tag |-> p, gen |-> targets[p].gen + 1,
                         classified |-> targets[p].bucket # NoBucket]]
    /\ pc' = [pc EXCEPT ![w] = "claim"]
    /\ local' = [local EXCEPT ![w] = [NoLocal EXCEPT !.at = now]]
    /\ UNCHANGED <<targets, now, ctxDone>>

ClaimEmpty(w) ==
    /\ pc[w] = "idle" /\ ~ctxDone
    /\ Claimable(w) = {}
    /\ Return(w, "sleep")
    /\ UNCHANGED <<targets, now, ctxDone>>

\* Mutant: the generation is not moved on.
LeaseKeepingGen(w) ==
    targets' = [targets EXCEPT ![Tag(w)].lease = local[w].at + LeaseTTL]

\* The UPDATE of the claim transaction.
Lease(w) ==
    targets' = [targets EXCEPT ![Tag(w)] =
                   [@ EXCEPT !.gen = claim[w].gen, !.lease = local[w].at + LeaseTTL]]

ClaimCommit(w) ==
    /\ pc[w] = "claim" /\ ~ctxDone
    /\ Lease(w)
    /\ Goto(w, "player")
    /\ local' = [local EXCEPT ![w] = NoLocal]
    /\ UNCHANGED <<now, ctxDone>>

ClaimUnacked(w) ==
    /\ pc[w] = "claim"
    /\ Lease(w)
    /\ Return(w, "exited")
    /\ UNCHANGED <<now, ctxDone>>

ClaimFail(w) ==
    /\ pc[w] \in {"idle", "claim"}
    /\ Return(w, "exited")
    /\ UNCHANGED <<targets, now, ctxDone>>

Wake(w) ==
    /\ pc[w] = "sleep"
    /\ Goto(w, "idle")
    /\ UNCHANGED <<targets, now, ctxDone, local>>

\* The loop of Run finds the context cancelled, asleep or between two crawls.
Stop(w) ==
    /\ pc[w] \in {"idle", "sleep"} /\ ctxDone
    /\ Return(w, "exited")
    /\ UNCHANGED <<targets, now, ctxDone>>

(***************************************************************************)
(* The two API calls, each behind limiter.Wait.                            *)
(***************************************************************************)
GetPlayer(w) ==
    /\ pc[w] = "player" /\ ~ctxDone
    /\ Goto(w, "log")
    /\ \E t \in Trophies : local' = [local EXCEPT ![w].trophies = t]
    /\ UNCHANGED <<targets, now, ctxDone>>

GetBattleLog(w) ==
    /\ pc[w] = "log" /\ ~ctxDone
    /\ Goto(w, "owner")
    /\ UNCHANGED <<targets, now, ctxDone, local>>

\* finalizeAPIError: 404, 429 or anything else; "shutdown" once cancelled.
APIError(w) ==
    /\ pc[w] \in {"player", "log"}
    /\ \E s \in {"not_found", "error"} :
            ShutdownOr(w, "finalize", [NoLocal EXCEPT !.outcome = s])
    /\ UNCHANGED <<targets, now, ctxDone>>

\* 401 or 403: the first such worker cancels the context of all.
GlobalHalt(w) ==
    /\ pc[w] \in {"player", "log"} /\ ~ctxDone
    /\ ctxDone' = TRUE
    /\ Return(w, "exited")
    /\ UNCHANGED <<targets, now>>

(***************************************************************************)
(* queries.OwnershipValid, by generation and by the collector's own clock. *)
(***************************************************************************)
OwnershipValid(w) ==
    /\ Current(w)
    /\ targets[Tag(w)].lease # NoLease
    /\ targets[Tag(w)].lease >= AppNow

CheckOwnership(w) ==
    /\ pc[w] = "owner" /\ ~ctxDone
    /\ \/ OwnershipValid(w) /\ Goto(w, "ingest") /\ UNCHANGED local
       \/ ~OwnershipValid(w) /\ Return(w, "idle")     \* "ownership_lost"
    /\ UNCHANGED <<targets, now, ctxDone>>

OwnershipError(w) ==
    /\ pc[w] = "owner"
    /\ Return(w, "exited")
    /\ UNCHANGED <<targets, now, ctxDone>>

\* ingestion.IngestPlayer writes other tables; what matters here is whether
\* it fails.  On success the next transaction begins: its NOW() is fixed.
IngestPlayer(w) ==
    /\ pc[w] = "ingest" /\ ~ctxDone
    /\ Goto(w, IF claim[w].classified THEN "reprofile" ELSE "classify")
    /\ local' = [local EXCEPT ![w].at = now]
    /\ UNCHANGED <<targets, now, ctxDone>>

IngestPlayerFail(w) ==
    /\ pc[w] = "ingest"
    /\ ShutdownOr(w, "finalize", [NoLocal EXCEPT !.outcome = "error"])
    /\ UNCHANGED <<targets, now, ctxDone>>

(***************************************************************************)
(* queries.ClassifyAndSampleTarget.  Up to the verdict the transaction     *)
(* holds the bucket lock and counts rows only this lock lets change, so    *)
(* it is one step; an eviction continues in the states "evict" and         *)
(* "evicting".  Whether the reply to the commit arrives matters only once  *)
(* the context is cancelled: both ways the same verdict is returned.       *)
(***************************************************************************)
MyBucket(w) == BucketForTrophies(local[w].trophies)

\* Mutant: without the IS NULL guard.
MatchesAlways(w) == TRUE

Matches(w) == targets[Tag(w)].bucket = NoBucket

\* UPDATE ... WHERE player_trophy_bucket IS NULL
Classified(w) ==
    IF Matches(w)
    THEN [targets EXCEPT ![Tag(w)] =
             [@ EXCEPT !.bucket = MyBucket(w),
                       !.priority = PriorityForTrophies(local[w].trophies)]]
    ELSE targets

\* seenB: the classified rows of the bucket, the own row included if it matched.
Seen(w) == Cardinality(Bucket(MyBucket(w)) \cup IF Matches(w) THEN {Tag(w)} ELSE {})

OtherActive(w) == (Bucket(MyBucket(w)) \cap ActiveRows) \ {Tag(w)}

\* Mutant: off by one at the cap.
VerdictBelowCap(w) ==
    IF BucketCap = 0 \/ Seen(w) < BucketCap THEN {"keep"}
    ELSE {"reject", IF Cardinality(OtherActive(w)) >= BucketCap THEN "evict" ELSE "keep"}

\* The reservoir decision; which way the random draw falls is left open.
Verdict(w) ==
    IF BucketCap = 0 \/ Seen(w) <= BucketCap THEN {"keep"}
    ELSE {"reject", IF Cardinality(OtherActive(w)) >= BucketCap THEN "evict" ELSE "keep"}

CanClassify(w) ==
    /\ pc[w] = "classify"
    /\ ~BucketLockedByOther(w, MyBucket(w))
    /\ Matches(w) => ~LockedByOther(w, Tag(w))

\* What RunOnce remembers of the classification: whether sampledOut is set.
Verdicted(v) == [NoLocal EXCEPT !.outcome = IF v = "reject" THEN "sampled_out" ELSE "success"]

Classify(w) ==
    /\ CanClassify(w)
    /\ \E v \in Verdict(w) \ {"evict"} :
        /\ targets' = Classified(w)
        /\ ShutdownOr(w, "ceiling", Verdicted(v))
    /\ UNCHANGED <<now, ctxDone>>

ClassifyEvict(w) ==
    /\ CanClassify(w) /\ ~ctxDone
    /\ "evict" \in Verdict(w)
    /\ Goto(w, "evict")
    /\ UNCHANGED <<targets, local, now, ctxDone>>

\* A statement fails and the transaction rolls back: RunOnce logs and goes on.
ClassifyFail(w) ==
    /\ pc[w] \in {"classify", "evict", "evicting"}
    /\ ShutdownOr(w, "ceiling", NoLocal)
    /\ UNCHANGED <<targets, now, ctxDone>>

\* The commit of a rejection fails: `return true, tx.Commit(ctx)' still says
\* sampledOut, although the classification is rolled back.
RejectRolledBack(w) ==
    /\ CanClassify(w)
    /\ "reject" \in Verdict(w)
    /\ ShutdownOr(w, "ceiling", Verdicted("reject"))
    /\ UNCHANGED <<targets, now, ctxDone>>

\* The subquery of the eviction: active, in the bucket, not leased.
Victims(w) == {p \in OtherActive(w) : Unleased(p, local[w].at)}

EvictSelect(w) ==
    /\ pc[w] = "evict" /\ ~ctxDone
    /\ \E p \in Victims(w) : local' = [local EXCEPT ![w].victim = p]
    /\ Goto(w, "evicting")
    /\ UNCHANGED <<targets, now, ctxDone>>

\* Everybody else is leased: nobody is evicted and the bucket overflows.
EvictNobody(w) ==
    /\ pc[w] = "evict"
    /\ Victims(w) = {}
    /\ targets' = Classified(w)
    /\ ShutdownOr(w, "ceiling", NoLocal)
    /\ UNCHANGED <<now, ctxDone>>

\* The UPDATE waits for the victim's row lock and then rechecks only its
\* player_tag: the victim may have been leased since EvictSelect.
EvictCommit(w) ==
    /\ pc[w] = "evicting"
    /\ ~LockedByOther(w, local[w].victim)
    /\ targets' = [Classified(w) EXCEPT ![local[w].victim] =
                      [@ EXCEPT !.active = FALSE, !.status = "sampled_out"]]
    /\ ShutdownOr(w, "ceiling", NoLocal)
    /\ UNCHANGED <<now, ctxDone>>

\* queries.UpdateCrawlProfile: by tag alone, whatever the generation.
UpdateCrawlProfile(w) ==
    /\ pc[w] = "reprofile"
    /\ ~LockedByOther(w, Tag(w))
    /\ targets' = [targets EXCEPT ![Tag(w)].priority = PriorityForTrophies(local[w].trophies)]
    /\ ShutdownOr(w, "ceiling", NoLocal)
    /\ UNCHANGED <<now, ctxDone>>

UpdateCrawlProfileFail(w) ==
    /\ pc[w] = "reprofile"
    /\ ShutdownOr(w, "ceiling", NoLocal)
    /\ UNCHANGED <<targets, now, ctxDone>>

(***************************************************************************)
(* The ceiling check and the discoveries of the battle log.  A ceiling     *)
(* that is reached sets the budget to 0, which BattleIngestor reads as     *)
(* unlimited.  A failing count leaves the budget as configured.            *)
(***************************************************************************)
CheckCeiling(w) ==
    /\ pc[w] = "ceiling"
    /\ \/ /\ MaxActive > 0 /\ ~ctxDone
          /\ Cardinality(ActiveRows) >= MaxActive
          /\ local' = [local EXCEPT ![w].budget = 0]
       \/ local' = [local EXCEPT ![w].budget = MaxDiscoveries]
    /\ Goto(w, "battles")
    /\ UNCHANGED <<targets, now, ctxDone>>

\* Mutant: ON CONFLICT DO UPDATE, reactivating.
EnqueueReactivating(p) ==
    targets' = [targets EXCEPT ![p] =
                   IF @.known THEN [@ EXCEPT !.active = TRUE] ELSE NewRow(now)]

\* queries.EnqueueDiscoveredPlayer: ON CONFLICT (player_tag) DO NOTHING.
Enqueue(p) ==
    targets' = [targets EXCEPT ![p] = IF @.known THEN @ ELSE NewRow(now)]

HasBudget(w) == local[w].budget = 0 \/ local[w].found < local[w].budget

\* discoverPlayer.  A lost reply is swallowed: the insert is not counted.
DiscoverPlayer(w, p) ==
    /\ pc[w] = "battles"
    /\ p # Tag(w)
    /\ HasBudget(w)
    /\ Enqueue(p)
    /\ \/ ~ctxDone /\ ~targets[p].known /\ local' = [local EXCEPT ![w].found = @ + 1]
       \/ UNCHANGED local
    /\ UNCHANGED <<pc, claim, now, ctxDone>>

BattlesDone(w) ==
    /\ pc[w] = "battles"
    /\ Goto(w, "finalize")
    /\ local' = [local EXCEPT ![w] = [NoLocal EXCEPT !.outcome = local[w].outcome]]
    /\ UNCHANGED <<targets, now, ctxDone>>

BattlesFail(w) ==
    /\ pc[w] = "battles"
    /\ ShutdownOr(w, "finalize", [NoLocal EXCEPT !.outcome = "error"])
    /\ UNCHANGED <<targets, now, ctxDone>>

(***************************************************************************)
(* queries.FinalizeCrawl: compare-and-update on crawl_generation.  RunOnce *)
(* returns the same status whether or not the row was updated.             *)
(***************************************************************************)
KeepsActive(s) == s \notin {"not_found", "sampled_out"}

\* Mutant: WHERE player_tag alone.
FinalizeByTag(w) == TRUE

\* WHERE player_tag = ... AND crawl_generation = ...
FinalizeMatches(w) == Current(w)

\* Mutant: the reply is lost and the statement is sent again.
FinalizeRetried(w) ==
    /\ pc[w] = "finalize"
    /\ FinalizeMatches(w)
    /\ ~LockedByOther(w, Tag(w))
    /\ \E d \in Delay :
        targets' = [targets EXCEPT ![Tag(w)] =
                       [@ EXCEPT !.status = local[w].outcome,
                                 !.nextAt = AppNow + d,
                                 !.active = KeepsActive(local[w].outcome),
                                 !.count  = targets[Tag(w)].count + 1,
                                 !.lease  = NoLease]]
    /\ UNCHANGED <<pc, claim, local, now, ctxDone>>

FinalizeCrawl(w) ==
    /\ pc[w] = "finalize"
    /\ FinalizeMatches(w)
    /\ ~LockedByOther(w, Tag(w))
    /\ \E d \in Delay :
        targets' = [targets EXCEPT ![Tag(w)] =
                       [@ EXCEPT !.status = local[w].outcome,
                                 !.nextAt = AppNow + d,
                                 !.active = KeepsActive(local[w].outcome),
                                 !.count  = targets[Tag(w)].count + 1,
                                 !.lease  = NoLease]]
    /\ Return(w, "idle")
    /\ UNCHANGED <<now, ctxDone>>

\* The statement failed, or matched no row because the generation moved on.
FinalizeNoEffect(w) ==
    /\ pc[w] = "finalize"
    /\ Return(w, "idle")
    /\ UNCHANGED <<targets, now, ctxDone>>

(***************************************************************************)
(* The environment: time, signals, a crash and restart of the collector,   *)
(* and `collect player', which enqueues without a budget.                  *)
(***************************************************************************)
Tick ==
    /\ now < MaxTime
    /\ now' = now + 1
    /\ UNCHANGED <<targets, ctxDone, pc, claim, local>>

Signal ==
    /\ ~ctxDone
    /\ ctxDone' = TRUE
    /\ UNCHANGED <<targets, now, pc, claim, local>>

Restart ==
    /\ ctxDone' = FALSE
    /\ pc' = [w \in Worker |-> "idle"]
    /\ claim' = [w \in Worker |-> NoClaim]
    /\ local' = [w \in Worker |-> NoLocal]
    /\ UNCHANGED <<targets, now>>

CollectPlayer(p) ==
    /\ ~targets[p].known
    /\ Enqueue(p)
    /\ UNCHANGED <<now, ctxDone, pc, claim, local>>

Step(w) ==
    \/ ClaimSelect(w)
    \/ ClaimEmpty(w)
    \/ ClaimCommit(w)
    \/ ClaimUnacked(w)
    \/ ClaimFail(w)
    \/ Wake(w)
    \/ Stop(w)
    \/ GetPlayer(w)
    \/ GetBattleLog(w)
    \/ APIError(w)
    \/ GlobalHalt(w)
    \/ CheckOwnership(w)
    \/ OwnershipError(w)
    \/ IngestPlayer(w)
    \/ IngestPlayerFail(w)
    \/ Classify(w)
    \/ ClassifyEvict(w)
    \/ ClassifyFail(w)
    \/ RejectRolledBack(w)
    \/ EvictSelect(w)
    \/ EvictNobody(w)
    \/ EvictCommit(w)
    \/ UpdateCrawlProfile(w)
    \/ UpdateCrawlProfileFail(w)
    \/ CheckCeiling(w)
    \/ \E p \in Player : DiscoverPlayer(w, p)
    \/ BattlesDone(w)
    \/ BattlesFail(w)
    \/ FinalizeCrawl(w)
    \/ FinalizeNoEffect(w)

Next ==
    \/ \E w \in Worker : Step(w)
    \/ \E p \in Player : CollectPlayer(p)
    \/ Tick
    \/ Signal
    \/ Restart

\* The Go scheduler runs every goroutine; every call returns or is cancelled.
Fairness == \A w \in Worker : WF_vars(Step(w))

Spec == Init /\ [][Next]_vars /\ Fairness

(***************************************************************************)
(* Properties.                                                             *)
(***************************************************************************)

\* Every variable keeps the type of its column or Go variable, in particular
\* a worker that holds or is taking a claim has the tag of a known target.
TypeOK ==
    /\ targets \in [Player -> Row]
    /\ now \in Nat
    /\ ctxDone \in BOOLEAN
    /\ pc \in [Worker -> PC]
    /\ claim \in [Worker -> [tag : Player \cup {NoPlayer}, gen : Nat, classified : BOOLEAN]]
    /\ local \in [Worker -> [at : Nat, trophies : Nat, outcome : Status,
                             victim : Player \cup {NoPlayer}, budget : Nat, found : Nat]]
    /\ \A w \in Worker : pc[w] \in {"idle", "sleep", "exited"} <=> Tag(w) = NoPlayer
    /\ \A w \in Worker : pc[w] = "evicting" => local[w].victim \in Player

\* crawl_generation tells workers apart: two workers that hold, or are taking,
\* the same target never carry the same generation, however late one of them
\* is (crawl.go ClaimNextTarget, migration 000004).
Fenced ==
    \A v, w \in Worker :
        (v # w /\ Tag(v) = Tag(w) /\ Tag(v) # NoPlayer) => claim[v].gen # claim[w].gen

\* No claim is counted twice: the crawls counted never outrun the claims issued,
\* and a worker still at the current generation has its own left to count, so
\* that whoever finalizes it does so once (crawl.go FinalizeCrawl).
CountedOncePerClaim ==
    /\ \A p \in Player : targets[p].count <= targets[p].gen
    /\ \A w \in Worker :
        Holding(w) /\ Current(w) => targets[Tag(w)].count < targets[Tag(w)].gen

\* As long as a worker is at the current generation of its target, the row
\* shows a lease: neither a stale finalize nor an eviction ever clears it.
HeldTargetIsLeased ==
    \A w \in Worker : Holding(w) /\ Current(w) => targets[Tag(w)].lease # NoLease

\* What makes the three properties above inductive: only inserted rows are
\* held, a holder's generation was issued, a claim under way has the next one.
ClaimsIssued ==
    /\ \A p \in Player : ~targets[p].known => targets[p].gen = 0 /\ targets[p].count = 0
    /\ \A w \in Worker :
        /\ Tag(w) # NoPlayer => targets[Tag(w)].known
        /\ Holding(w) => claim[w].gen \in 1..targets[Tag(w)].gen
        /\ pc[w] = "claim" => claim[w].gen = targets[Tag(w)].gen + 1

\* The inductive invariant behind the generation fencing.
IInv == TypeOK /\ ClaimsIssued /\ Fenced /\ CountedOncePerClaim /\ HeldTargetIsLeased

\* A claim under way holds its row: nobody else is taking the same target, and
\* until the commit it stays active and free, as the SELECT found it.
ClaimsLocked ==
    /\ \A w \in Worker :
        pc[w] = "claim" => /\ local[w].at \in 0..now
                           /\ targets[Tag(w)].known /\ targets[Tag(w)].active
                           /\ Unleased(Tag(w), local[w].at)
    /\ \A v, w \in Worker :
        pc[v] = "claim" /\ pc[w] = "claim" /\ Tag(v) = Tag(w) => v = w

\* What a user of the queue sees of the table and of the workers.
QueueView ==
    [p \in Player |-> [listed |-> targets[p].known, active |-> targets[p].active,
                       gen |-> targets[p].gen, lease |-> targets[p].lease,
                       count |-> targets[p].count]]

HeldView ==
    [w \in Worker |-> IF Holding(w) THEN [tag |-> Tag(w), gen |-> claim[w].gen]
                      ELSE [tag |-> NoPlayer, gen |-> 0]]

Queue == INSTANCE LeaseQueue WITH
    Target <- Player, None <- NoPlayer, TTL <- LeaseTTL,
    queue <- QueueView, held <- HeldView, clock <- now

\* The table, with its row locks, split transactions, lost replies, late workers
\* and restarts, does nothing that a queue of leases may not do (crawl.go).
IsLeaseQueue == Queue!Spec

\* A target changes hands only after its lease has run out by the database
\* clock, or was given back (crawl.go ClaimNextTarget).
NoLeaseStolen ==
    [][\A p \in Player :
          targets'[p].gen # targets[p].gen
             => targets[p].lease = NoLease \/ targets[p].lease < now]_vars

\* A deactivated target that nobody holds (a 404, a rejected or evicted player)
\* never comes back: not by a late worker, not by being discovered again
\* (players.go EnqueueDiscoveredPlayer: "those stay inactive").
DeactivatedForGood ==
    [][\A p \in Player :
          (~targets[p].active /\ targets[p].lease = NoLease)
             => /\ ~targets'[p].active
                /\ targets'[p].lease = NoLease
                /\ targets'[p].gen = targets[p].gen]_vars

\* A bucket is assigned once, also when a late worker and its successor both
\* classify the same player (sampling.go, the IS NULL guard).
BucketIsSticky ==
    [][\A p \in Player :
          targets[p].bucket # NoBucket => targets'[p].bucket = targets[p].bucket]_vars

\* Nobody is sampled out while every bucket fits under the cap: counting the
\* rejected or evicted player itself, some bucket has seen more than cap.
SampledOnlyWhenFull ==
    \A p \in Player : targets[p].status = "sampled_out" =>
        BucketCap > 0 /\ \E b \in TrophyBucket : Cardinality(Bucket(b) \cup {p}) > BucketCap

\* No two classifications wait for each other: an eviction, which holds a row
\* and a bucket lock, never waits for a row another classification has locked.
NoLockCycle ==
    \A v, w \in Worker :
        (v # w /\ pc[w] = "evicting" /\ Classifying(v)) => Tag(v) # local[w].victim

\* After the context is cancelled every goroutine leaves its loop, unless the
\* process is restarted first (scheduler.go Run: wg.Wait returns).
ShutdownCompletes ==
    ctxDone ~> (~ctxDone \/ \A w \in Worker : pc[w] = "exited")

\* How many steps a goroutine has left once the context is cancelled: at most
\* the bookkeeping of the crawl it is in, up to FinalizeCrawl.
StepsLeft(place) ==
    CASE place = "exited" -> 0
      [] place \in {"sleep", "finalize"} -> 2
      [] place = "battles" -> 3
      [] place = "ceiling" -> 4
      [] OTHER -> 1

\* While the context is cancelled a goroutine only moves towards its end: it
\* claims no other target, repeats nothing and never goes back to an API call
\* or to its loop (worker.go RunOnce, the ctx.Err() tests; scheduler.go Run).
ShutdownAdvances ==
    [][ctxDone /\ ctxDone' =>
          \A w \in Worker : pc'[w] # pc[w] => StepsLeft(pc'[w]) < StepsLeft(pc[w])]_vars

(***************************************************************************)
(* What comments of the code promise and the code does not keep.           *)
(***************************************************************************)

\* sampling.go:95-96, an eviction is not overwritten by FinalizeCrawl.
EvictionSticks ==
    [][\A p \in Player :
          (targets[p].status = "sampled_out" /\ ~targets[p].active)
             => ~targets'[p].active]_vars

\* worker.go:176-177, a player whose classification failed is kept active: only
\* players that have a bucket are sampled out.
SampledOutWasClassified ==
    \A p \in Player : targets[p].status = "sampled_out" => targets[p].bucket # NoBucket

\* worker.go:34-40, at the ceiling discovery is disabled, and no crawl inserts
\* more rows than its budget.
DiscoveryIsBounded ==
    \A w \in Worker : MaxDiscoveries > 0 => local[w].found <= MaxDiscoveries
=============================================================================
