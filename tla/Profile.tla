------------------------------- MODULE Profile -------------------------------
(***************************************************************************)
(* One crawl as the profile tables and the retry columns see it:           *)
(* ingestion.IngestPlayer statement by statement, without a transaction,   *)
(* then the outcome that decides when the player is crawled again.         *)
(*                                                                         *)
(* Crawler leaves both open (IngestPlayer succeeds or fails, any delay)    *)
(* and has the leases, locks and clocks; here the lease of a claim may run *)
(* out at any time, so that a late worker and its successor, and `collect  *)
(* player' beside them, ingest the same player at once.                    *)
(***************************************************************************)
EXTENDS Domain, RetryPolicy, FiniteSets

CONSTANTS
    Worker,         \* goroutines and `collect player' processes
    Player,
    NoPlayer,       \* the tag of a worker that is idle
    Brawler,
    Patch,
    NoPatch,        \* a NULL patch_id
    Dates,          \* the release dates that the registry is given
    Trophies,       \* the trophy counts GetPlayer may report
    StartFailures,  \* consecutive_failures of the targets at the start
    MaxTime,        \* bound: the collector's clock stops here
    MaxClaims       \* bound: claims of each player

ASSUME TagAssumption == NoPlayer \notin Player
ASSUME PatchAssumption == NoPatch \notin Patch
ASSUME NumbersAssumption ==
    /\ Trophies \subseteq Nat
    /\ StartFailures \subseteq Nat /\ Dates \subseteq Nat
    /\ MaxTime \in Nat /\ MaxClaims \in Nat

VARIABLES
    now,        \* time.Now() of the collector, in the column's resolution
    catalogue,  \* table brawlers: the ids it has
    patches,    \* table patches
    dated,      \* and every release date that a patch ever had; nothing reads it
    players,    \* table players: the tags it has
    crawls,     \* players.crawl_count
    snapshots,  \* table player_snapshots, unique by player and time
    entries,    \* table player_brawler_snapshots
    queued,     \* table crawl_targets: the tags it has
    targets,    \* and the columns that say how the player is crawled
    delay,      \* next_crawl_at: how far it was set ahead, in minutes
    pc,         \* where each worker stands
    claim,      \* its ClaimResult; generation 0 for `collect player'
    job         \* the other local variables of RunOnce and IngestPlayer

reference == <<catalogue, patches, dated>>
profiles == <<players, crawls, snapshots, entries>>
queue == <<queued, targets, delay>>
vars == <<now, reference, profiles, queue, pc, claim, job>>

Status == {"none", "success", "sampled_out", "not_found", "rate_limited", "error"}

PC == {"idle", "fetch", "upsert", "patch", "insert", "brawlers", "profile", "finalize"}

NoClaim == [tag |-> NoPlayer, gen |-> 0, priority |-> DiscoveryPriority,
            failures |-> 0, classified |-> FALSE]
NoJob == [at |-> 0, patch |-> NoPatch, todo |-> {}, priority |-> DiscoveryPriority,
          outcome |-> "none"]

Tag(w) == claim[w].tag
Collecting(w) == claim[w].gen = 0
Holding(w) == pc[w] # "idle" /\ ~Collecting(w)
Current(w) == claim[w].gen = targets[Tag(w)].gen

\* A target that failed before is, at the start, one that was rate limited last.
Init ==
    /\ now = 0
    /\ catalogue \in SUBSET Brawler
    /\ patches \in {R \in SUBSET [id : Patch, released : Dates] :
                        \A x, y \in R : x.id = y.id => x = y}
    /\ dated = patches
    /\ queued \in SUBSET Player /\ players = queued
    /\ crawls = [p \in Player |-> 0]
    /\ snapshots = {} /\ entries = {}
    /\ \E n \in StartFailures :
        targets = [p \in Player |->
            [priority |-> DiscoveryPriority, gen |-> 0, failures |-> n,
             status |-> IF n = 0 THEN "none" ELSE "rate_limited",
             active |-> TRUE, classified |-> FALSE]]
    /\ delay = [p \in Player |-> 0]
    /\ pc = [w \in Worker |-> "idle"]
    /\ claim = [w \in Worker |-> NoClaim]
    /\ job = [w \in Worker |-> NoJob]

Goto(w, next, mem) ==
    /\ pc' = [pc EXCEPT ![w] = next]
    /\ job' = [job EXCEPT ![w] = mem]
    /\ UNCHANGED claim

Leave(w) ==
    /\ pc' = [pc EXCEPT ![w] = "idle"]
    /\ claim' = [claim EXCEPT ![w] = NoClaim]
    /\ job' = [job EXCEPT ![w] = NoJob]

\* finalizeAPIError and finalizeTransientError; `collect player' just dies.
EndWith(w, status) ==
    \/ Collecting(w) /\ Leave(w)
    \/ ~Collecting(w) /\ Goto(w, "finalize", [NoJob EXCEPT !.outcome = status])

\* A statement took effect: its reply arrives, or is lost and counts as an error.
Executed(w, next, mem) == Goto(w, next, mem) \/ EndWith(w, "error")

(***************************************************************************)
(* The beginning of a crawl.                                               *)
(***************************************************************************)
\* ClaimNextTarget, once the target is due and no lease is running.
ClaimTarget(w, p) ==
    /\ pc[w] = "idle"
    /\ p \in queued /\ targets[p].active /\ targets[p].gen < MaxClaims
    /\ targets' = [targets EXCEPT ![p].gen = @ + 1]
    /\ claim' = [claim EXCEPT ![w] =
                    [tag |-> p, gen |-> targets[p].gen + 1, priority |-> targets[p].priority,
                     failures |-> targets[p].failures, classified |-> targets[p].classified]]
    /\ pc' = [pc EXCEPT ![w] = "fetch"]
    /\ UNCHANGED <<now, reference, profiles, queued, delay, job>>

CollectPlayer(w, p) ==
    /\ pc[w] = "idle"
    /\ claim' = [claim EXCEPT ![w] = [NoClaim EXCEPT !.tag = p]]
    /\ pc' = [pc EXCEPT ![w] = "fetch"]
    /\ UNCHANGED <<now, reference, profiles, queue, job>>

\* GetPlayer, and for a crawl GetBattleLog and OwnershipValid.  What the profile
\* says is left open until it is looked at: its brawlers, its trophies.
Fetch(w) ==
    /\ pc[w] = "fetch"
    /\ Goto(w, "upsert", NoJob)
    /\ UNCHANGED <<now, reference, profiles, queue>>

FetchError(w) ==
    /\ pc[w] = "fetch"
    /\ \E s \in {"not_found", "rate_limited", "error"} : EndWith(w, s)
    /\ UNCHANGED <<now, reference, profiles, queue>>

\* Shutdown, a refused key, a lost lease or a crash: nothing is undone.
Abandon(w) ==
    /\ pc[w] # "idle"
    /\ Leave(w)
    /\ UNCHANGED <<now, reference, profiles, queue>>

(***************************************************************************)
(* ingestion.IngestPlayer.                                                 *)
(***************************************************************************)
\* INSERT ... ON CONFLICT (tag) DO UPDATE SET name
UpsertPlayer(p) == players \cup {p}

Upsert(w) ==
    /\ pc[w] = "upsert"
    /\ players' = UpsertPlayer(Tag(w))
    /\ Executed(w, "patch", job[w])
    /\ UNCHANGED <<now, reference, crawls, snapshots, entries, queue>>

Released(t) == {x \in patches : x.released <= t}

\* Mutant: the patch that is latest, released or not.
LatestPatch(t) ==
    {x.id : x \in {y \in patches : \A z \in patches : z.released <= y.released}}

\* queries.PatchIDForTime: the latest patch released by t, none if there is none.
PatchIDForTime(t) ==
    {x.id : x \in {y \in Released(t) : \A z \in Released(t) : z.released <= y.released}}

\* snapshotAt is taken here.  A lookup that fails leaves the patch NULL.
LookupPatch(w) ==
    /\ pc[w] = "patch"
    /\ \E id \in PatchIDForTime(now) \cup {NoPatch} :
        Goto(w, "insert", [job[w] EXCEPT !.at = now, !.patch = id])
    /\ UNCHANGED <<now, reference, profiles, queue>>

HasSnapshot(p, t) == \E s \in snapshots : s.player = p /\ s.at = t

\* Mutant: a snapshot that is there already is carried on with.
InsertOrAdopt(w) ==
    /\ pc[w] = "insert"
    /\ \/ \E raw \in SUBSET Brawler :
          /\ ~HasSnapshot(Tag(w), job[w].at)
          /\ snapshots' = snapshots \cup {[player |-> Tag(w), at |-> job[w].at,
                                           patch |-> job[w].patch, raw |-> raw]}
          /\ Executed(w, "brawlers", [NoJob EXCEPT !.at = job[w].at, !.todo = raw])
       \/ /\ HasSnapshot(Tag(w), job[w].at)
          /\ Goto(w, "brawlers", [NoJob EXCEPT !.at = job[w].at])
          /\ UNCHANGED snapshots
    /\ UNCHANGED <<now, reference, players, crawls, entries, queue>>

\* ON CONFLICT (player_tag, snapshot_at) DO NOTHING: 0 comes back, and the
\* brawlers and the count are skipped.
InsertPlayerSnapshot(w) ==
    /\ pc[w] = "insert"
    /\ \/ \E raw \in SUBSET Brawler :
          /\ ~HasSnapshot(Tag(w), job[w].at)
          /\ snapshots' = snapshots \cup {[player |-> Tag(w), at |-> job[w].at,
                                           patch |-> job[w].patch, raw |-> raw]}
          /\ Executed(w, "brawlers", [NoJob EXCEPT !.at = job[w].at, !.todo = raw])
       \/ /\ HasSnapshot(Tag(w), job[w].at)
          /\ Goto(w, "profile", NoJob)
          /\ UNCHANGED snapshots
    /\ UNCHANGED <<now, reference, players, crawls, entries, queue>>

\* The next brawler of the profile.  One that the catalogue lacks is refused by
\* the foreign key: InsertRefused.
InsertBrawlerSnapshot(w) ==
    /\ pc[w] = "brawlers"
    /\ \E x \in job[w].todo \cap catalogue :
        /\ entries' = entries \cup {[player |-> Tag(w), at |-> job[w].at, brawler |-> x]}
        /\ Executed(w, "brawlers", [job[w] EXCEPT !.todo = @ \ {x}])
    /\ UNCHANGED <<now, reference, players, crawls, snapshots, queue>>

InsertRefused(w) ==
    /\ pc[w] = "brawlers"
    /\ job[w].todo \ catalogue # {}
    /\ EndWith(w, "error")
    /\ UNCHANGED <<now, reference, profiles, queue>>

\* After the last of the brawlers.
UpdatePlayerCrawled(w) ==
    /\ pc[w] = "brawlers" /\ job[w].todo = {}
    /\ crawls' = [crawls EXCEPT ![Tag(w)] = @ + 1]
    /\ Executed(w, "profile", NoJob)
    /\ UNCHANGED <<now, reference, players, snapshots, entries, queue>>

\* A statement of IngestPlayer fails without effect.
IngestError(w) ==
    /\ pc[w] \in {"upsert", "insert", "brawlers"}
    /\ EndWith(w, "error")
    /\ UNCHANGED <<now, reference, profiles, queue>>

(***************************************************************************)
(* The rest of RunOnce; its battles touch nothing of what is here.         *)
(***************************************************************************)
\* ClassifyAndSampleTarget for a first crawl, UpdateCrawlProfile otherwise: the
\* column is set from the trophies, by the first to classify or by any re-crawl.
SetPriority(w, trophies) ==
    targets' = IF claim[w].classified \/ ~targets[Tag(w)].classified
               THEN [targets EXCEPT ![Tag(w)] =
                        [@ EXCEPT !.priority = PriorityForTrophies(trophies),
                                  !.classified = TRUE]]
               ELSE targets

\* How the crawl ends: a battle that fails is an error, and a rejection stays one.
CrawlOutcome(w) == {"success", "error"} \cup IF claim[w].classified THEN {} ELSE {"sampled_out"}

\* realPriority falls back to the claim's when the reply is lost.
UpdateProfile(w) ==
    /\ pc[w] = "profile" /\ ~Collecting(w)
    /\ \E trophies \in Trophies :
        /\ SetPriority(w, trophies)
        /\ \E s \in CrawlOutcome(w), q \in {PriorityForTrophies(trophies), claim[w].priority} :
            Goto(w, "finalize", [NoJob EXCEPT !.outcome = s, !.priority = q])
    /\ UNCHANGED <<now, reference, profiles, queued, delay>>

UpdateProfileError(w) ==
    /\ pc[w] = "profile" /\ ~Collecting(w)
    /\ \E s \in CrawlOutcome(w) :
        Goto(w, "finalize", [NoJob EXCEPT !.outcome = s, !.priority = claim[w].priority])
    /\ UNCHANGED <<now, reference, profiles, queue>>

CollectDone(w) ==
    /\ pc[w] = "profile" /\ Collecting(w)
    /\ Leave(w)
    /\ UNCHANGED <<now, reference, profiles, queue>>

\* The delays until the next crawl, by outcome.
NextDelay(w) ==
    LET c == claim[w]
        s == job[w].outcome
    IN CASE s = "not_found" -> {24 * Hour}
         [] s = "rate_limited" -> {5}
         [] s = "error" -> backoffDuration(baseInterval(c.priority), c.failures)
         [] OTHER -> {baseInterval(job[w].priority)}

NextFailures(w) ==
    CASE job[w].outcome \in {"not_found", "rate_limited"} -> claim[w].failures
      [] job[w].outcome = "error" -> claim[w].failures + 1
      [] OTHER -> 0

\* Mutant: WHERE player_tag alone.
FinalizeByTag(w) == TRUE

FinalizeMatches(w) == Current(w)

FinalizeCrawl(w) ==
    /\ pc[w] = "finalize"
    /\ FinalizeMatches(w)
    /\ targets' = [targets EXCEPT ![Tag(w)] =
                       [@ EXCEPT !.status = job[w].outcome, !.failures = NextFailures(w),
                                 !.active = job[w].outcome \notin {"not_found", "sampled_out"}]]
    /\ \E d \in NextDelay(w) : delay' = [delay EXCEPT ![Tag(w)] = d]
    /\ Leave(w)
    /\ UNCHANGED <<now, reference, profiles, queued>>

\* It failed, or the generation has moved on.
FinalizeNoEffect(w) ==
    /\ pc[w] = "finalize"
    /\ Leave(w)
    /\ UNCHANGED <<now, reference, profiles, queue>>

(***************************************************************************)
(* The environment.                                                        *)
(***************************************************************************)
Tick ==
    /\ now < MaxTime
    /\ now' = now + 1
    /\ UNCHANGED <<reference, profiles, queue, pc, claim, job>>

\* `seed brawlers', or a battle with a brawler that is not in the catalogue.
AddBrawler(x) ==
    /\ catalogue' = catalogue \cup {x}
    /\ UNCHANGED <<now, patches, dated, profiles, queue, pc, claim, job>>

\* The patch registry is kept by hand: a row may come late, or ahead of its time, and
\* its date is corrected by ON CONFLICT (version) DO UPDATE SET released_at.
UpsertPatch(id) ==
    /\ \E t \in Dates :
        LET row == [id |-> id, released |-> t]
        IN /\ patches' = {x \in patches : x.id # id} \cup {row}
           /\ dated' = dated \cup {row}
    /\ UNCHANGED <<now, catalogue, profiles, queue, pc, claim, job>>

\* EnqueueDiscoveredPlayer: the identity row first, the target second.
Discover(p) ==
    /\ players' = players \cup {p}
    /\ queued' \in {queued, queued \cup {p}}
    /\ UNCHANGED <<now, reference, crawls, snapshots, entries, targets, delay, pc, claim, job>>

Step(w) ==
    \/ \E p \in Player : ClaimTarget(w, p)
    \/ \E p \in Player : CollectPlayer(w, p)
    \/ Fetch(w)
    \/ FetchError(w)
    \/ Abandon(w)
    \/ Upsert(w)
    \/ LookupPatch(w)
    \/ InsertPlayerSnapshot(w)
    \/ InsertBrawlerSnapshot(w)
    \/ InsertRefused(w)
    \/ UpdatePlayerCrawled(w)
    \/ IngestError(w)
    \/ UpdateProfile(w)
    \/ UpdateProfileError(w)
    \/ CollectDone(w)
    \/ FinalizeCrawl(w)
    \/ FinalizeNoEffect(w)

Next ==
    \/ \E w \in Worker : Step(w)
    \/ Tick
    \/ \E x \in Brawler : AddBrawler(x)
    \/ \E id \in Patch : UpsertPatch(id)
    \/ \E p \in Player : Discover(p)

Spec == Init /\ [][Next]_vars

(***************************************************************************)
(* Properties.                                                             *)
(***************************************************************************)
Snapshot == [player : Player, at : Nat, patch : Patch \cup {NoPatch}, raw : SUBSET Brawler]
Entry == [player : Player, at : Nat, brawler : Brawler]
Target == [priority : Priority, gen : Nat, failures : Nat, status : Status,
           active : BOOLEAN, classified : BOOLEAN]
Claim == [tag : Player \cup {NoPlayer}, gen : Nat, priority : Priority, failures : Nat,
          classified : BOOLEAN]
Job == [at : Nat, patch : Patch \cup {NoPatch}, todo : SUBSET Brawler, priority : Priority,
        outcome : Status]

Types ==
    /\ now \in Nat
    /\ catalogue \subseteq Brawler
    /\ patches \subseteq dated /\ dated \subseteq [id : Patch, released : Nat]
    /\ players \subseteq Player
    /\ crawls \in [Player -> Nat]
    /\ snapshots \subseteq Snapshot
    /\ entries \subseteq Entry
    /\ queued \subseteq Player
    /\ targets \in [Player -> Target]
    /\ pc \in [Worker -> PC]
    /\ claim \in [Worker -> Claim]
    /\ job \in [Worker -> Job]
    /\ \A w \in Worker : pc[w] # "idle" => Tag(w) \in Player

\* The tables and local variables keep their types, and no delay is negative: what
\* an overflow gives is never written.
TypeOK == Types /\ delay \in [Player -> Nat]

Entered(s) == {e.brawler : e \in {x \in entries : x.player = s.player /\ x.at = s.at}}

\* A snapshot with a row for every brawler of the profile it was taken from.
Whole(p) == {s \in snapshots : s.player = p /\ s.raw \subseteq Entered(s)}

\* crawl_count never counts a crawl whose profile was not stored whole, however
\* many writers fail, collide on a timestamp or lose a reply, and no snapshot is
\* counted twice (player_ingestor.go:67-70, 104-107).
CountIsHonest == \A p \in Player : crawls[p] <= Cardinality(Whole(p))

\* A patch that is there and that the registry had dated no later than t.  Its date
\* may have been moved since, and what was attributed to it stays so.
OfItsTime(id, t) ==
    /\ \E x \in patches : x.id = id
    /\ \E x \in dated : x.id = id /\ x.released <= t

\* Snapshots of a player differ in their time, are of a player that is there, of
\* brawlers the catalogue has, and attributed to no patch that the registry never
\* dated before them: partial ones, late writers and corrected dates included
\* (player_ingestor.go, patches.go:15-16).
SnapshotsSound ==
    /\ \A s \in snapshots :
        /\ s.player \in players
        /\ s.patch # NoPatch => OfItsTime(s.patch, s.at)
        /\ \A r \in snapshots : r.player = s.player /\ r.at = s.at => r = s
    /\ \A e \in entries :
        /\ e.brawler \in catalogue
        /\ \E s \in snapshots : s.player = e.player /\ s.at = e.at /\ e.brawler \in s.raw

\* The failure count that a worker read with its claim is still the row's when it
\* finalizes: only the current generation writes it (worker.go:292, 312).
FailuresNotStale ==
    \A w \in Worker : Holding(w) /\ Current(w) => claim[w].failures = targets[Tag(w)].failures

\* A failure is counted once, and only success resets the count, although it is
\* read by the claim and written minutes later by the finalize.
FailuresStepwise ==
    [][\A p \in Player :
          targets'[p].failures \in {0, targets[p].failures, targets[p].failures + 1}]_vars

\* What a worker knows of the tables at each place of IngestPlayer.
SnapshotOf(w, s) == s \in snapshots /\ s.player = Tag(w) /\ s.at = job[w].at

Standing(w) ==
    /\ pc[w] \in {"patch", "insert", "brawlers"} => Tag(w) \in players
    /\ pc[w] = "insert" /\ job[w].patch # NoPatch => OfItsTime(job[w].patch, job[w].at)
    /\ pc[w] = "brawlers" =>
          \E s \in snapshots : /\ SnapshotOf(w, s)
                              /\ job[w].todo \subseteq s.raw
                              /\ s.raw \ job[w].todo \subseteq Entered(s)

\* No two workers write the brawlers of one snapshot.
Apart ==
    \A v, w \in Worker : v # w /\ pc[v] = "brawlers" /\ pc[w] = "brawlers" =>
        Tag(v) # Tag(w) \/ job[v].at # job[w].at

\* crawl_count is the number of some of the whole snapshots, none of which is
\* still being written.
Counted(p) ==
    \E C \in SUBSET Whole(p) :
        /\ IsFiniteSet(C) /\ Cardinality(C) = crawls[p]
        /\ \A w \in Worker : pc[w] = "brawlers" => \A s \in C : ~SnapshotOf(w, s)

\* A claim's generation never runs ahead of its row's, each has its own, and only
\* a crawl is finalized.
Generations ==
    /\ \A w \in Worker : pc[w] = "finalize" => ~Collecting(w)
    /\ \A w \in Worker : Holding(w) => claim[w].gen <= targets[Tag(w)].gen
    /\ \A v, w \in Worker : v # w /\ Holding(v) /\ Holding(w) /\ Tag(v) = Tag(w) =>
            claim[v].gen # claim[w].gen
    /\ FailuresNotStale

\* The inductive invariant behind the four properties above.
IInv ==
    /\ Types /\ SnapshotsSound /\ Apart /\ Generations
    /\ IsFiniteSet(snapshots)
    /\ \A w \in Worker : Standing(w)
    /\ \A p \in Player : Counted(p)

\* min(2^n * base, 7 days), with n the failures before this one, whatever the
\* platform makes of an overflow (worker.go:359-361).
BackoffIsExact ==
    \A p \in Player : targets[p].status = "error" =>
        \E base \in {baseInterval(q) : q \in Priority} :
            LET n == targets[p].failures - 1
            IN delay[p] = IF 2^n > MaxBackoff \div base THEN MaxBackoff ELSE base * 2^n
=============================================================================
