# A TLA+ model of the Brawl Stars collector

The collector is a Go program that crawls player profiles and battle logs from
the Brawl Stars API into PostgreSQL. A small read-only HTTP server answers
questions about the stored battles. This directory holds TLA+ modules for the
parts of both where several goroutines, processes or failures meet, TLC
configurations that check them on small instances, and TLAPS proofs of what
holds for every instance.

## 1. The system

| Part | Source | State it keeps | What makes it correct |
|---|---|---|---|
| Crawl queue and leases | `internal/storage/queries/crawl.go`, `players.go:124-150`, migrations 000002, 000004 | table `crawl_targets`: active, priority, due time, generation, lease, status | one worker at a time makes a claim count; late workers are fenced out; what is deactivated stays so |
| Population sampling | `internal/storage/queries/sampling.go` | bucket and active flag of each target | a bucket is assigned once; nobody is dropped from a bucket that is not full; the locks never form a cycle |
| Crawl worker (`RunOnce`) | `internal/crawler/worker.go` | the claim and locals of each goroutine | every path ends in one finalize, or leaves the lease to run out |
| Scheduler (`Run`, `RunN`) | `internal/crawler/scheduler.go` | shared context, countdown, `haltOnce`, error | stops when told to; reports a refused key; processes the number asked for |
| Rate limiter | `internal/ratelimit/limiter.go` | `last`, behind a mutex | slots an interval apart under concurrency; bounded waiting |
| Trophy rules | `internal/domain` | none | bands and priorities |
| Battle ingestion | `internal/ingestion/battle_ingestor.go`, `fingerprint.go`, `queries/battles.go` | events, battles, teams, participants | who played what is the same whoever's log it comes from, and so are results while the logs agree on the order of the teams; re-collection repairs what a failure left |
| Brawler catalogue | `queries/brawlers.go`, `seed brawlers` | table `brawlers` | placeholders never replace active entries |
| Repair | `repair showdown` in `collector/cmd/collector/main.go` | none of its own | writes what ingestion would |
| Player snapshots | `internal/ingestion/player_ingestor.go`, `queries/players.go` | players, snapshots and their brawler rows | a crawl is counted only if its snapshot is whole; snapshots refer to what is there |
| Retry policy | `worker.go:260-369` | failure count and due time of a target | failures counted once; delays as documented for every count |
| Patches | `queries/patches.go`, `db/seeds/patches.sql` | table `patches`, kept by hand | no snapshot gets a patch that was never dated by its time, whenever rows are added or re-dated |
| Analytics | `internal/analytics` | none, read-only | reports what was played, also while it is being written |
| HTTP API | `api/cmd/api` | none | refuses what it cannot answer; defaults; no data with an error |
| API client | `internal/apiclient` | none | its outcomes are actions of the crawl |
| Schema, connection, build, deployment | `db/migrations`, `storage/db.go`, `Makefile`, `deploy` | the tables | appear as variables only |

How they interact: `crawl` starts `Run`, `crawl-once` starts `RunN`. Both start
goroutines that loop over `RunOnce`, share one context, one limiter and one
connection pool. `RunOnce` claims a target, waits for the limiter twice, calls the
API twice, checks its lease, writes the profile, classifies the player or updates
its priority, writes the battles, enqueues the players met in them, and finalizes
the claim. The goroutines (and any other collector process) meet only in the
database, the context and the limiter. The HTTP server runs beside them and reads
the battle tables, each statement at its own moment.

What is hard here: a lease of ten minutes with no renewal, so a slow worker and
its successor overlap; statements without a surrounding transaction; the one
long transaction (classification) that holds a bucket lock and row locks; lost
replies to commits; cancellation at any point; errors that end a goroutine
silently. The list with lines is under `hazards` in `PROJECT.json`.

## 2. Modules

| Module | Models | State | Actions |
|---|---|---|---|
| `Domain` | `internal/domain` | none | operators for buckets and priorities |
| `LeaseQueue` | what the queue promises, and nothing of how | `queue`, `held`, `clock` | list, claim, complete, give up, deactivate |
| `Crawler` | queue, sampling, `RunOnce`, the loop of `Run` | `targets` (the table), `now`, `ctxDone`, and for each goroutine `pc`, `claim`, `local` | one for each statement, short transaction or API call; its failure and its lost reply |
| `Scheduler` | `Run` and `RunN` | `call` (`Run` or `RunN`), `pc`, `ctxDone`, `remaining`, `once`, `haltErr` | one for each branch on the result of `RunOnce` |
| `RateLimiter` | `Limiter.Wait` | `last`, `clock`, the slot of each waiting call | the critical section, the timer, the cancellation |
| `BattleLedger` | what the battle tables promise, and nothing of how | `ledger`, `reported` | record some facts, report a battle, begin another |
| `BattleStore` | `IngestBattle`, `repair showdown`, `seed brawlers` | the five tables, the position of each goroutine | one for each statement, and failure |
| `RetryPolicy` | `baseInterval`, `backoffDuration` | none | operators, in minutes |
| `Profile` | `IngestPlayer`, the outcome of a crawl, `collect player`, `patches` | three profile tables, `catalogue`, `patches`, the retry columns of `crawl_targets`, for each writer `pc`, `claim`, `job` | one for each statement, its failure and its lost reply |
| `Analytics` | both handlers of the HTTP API and their queries, over `BattleStore` | `http`: the request and its response | one for each query, refusal and error |
| `MC*` | instances for TLC | | symmetry sets |
| `*_proofs` | theorems | | |

`Scheduler` sees `RunOnce` as any of the results its caller tells apart, and
`Crawler` sees the limiter as a wait and the ingestion as success or failure.
`Profile` opens that ingestion and the delays, and in turn leaves out leases and
locks: a claim may be taken over at any time, which is more than `Crawler` allows,
so that what holds in `Profile` holds whatever becomes of a lease. `Analytics`
EXTENDS `BattleStore` and adds the reader to its writers. `Crawler` implements
`LeaseQueue` under the mapping `Queue` at its end: `QueueView` keeps the columns a
user of the queue sees, `HeldView` the claims that workers know of. `BattleStore` implements `BattleLedger` under the mapping
`Ledger` at its end: `Recorded` turns the rows of participants and teams into facts
about battles, `Finished` is the battle each goroutine has returned from without an
error. Variables that record what happened for the
sake of a property are marked so where they are declared (as "history", or "nothing
reads it"); no guard reads them.

Points of the translation that need a word:

- **Transactions.** A statement on its own is one action. `ClaimNextTarget` is
  two (`ClaimSelect`, `ClaimCommit`), because its row lock is held over a round
  trip and `SKIP LOCKED` makes that visible. The classification is one action up
  to its verdict, since the bucket lock keeps others from changing what it counts;
  an eviction goes on in `evict` and `evicting`, because its UPDATE may wait for
  the row lock of a claim. PostgreSQL then rechecks only `player_tag = <the chosen
  tag>`: the subquery is not run again, which `EvictCommit` reflects.
- **NOW()** is the start of the transaction, kept in `local.at`; `time.Now()` of
  the collector is `now + Skew`.
- **Failures.** A statement is rolled back, or takes effect and loses its reply.
  With a live context the code treats both the same way where the effect is
  idempotent, and there only one action is needed; where it matters
  (`ClaimUnacked`, `FinalizeNoEffect`, `DiscoverPlayer`) both are there. After a
  cancellation no new call succeeds, but one that was sent may still take effect.
- **Restart** is a crash of the collector, at any point, and its next start. A
  stale goroutine of another process is any worker that did not lose its state.
- **Abstracted data.** Delays until the next crawl come from the set `Delay`
  in `Crawler`, where "error" stands for "rate_limited" too; `Profile` has the
  exact ones. Trophies come from `Trophies`,
  the random draw of the reservoir is a free choice. A battle is its fingerprint.
  What a response of the API contains (the brawlers of a profile, its trophies) is
  chosen where it is first looked at. A row in progress of the profile is found by
  player and time, which is its unique key, in place of its serial number.
- **Order of the teams.** The code stores a team under its position in the log at
  hand, and nothing says that two logs list the teams of a battle alike: the
  fingerprint is made invariant to it (`fingerprint.go:25-26`). A job of `BattleStore`
  has in `first` the side its log lists first. `mixed` is the set of battles whose
  logs differ; every other battle is listed in one order, in which side 0 is the
  first. `winner`, `plays` and `mixed` are what happened, chosen at the start: for a
  battle that is not in `mixed` results and teams are claimed exactly, for the others
  what is left (who took part with which brawler, and whether it was a draw).
  `BattleLedger` keeps facts about players, not about numbered teams.
- **What is assumed of a log.** It holds its owner's battles, so that the branch for a
  discoverer who is on no team (`battle_ingestor.go:296`) is not taken. Team battles
  have two teams; for more the code calls its own results "best-effort" (`:276`).
- **Brawler id 0.** A flat entry stores NULL in its place. A team entry stores it as it
  is, and the foreign key refuses it: `InsertParticipant` is not enabled and only
  `Fail` is left, for this log and every other one of that battle.
- **Patches** are added and re-dated at any time (`UpsertPatch`, from the upsert of
  `db/seeds/patches.sql`). A snapshot keeps the patch it was given, which may have been
  re-dated to after it. `dated` remembers every date a patch ever had, and what is
  claimed is that one of them was no later than the snapshot.
- **Overflow.** `time.Duration(float64)` out of range is implementation-defined:
  `Converted` gives the two values that occur, the least on amd64 and the
  greatest on arm64.
- **Two clocks of a request.** `CountEligible` and `AggregateBrawlers` are the two
  statements of `BrawlerWinRates`; everything else may happen in between.

## 3. What TLC checks

All passing runs check for deadlock except `pacing`, where the goroutines end and
the clock stops. Every property has a mutant, a plausible mistake in the code,
under which the run fails; they stand beside the operator they replace and are
used nowhere else.

| Run | Instance | Shows |
|---|---|---|
| `lease` | 3 workers, 1 target, lease of 2 ticks, clock to 5, collector 1 tick ahead, delays 1 and 2, two trophy counts | `IInv`, `Fenced`, `CountedOncePerClaim`, `HeldTargetIsLeased`, `ClaimsLocked`, `NoLeaseStolen`, `BucketIsSticky`, `IsLeaseQueue` |
| `sampling` | 2 workers, 2 targets, buckets capped at 1, two buckets | `SampledOnlyWhenFull`, `NoLockCycle`, `DeactivatedForGood` |
| `shutdown` | 2 workers, 2 players of which one is to be discovered, cap 1, ceiling 2, budget 1, with fairness | `TypeOK`, `ShutdownAdvances`, `ShutdownCompletes` |
| `scheduler` | `Run` and `RunN`, 3 goroutines, total 3 | `IInv`, `OvershootBounded`, `HaltReported`, `CountStops`, `HaltStops` |
| `pacing` | 3 goroutines, interval of 2 ticks, clock to 8 | `IInv`, `SlotsApart`, `RateBounded`, `WaitBounded` |
| `store` | 2 goroutines, two players, a team battle, listed in one order or in either, a showdown, one brawler or id 0, repair and seed | `IInv`, `TeamResultsTrue`, `FinishedIsStored`, `ParticipantsSound`, `ActiveStays`, `IsLedger` |
| `profile` | 2 writers, 1 player, 1 brawler, 1 patch with 2 dates, a clock of 2 values, 2 claims, 18 failures at the start | `BackoffIsExact`, `CountIsHonest`, `SnapshotsSound`, `FailuresNotStale`, `TypeOK`, `FailuresStepwise` |
| `analytics` | 1 goroutine, 2 team battles on one map, of which one may be listed in either order, 2 players, 1 brawler, minimum 2, seven requests of which five are refused | `AnalyticsTypeOK`, `NeverOverstates`, `NothingLost`, `StoredIsReported`, `MapsPredict` |

`IsLeaseQueue` is checked in `lease`, where targets change hands; that evictions,
rejections and discoveries are steps of the queue too is shown by the theorem.

**Bounds.** Three workers on one target allow a late worker, its successor, and a
third to interleave with both; a clock of 5 with leases of 2 lets the target
change hands twice. Two players are the least with which an eviction, a
discovery and an order of the queue exist; a cap of 1 makes the second one
decide. In
`profile` two writers collide on a timestamp, overtake each other and differ in
generation; one brawler is in the catalogue or not. With 18 failures the backoff of
a target of priority 5 (24 hours) overflows and that of one of priority 1 (4 hours)
is capped; a success brings the count to 0, where it is neither. In `analytics` the
default minimum of 10 is 2, the least with which one battle is not enough, and
two battles of two queues tell the type filters apart.
Three instances start from part of their module's initial states. In `store` side 1
stands for either winner, since no step tests which side won, and id 0 is named for
players of one side, in the flat battles or in the team battle; a duel is stored as a
showdown is, but for the repair. In `analytics` one battle is won by side 0 and the
other is drawn, or won by side 1 and listed in either order. In `profile` the patch is
there at the start, dated 1, or is not, and its date only moves later, after a snapshot
was attributed (`DatesMoveLater`): the way that leaves a snapshot before its patch.
The proofs have none of these restrictions.
In `Scheduler` nothing is bounded but the constants. `MaxTime` bounds
clocks. Symmetry is over goroutines only, and over players where all are seeds;
no liveness run uses it.

**Fairness.** Weak fairness for each goroutine: the Go scheduler runs it, every
statement and API call returns (the HTTP client has a timeout of 10 s, statements
are cancelled with the context) and timers fire. Nothing is assumed of which
outcome a call has, of time, signals or restarts.

## 4. Where the code and its comments differ

Each of these is a run of its own that TLC ends with a counterexample; the
quotes are in `PROJECT.json`.

| Run | Behaviour |
|---|---|
| `ceiling` | At the active-target ceiling the budget is set to 0, which means unlimited: discovery is not disabled but unbounded (`worker.go:200`). |
| `rejected` | When the commit of a rejection fails, the player is still finalized as sampled out, without a bucket (`sampling.go:118`). |
| `evicted` | A claim that is made between the choice of the victim and its eviction undoes the eviction when it is finalized (`sampling.go:97`). So does, with a longer clock, the late finalize of a worker whose lease ran out and which was evicted as unleased. |
| `credited` | Players of a battle whose logs list the teams in different orders are credited with results they did not have (`battles.go:108`): the index of a team is its position in the log at hand, the second log overwrites the results by index, and participants keep the team they were first written with. After a failure opponents may even share a team row. |

Others were met while modelling and have no run of their own:

- `sampling.go:16-17` expects that "only one worker ever processes a given tag, so
  this should always match" of the classifying UPDATE. A worker whose lease runs
  out after its check classifies as well as its successor. The model has both, and
  it is the `IS NULL` guard that `BucketIsSticky` rests on.
- Migration 000005 says that the bucket "is updated on every subsequent successful
  crawl". `UpdateCrawlProfile` leaves it alone, on purpose (`sampling.go:123`).
- `scheduler.go:16-17` says that `Run` "blocks until the context is cancelled". Every
  error of `RunOnce` ends its goroutine, a transient database error included, and `Run`
  returns nil with the last of them (`scheduler.go:78`).
- `battles.go:118-119` skips a participant that is there "because the same battle from
  a different player's log has identical participant data". Its team is not, when that
  log lists the teams in the other order (the run `credited`).
- A team entry with brawler id 0 skips `EnsureRetiredBrawler` and inserts 0
  (`battle_ingestor.go:159-169`), which the foreign key refuses; the flat branch stores
  NULL (`:188-190`). Such a battle would never be stored whole.
- `patches.sql:2` invites to update `released_at`. Snapshots attributed before keep
  their patch, also when it is now dated after them.
- `scheduler.go:110` says that `RunN` processes "exactly total" targets. Goroutines
  that are in a crawl when the countdown ends carry it through, up to
  `OvershootBounded`, and `RunN` ends early, like `Run`, when database errors have
  ended every goroutine.
- `worker.go:50` calls "success" a crawl that is finalized, but the status is
  returned also when the finalize failed or matched no row (`worker.go:242-248`).
- The usage text of the collector says "0=unlimited" of settings whose parser turns
  0 into the default (`main.go:134`, `:428`).
- `sampling.go:12-13` promises to keep each bucket "at or below cap active
  players". When every other active player of the bucket is leased nobody is evicted
  and the newcomer is kept (`sampling.go:94`). The bucket stays above its cap, also
  when no crawl is under way.
- `winrate.go:117` defines the pick rate as a share of all slots. The two come from
  statements of different moments (`:172`, `:185`), so that a battle stored in between
  can bring a rate above 1. `NothingLost` and `NeverOverstates` say what remains true.
- `maps.go:13` counts "distinct eligible battles": a battle counts as soon as one of
  its teams is written, before any participant is.
- `players.go:67-68` expects a collision of snapshots "within the same second". The
  column has microseconds, so that only equal microseconds collide.
- A battle entry that fails ends the crawl as an error (`worker.go:216`), every time
  until it is no longer in the log, while `collect player` goes on "so one bad entry
  doesn't abort the whole log" (`main.go:183`).
- The limiter spaces slots, not requests: a late timer may bring two requests
  closer than the interval.

## 5. What is proved

From the assumptions stated beside the constants of each module, nothing else:

- `Crawler_proofs`: `TypeCorrect`, then `Inductive`, that `IInv` is an invariant.
  `Fenced` alone is not inductive: two claims may differ in generation only
  because the one under way has the next number and the others have numbers that
  were issued. `ClaimsIssued` states this. `CountedOncePerClaim` and
  `HeldTargetIsLeased` are needed for each other's steps, since only a finalize of
  the current generation counts and gives back the lease, and no other worker
  has that generation. One lemma for each group of actions, one step for each
  action. `FencedAlways`, `CountedOnce` and `HeldIsLeased` follow.
- `CrawlerLeases_proofs`: a second invariant on top of it, `LInv`. A claim under way
  finds its row as its SELECT did (`ClaimsLocked`), since the lock keeps others away
  and NOW() lies in the past; a row that was never inserted has no bucket and no
  lease (`BlankRows`); a victim is a classified row (`VictimInBucket`), whereas the row
  an open classification has locked has no bucket yet, so that no eviction waits for
  the row of another classification. From it `NeverLockCycle`, the action properties
  `NoLeaseIsStolen`, `StaysDeactivated` and `BucketNeverChanges`, and
  `ImplementsLeaseQueue`: initial states map to initial states, and each action maps
  to the step of `LeaseQueue` its lemma names, or to a stutter.
  `SampledFromFullBuckets` rests on a third invariant, `SampledInv`: whoever is sampled
  out, is about to be, or is the victim of an eviction under way leaves a bucket that
  is above the cap. Buckets only gain rows (`BucketsGrow`), so what was above the cap
  stays there; the row of an open classification stays unclassified while it is
  locked (`OwnKept`), and the eviction that chose a victim because of it classifies it
  in the same transaction (`EvictOwn`). A rolled back rejection needs no more: its
  player is counted itself. It needs `FinitePlayers`, that there are finitely many tags.
  `ShutdownOnlyAdvances` gives each point of `RunOnce` a number of `StepsLeft` after a
  cancellation, four at most, and shows that every step a goroutine takes lowers it;
  what `ShutdownCompletes` adds is that the steps are taken.
  `OnlyTheCeilingUnbounds` says of every configuration what `DiscoveryIsBounded`, which
  the run `ceiling` violates, gets wrong only there: a crawl that has found more players than
  its budget met the ceiling. `BudgetKept` says that the budget of a crawl under way is the
  configured one, or the 0 of the ceiling, and what it has found stays within it.
- `Scheduler_proofs`: `OvershootIsBounded`, from `CountIsExact`: the crawls are
  the total minus the counter plus those not counted yet, and each count past the
  total has cost one goroutine. The two sets of goroutines are disjoint, which
  gives the bound. `HaltIsReported`, from `HaltRecorded`; `Inductive` puts both together.
  `CancelledOnlyLeave` is the safety half of `CountStops` and `HaltStops`: a cancelled
  context stays so, and every step of a goroutine from then on lowers its `StepsLeft`.
- `RateLimiter_proofs`: `Inductive` and `SlotsAlwaysApart`, with `SlotsIssued`: no
  slot is beyond `last`, so the next is an interval beyond all. `RateIsBounded` needs
  more than the number of requests now: `RateInv` says of every time t that the
  requests gone out plus the calls whose slot is due by t do not exceed the slots
  there are up to t. `WaitIsBounded`, from `WaitInv`: the limiter is ahead of any
  time by at most an interval for each goroutine that waits behind it or was
  cancelled; a goroutine that was cancelled never asks again.
- `BattleStore_proofs`: `Inductive`, then `TeamResultsAreTrue`, `ParticipantsAreSound`,
  `FinishedBattleIsStored` and `ActiveBrawlersStay`. The invariant has two halves:
  what the tables say is right (`Sound`), and a goroutine has written what it must
  have written to stand where it stands (`Progress`). `Grows` says that no step takes
  anything back, so that the steps of the others, repairs and failures preserve the
  second half (`StandingGrows`) and an action owes only its own goroutine's part.
  `ResolvedIsTrue` is the core of the first: in whichever order a log lists the
  teams, the result at an index is that of the side listed there, and a draw is a draw
  for both. `ImplementsLedger` follows: what is recorded is true (`RecordedIsTrue`), it
  only grows (`StepAdds`), and a finished battle is recorded in full (`StoredIsRecorded`).
- `Profile_proofs`: `Inductive`. `CountIsHonest` is not inductive, since the
  count goes up only after the last row: `Standing` says what a writer knows of its
  snapshot, `Apart` that no other writer has it, and `Counted` that the crawls
  counted are as many as some of the whole snapshots, none of which is still being
  written. `CountsAreHonest`, `SnapshotsAreSound`, `FailuresAreNotStale` and
  `FailuresGoStepwise` follow; the last two from the generations. `DatingKeeps` is why
  a patch that was attributed stays one `OfItsTime` while the registry is re-dated.
  The provers know nothing of `^` with a variable exponent, so `PowerOfTwo` shows that
  `2^n` counts the subsets of `1..n`, which makes it grow; then `backoffDuration` is a
  single value, because an overflow, whichever sign it has, is cut to the same
  cap as the long delays below it. `BackoffsAreExact` and `TypesHold`
  follow by `Delays`, and `FailuresNeverHasten` says that the delay grows with the
  failures.
- `Analytics_proofs`: the invariant `AInv` joins that of `BattleStore` with the three
  properties. Every eligible row fills one of `TrueSlots` (`EligibleTrue`), with one of
  the results its battle allows it, as team results are true and rows sound, and what an earlier query counted stays counted because the tables only
  grow: `ResponsesAreTyped`, `WinRatesNeverOverstate`, `MapListPredicts`.
  `StoredBattlesAreReported` counts the eligible rows of a brawler by result: when every
  battle is stored they fill all of `TrueSlots`. `NoSlotIsLost` compares a number of rows
  with a sum over brawlers. The sum is a fold, whose recursive function is
  shown to exist by taking a least set on which it does not; the rows are then
  partitioned by brawler and result. `CountStands` is the part of the invariant it
  needs: what `CountEligible` counted is still there when `AggregateBrawlers` runs.
- `Domain_proofs`: `MoreTrophiesComeFirst`, and the range of buckets and priorities.

Every safety property and action property of the passing runs is stated by one of these
theorems. Only model-checked are the three liveness properties, `ShutdownCompletes`,
`CountStops` and `HaltStops`: leads-to under fairness is out of the prover's reach. Of
each, the safety half is proved, and what is left is that a goroutine which is not
blocked takes its next step. The four properties under "violation" are refuted by
TLC; that `DiscoveryIsBounded` holds below the ceiling is proved.

## 6. Not modelled

- **API client:** a request has no state. Its outcomes are actions (`Fetch`,
  `FetchError`, `GetPlayer`, `APIError`, `GlobalHalt`); URLs, headers, decoding and
  the response types are data no property depends on.
- **Collector commands:** arguments, environment (`mustEnvInt`), `migrate` and printed
  summaries run before or after everything that is shared.
- **Schema and connection:** the tables are the variables of the modules, their unique
  and foreign keys the guards of inserts. Migrations are run once by an external tool.
- **Parts of battle ingestion:** the fingerprint is taken to identify a battle, so that
  collisions are out of scope; star player, duration, the patch of a battle and
  raw data are columns nobody decides by.
- **Build and deployment:** no behaviour of the program.
- **Ratios and order of the analytics:** rounding of `WinPct` and `PickRate`, and ORDER BY.
