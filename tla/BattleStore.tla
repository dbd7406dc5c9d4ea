----------------------------- MODULE BattleStore -----------------------------
(***************************************************************************)
(* ingestion.BattleIngestor: a battle is written statement by statement,   *)
(* without a transaction, from the battle log of any of its participants,  *)
(* by several goroutines and processes at once.  `repair showdown' and     *)
(* `seed brawlers' write the same tables.                                  *)
(*                                                                         *)
(* A battle stands for its fingerprint: time, event and sorted tags, the   *)
(* same in every participant's log.  The order in which a log lists the    *)
(* two teams is no part of it, and may differ from log to log.             *)
(*                                                                         *)
(* Of the API it is assumed that a log holds its owner's battles, and that *)
(* the battles of TeamBattle have two teams.                               *)
(*                                                                         *)
(* Statements that fail without effect, lost replies and crashes are all   *)
(* Fail, before or after the statement.  The discoveries that IngestBattle *)
(* makes on the way are in Crawler.                                        *)
(***************************************************************************)
EXTENDS Naturals, FiniteSets

CONSTANTS
    Worker,      \* goroutines, of any process, that ingest battle logs
    TeamBattle,  \* battles with two teams
    Showdown,    \* solo showdown: a flat list of players
    Duel,        \* flat too
    Home, Away,  \* the players of the two sides
    Brawler,     \* ids of the brawlers table
    NoBrawler,   \* NULL in a brawler_id column
    Lineups      \* the brawlers that may have been played

Battle == TeamBattle \cup Showdown \cup Duel
Player == Home \cup Away

ASSUME KindsDiffer ==
    TeamBattle \cap (Showdown \cup Duel) = {} /\ Showdown \cap Duel = {}
ASSUME SidesDiffer == Home # {} /\ Away # {} /\ Home \cap Away = {}
ASSUME IdsDiffer == NoBrawler \notin Brawler \cup {0} /\ 0 \notin Brawler

\* Id 0 is how the API names no brawler, as in every duel.
ASSUME LineupsAssumption == Lineups \subseteq [Battle -> [Player -> Brawler \cup {0}]]

VARIABLES
    winner,     \* the side that won each team battle, or 2 for a draw
    plays,      \* the brawler id of each player in each battle
    mixed,      \* the team battles whose logs list the sides in either order
    events,     \* table events
    battles,    \* table battles, unique by fingerprint
    teams,      \* table battle_teams: the result of each team
    rows,       \* table battle_participants, unique by battle and player
    brawlers,   \* table brawlers: is_active, if there
    pc,         \* where each goroutine stands in IngestBattle
    job,        \* its battle, its discoverer and what is left to write
    repairing   \* what `repair showdown' still has to write

world == <<winner, plays, mixed>>
store == <<events, battles, teams, rows, brawlers>>
vars == <<world, store, pc, job, repairing>>

\* A side, and the index of a team in one log.
Team == {0, 1}
Other(t) == 1 - t

Members(side) == IF side = 0 THEN Home ELSE Away
SideOf(p) == IF p \in Home THEN 0 ELSE 1

\* A NULL team_id, and a row that is not there.
NoTeam == 2
Absent == "absent"

Result == {"victory", "defeat", "draw"}
Participant == [battle : Battle, player : Player,
                team : Team \cup {NoTeam}, brawler : Brawler \cup {NoBrawler}]

Written(b, p) == \E r \in rows : r.battle = b /\ r.player = p

\* The event of a battle: one for each kind is enough.
Event(b) == IF b \in TeamBattle THEN "teams" ELSE IF b \in Showdown THEN "showdown" ELSE "duel"

\* The result that one side really had.
TrueResult(b, side) ==
    IF winner[b] = 2 THEN "draw" ELSE IF winner[b] = side THEN "victory" ELSE "defeat"

\* What is stored for a player: a flat battle replaces id 0 by NULL, a team battle
\* does not.
Played(b, p) == IF b \notin TeamBattle /\ plays[b][p] = 0 THEN NoBrawler ELSE plays[b][p]

\* team is the index of the team that is written, first the side that the log has
\* at index 0.
Job == [battle : Battle \cup {Absent}, by : Player \cup {Absent},
        first : Team \cup {NoTeam}, team : Team \cup {NoTeam},
        todo : SUBSET Player, next : Player \cup {Absent}]

NoJob == [battle |-> Absent, by |-> Absent, first |-> NoTeam, team |-> NoTeam,
          todo |-> {}, next |-> Absent]

Init ==
    /\ winner \in [TeamBattle -> {0, 1, 2}]
    /\ plays \in Lineups
    /\ mixed \in SUBSET TeamBattle
    /\ events = {} /\ battles = {}
    /\ teams = [b \in TeamBattle |-> [t \in Team |-> Absent]]
    /\ rows = {}
    /\ brawlers = [x \in Brawler |-> Absent]
    /\ pc = [w \in Worker |-> "idle"]
    /\ job = [w \in Worker |-> NoJob]
    /\ repairing = {}

Goto(w, next) == pc' = [pc EXCEPT ![w] = next]

\* A battle as the log of one of its players has it.  Whose log it is, and how it
\* lists the teams, matters to a team battle alone.
LogEntry(b, p, side) ==
    IF b \in TeamBattle THEN [NoJob EXCEPT !.battle = b, !.by = p, !.first = side]
    ELSE [NoJob EXCEPT !.battle = b]

\* The next battle of some log; the one before is done, or was given up.
StartBattle(w) ==
    /\ pc[w] \in {"idle", "done"}
    /\ \E b \in Battle, p \in Player, side \in Team :
        /\ side = 0 \/ b \in mixed
        /\ job' = [job EXCEPT ![w] = LogEntry(b, p, side)]
    /\ Goto(w, "event")
    /\ UNCHANGED <<world, store, repairing>>

UpsertEvent(w) ==
    /\ pc[w] = "event"
    /\ events' = events \cup {Event(job[w].battle)}
    /\ Goto(w, "battle")
    /\ UNCHANGED <<world, battles, teams, rows, brawlers, job, repairing>>

\* Mutant: only a new battle gets its teams and participants.
InsertBattleGated(w) ==
    /\ pc[w] = "battle"
    /\ LET b == job[w].battle
       IN /\ battles' = battles \cup {b}
          /\ Goto(w, IF b \in battles THEN "done" ELSE IF b \in TeamBattle THEN "team" ELSE "player")
          /\ job' = [job EXCEPT ![w] = IF b \in TeamBattle THEN [@ EXCEPT !.team = 0]
                                       ELSE [@ EXCEPT !.todo = Player]]
    /\ UNCHANGED <<world, events, teams, rows, brawlers, repairing>>

\* INSERT ... ON CONFLICT (fingerprint) DO NOTHING, or the id of the row there.
InsertBattle(w) ==
    /\ pc[w] = "battle"
    /\ LET b == job[w].battle
       IN /\ battles' = battles \cup {b}
          /\ Goto(w, IF b \in TeamBattle THEN "team" ELSE "player")
          /\ job' = [job EXCEPT ![w] = IF b \in TeamBattle THEN [@ EXCEPT !.team = 0]
                                       ELSE [@ EXCEPT !.todo = Player]]
    /\ UNCHANGED <<world, events, teams, rows, brawlers, repairing>>

\* Mutant: a defeat stays a defeat for both teams.
OppositeOfVictory(r) == IF r = "victory" THEN "defeat" ELSE r

OppositeResult(r) ==
    IF r = "victory" THEN "defeat" ELSE IF r = "defeat" THEN "victory" ELSE r

\* The side that the log of a job has at its index t.
Listed(j, t) == IF t = 0 THEN j.first ELSE Other(j.first)

\* resolveTeamResults, for the index the goroutine is about to write: the log holds
\* the result of the discoverer, who is on one of its teams.
ResolveTeamResult(w) ==
    LET result == TrueResult(job[w].battle, SideOf(job[w].by))
        discovererTeam == CHOOSE t \in Team : Listed(job[w], t) = SideOf(job[w].by)
    IN IF job[w].team = discovererTeam THEN result ELSE OppositeResult(result)

\* ON CONFLICT (battle_id, team_index) DO UPDATE SET result
InsertBattleTeam(w) ==
    /\ pc[w] = "team"
    /\ teams' = [teams EXCEPT ![job[w].battle][job[w].team] = ResolveTeamResult(w)]
    /\ job' = [job EXCEPT ![w].todo = Members(Listed(job[w], job[w].team)),
                          ![w].by = IF job[w].team = 1 THEN Absent ELSE @]
    /\ Goto(w, "player")
    /\ UNCHANGED <<world, events, battles, rows, brawlers, repairing>>

\* Mutant: DO UPDATE SET is_active = false.
EnsureByOverwriting(x) == [brawlers EXCEPT ![x] = "retired"]

\* Mutant: nothing is inserted before the participant.
EnsureNothing(x) == brawlers

\* EnsureRetiredBrawler: a placeholder, ON CONFLICT DO NOTHING.
EnsureRetiredBrawler(x) == [brawlers EXCEPT ![x] = IF @ = Absent THEN "retired" ELSE @]

WithBrawler(b, p) == IF plays[b][p] = 0 THEN brawlers ELSE EnsureRetiredBrawler(plays[b][p])

\* The next participant of the list; for id 0 there is no statement.
EnsureBrawler(w) ==
    /\ pc[w] = "player"
    /\ \E p \in job[w].todo :
        /\ brawlers' = WithBrawler(job[w].battle, p)
        /\ job' = [job EXCEPT ![w].next = p]
    /\ Goto(w, "insert")
    /\ UNCHANGED <<world, events, battles, teams, rows, repairing>>

\* INSERT ... ON CONFLICT (battle_id, player_tag) DO NOTHING
WithParticipant(b, p, t) ==
    rows \cup IF Written(b, p) THEN {}
              ELSE {[battle |-> b, player |-> p, team |-> t, brawler |-> Played(b, p)]}

\* The foreign key of brawler_id: there is no brawler 0.
KeyHolds(b, p) == Played(b, p) \in Brawler => brawlers[Played(b, p)] # Absent
Storable(b, p) == Written(b, p) \/ (Played(b, p) # 0 /\ KeyHolds(b, p))

\* After the last participant: the other team, or IngestBattle returns.  A row that
\* the foreign key refuses is an error, which Fail stands for.
InsertParticipant(w) ==
    LET rest == job[w].todo \ {job[w].next}
    IN /\ pc[w] = "insert"
       /\ Storable(job[w].battle, job[w].next)
       /\ rows' = WithParticipant(job[w].battle, job[w].next, job[w].team)
       /\ \/ /\ rest # {}
             /\ job' = [job EXCEPT ![w].todo = rest, ![w].next = Absent]
             /\ Goto(w, "player")
          \/ /\ rest = {} /\ job[w].team = 0
             /\ job' = [job EXCEPT ![w].todo = {}, ![w].next = Absent, ![w].team = 1]
             /\ Goto(w, "team")
          \/ /\ rest = {} /\ job[w].team # 0
             /\ job' = [job EXCEPT ![w] = [NoJob EXCEPT !.battle = job[w].battle]]
             /\ Goto(w, "done")
       /\ UNCHANGED <<world, events, battles, teams, brawlers, repairing>>

\* Any error, or a crash: IngestBattle returns and nothing is undone.
Fail(w) ==
    /\ pc[w] \notin {"idle", "done"}
    /\ Goto(w, "idle")
    /\ job' = [job EXCEPT ![w] = NoJob]
    /\ UNCHANGED <<world, store, repairing>>

\* `repair showdown' reads the list of battles without any participant once.
RepairSelect ==
    /\ repairing = {}
    /\ repairing' = {b \in battles \cap Showdown : \A p \in Player : ~Written(b, p)}
                        \X Player
    /\ repairing' # {}
    /\ UNCHANGED <<world, store, pc, job>>

RepairParticipant(b, p) ==
    /\ <<b, p>> \in repairing
    /\ brawlers' = WithBrawler(b, p)
    /\ rows' = WithParticipant(b, p, NoTeam)
    /\ repairing' = repairing \ {<<b, p>>}
    /\ UNCHANGED <<world, events, battles, teams, pc, job>>

\* A warning, and on to the next participant.
RepairSkip(b, p) ==
    /\ <<b, p>> \in repairing
    /\ brawlers' \in {brawlers, WithBrawler(b, p)}
    /\ repairing' = repairing \ {<<b, p>>}
    /\ UNCHANGED <<world, events, battles, teams, rows, pc, job>>

\* `seed brawlers', one UpsertBrawler of its loop.
UpsertBrawler(x) ==
    /\ brawlers' = [brawlers EXCEPT ![x] = "active"]
    /\ UNCHANGED <<world, events, battles, teams, rows, pc, job, repairing>>

Step(w) ==
    \/ StartBattle(w)
    \/ UpsertEvent(w)
    \/ InsertBattle(w)
    \/ InsertBattleTeam(w)
    \/ EnsureBrawler(w)
    \/ InsertParticipant(w)
    \/ Fail(w)

Next ==
    \/ \E w \in Worker : Step(w)
    \/ RepairSelect
    \/ \E b \in Showdown, p \in Player : RepairParticipant(b, p) \/ RepairSkip(b, p)
    \/ \E x \in Brawler : UpsertBrawler(x)

Spec == Init /\ [][Next]_vars

(***************************************************************************)
(* Properties.                                                             *)
(***************************************************************************)

\* The tables hold what their columns can hold, in particular a participant's
\* brawler is a catalogue id or NULL, never the API's placeholder 0.
TypeOK ==
    /\ winner \in [TeamBattle -> {0, 1, 2}]
    /\ plays \in [Battle -> [Player -> Brawler \cup {0}]]
    /\ mixed \subseteq TeamBattle
    /\ events \subseteq {"teams", "showdown", "duel"}
    /\ battles \subseteq Battle
    /\ teams \in [TeamBattle -> [Team -> Result \cup {Absent}]]
    /\ rows \subseteq Participant
    /\ brawlers \in [Brawler -> {Absent, "active", "retired"}]
    /\ pc \in [Worker -> {"idle", "event", "battle", "team", "player", "insert", "done"}]
    /\ job \in [Worker -> Job]
    /\ repairing \subseteq Showdown \X Player

\* Whichever players' logs a battle was stored from, in whatever interleaving: if
\* they all list the sides in one order, each side has the result it really had; if
\* not, at least a draw is a draw and nothing else is (battle_ingestor.go
\* resolveTeamResults, battles.go:108).
TeamResultsTrue ==
    \A b \in TeamBattle, t \in Team :
        teams[b][t] # Absent =>
            /\ b \notin mixed => teams[b][t] = TrueResult(b, t)
            /\ teams[b][t] = "draw" <=> winner[b] = 2

Stored(b) ==
    /\ b \in battles /\ Event(b) \in events
    /\ \A p \in Player : Written(b, p)
    /\ b \in TeamBattle => \A t \in Team : teams[b][t] # Absent

\* IngestBattle returns without error only when the battle is stored whole,
\* also when it found the battle there, left half-written by an earlier failure
\* (battle_ingestor.go:47-48, 140-144).
FinishedIsStored == \A w \in Worker : pc[w] = "done" => Stored(job[w].battle)

\* A participant row refers to rows that are there and says what was played,
\* whether a crawl or a repair wrote it, or both at once; where all logs agree on
\* the order of the teams it is on its own.  A nonzero id is in the catalogue when
\* its participant is inserted, so that no foreign key refuses it (brawlers.go:51-53).
ParticipantsSound ==
    /\ \A r \in rows :
        /\ r.battle \in battles
        /\ r.team = NoTeam <=> r.battle \notin TeamBattle
        /\ r.battle \in TeamBattle \ mixed => r.team = SideOf(r.player)
        /\ r.brawler = Played(r.battle, r.player)
        /\ r.team # NoTeam => teams[r.battle][r.team] # Absent
        /\ r.brawler # NoBrawler => brawlers[r.brawler] # Absent
    /\ \A w \in Worker : pc[w] = "insert" => KeyHolds(job[w].battle, job[w].next)

\* Each player of a battle has one row.
OneRowEach ==
    \A r, s \in rows : r.battle = s.battle /\ r.player = s.player => r = s

\* What one goroutine has written when it stands where it stands.  Nothing of it
\* is ever taken back, by this goroutine, another one or a repair.
TeamStored(b, t, list) == teams[b][t] # Absent /\ \A p \in list : Written(b, p)

FirstStored(j) == TeamStored(j.battle, 0, Members(j.first))

ListStored(j) ==
    IF j.battle \in TeamBattle
    THEN /\ j.team \in Team /\ j.todo \subseteq Members(Listed(j, j.team))
         /\ TeamStored(j.battle, j.team, Members(Listed(j, j.team)) \ j.todo)
         /\ j.team = 1 => FirstStored(j)
    ELSE j.team = NoTeam /\ \A p \in Player \ j.todo : Written(j.battle, p)

\* What a goroutine knows of the log: how it lists the teams until they are
\* written, and whose it is until the last result is.
LogKnown(w) ==
    LET j == job[w]
    IN j.battle \in TeamBattle /\ pc[w] \notin {"idle", "done"} =>
        /\ j.first \in Team /\ (j.first = 0 \/ j.battle \in mixed)
        /\ pc[w] \in {"event", "battle", "team"} \/ j.team = 0 => j.by \in Player

Progress(w) ==
    LET j == job[w]
        b == job[w].battle
    IN /\ pc[w] # "idle" => b \in Battle
       /\ pc[w] \notin {"idle", "event"} => Event(b) \in events
       /\ pc[w] \notin {"idle", "event", "battle"} => b \in battles
       /\ pc[w] \in {"event", "battle"} => j.team = NoTeam
       /\ LogKnown(w)
       /\ pc[w] = "team" => /\ b \in TeamBattle /\ j.team \in Team
                            /\ j.team = 1 => FirstStored(j)
       /\ pc[w] \in {"player", "insert"} => ListStored(j)
       /\ pc[w] = "insert" => j.next \in j.todo
       /\ pc[w] = "done" => Stored(b)

\* The inductive invariant behind the three properties above.
IInv ==
    /\ TypeOK /\ TeamResultsTrue /\ ParticipantsSound /\ OneRowEach
    /\ \A w \in Worker : Progress(w)
    /\ \A task \in repairing : task[1] \in battles

\* Ingesting an old battle never retires a brawler the catalogue calls active
\* (brawlers.go:55-56).
ActiveStays ==
    [][\A x \in Brawler : brawlers[x] = "active" => brawlers'[x] = "active"]_vars

\* "In 3v3, the discoverer's team gets `discovererResult`; the other team gets the
\* opposite" (battle_ingestor.go:274-275): the players of a battle that was ingested
\* have the results they had.
ResultsCredited ==
    \A w \in Worker : pc[w] = "done" =>
        \A r \in {s \in rows : s.battle = job[w].battle /\ s.team # NoTeam} :
            teams[r.battle][r.team] = TrueResult(r.battle, SideOf(r.player))

\* What the tables say of battles so far: the brawler of each player, and the
\* result.  Where the logs disagree on the order of the teams, the result that a
\* player is credited with says only whether it was a draw.
Credited(r) ==
    IF r.battle \in mixed /\ teams[r.battle][r.team] # "draw" THEN "decided"
    ELSE teams[r.battle][r.team]

Recorded ==
    {[battle |-> r.battle, player |-> r.player, brawler |-> r.brawler] : r \in rows}
    \cup {[battle |-> r.battle, player |-> r.player, result |-> Credited(r)] :
             r \in {s \in rows : s.team # NoTeam}}

Finished == [w \in Worker |-> IF pc[w] = "done" THEN job[w].battle ELSE Absent]

Ledger == INSTANCE BattleLedger WITH
    None <- Absent, ledger <- Recorded, reported <- Finished

\* Statement by statement, without a transaction, by several goroutines and a
\* repair at once, over failures and crashes, the tables only ever gain facts,
\* only true ones, and have all of a battle when its ingestion reports success
\* (battle_ingestor.go IngestBattle).
IsLedger == Ledger!Spec
=============================================================================
