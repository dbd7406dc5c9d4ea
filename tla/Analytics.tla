------------------------------ MODULE Analytics ------------------------------
(***************************************************************************)
(* The HTTP API beside the collector: GET /v1/meta/winrates and            *)
(* GET /v1/meta/maps answer from the battle tables while battles are being *)
(* written to them statement by statement.  Win rates take two queries and *)
(* no transaction, so that each sees the tables of its own moment.         *)
(*                                                                         *)
(* One request is followed at a time: handlers only read, and share        *)
(* nothing.  Names, ratios and the order of the rows are left out.         *)
(***************************************************************************)
EXTENDS BattleStore, FiniteSetsExt

CONSTANTS
    TypeOf,      \* battle_type of each team battle
    MapOf,       \* its event_map; NoMap is the empty name
    NoMap,
    BucketOf,    \* trophy_bucket of each player's participant rows
    DefaultMin,  \* min_battles if there is none in the request
    Unset,       \* a parameter that is not in the request
    Request      \* the requests that are made

ASSUME WorldAssumption ==
    IsFiniteSet(TeamBattle) /\ IsFiniteSet(Player) /\ IsFiniteSet(Brawler)
ASSUME MinAssumption == DefaultMin \in Nat \ {0}

VARIABLE
    http        \* the request that is answered, and the response

allVars == <<vars, http>>

Mode == {"teams", "showdown", "duel"}

\* Rank-based outcomes, or no brawler.
ineligibleModes == {"showdown", "duel"}

BattleTypeFilter == {"ranked", "soloRanked", "competitive", "any"}

BattleTypeMatches(filter, b) ==
    \/ filter = "any"
    \/ filter \in {"ranked", "soloRanked"} /\ filter = TypeOf[b]
    \/ filter = "competitive" /\ TypeOf[b] \in {"ranked", "soloRanked"}

MapName == {MapOf[b] : b \in TeamBattle}

\* A type that is no filter stands for them all.
ASSUME RequestAssumption ==
    /\ Request \subseteq [mode : Mode \cup {Unset}, type : BattleTypeFilter \cup {Unset, "unknown"},
                          map : MapName \cup {Unset}, bucket : Nat \cup {Unset},
                          min : Nat \cup {Unset}]
    /\ Unset \notin Mode \cup BattleTypeFilter \cup MapName

\* What both handlers check, and what only winRatesHandler reads.
Answerable(q) ==
    /\ q.mode # Unset /\ q.mode \notin ineligibleModes
    /\ q.type \in BattleTypeFilter \cup {Unset}

Valid(q) ==
    /\ Answerable(q)
    /\ q.bucket # Unset => q.bucket \in 1..6
    /\ q.min # Unset => q.min >= 1

\* WinRateParams, the defaults filled in.
Params(q) ==
    [q EXCEPT !.type = IF @ = Unset THEN "ranked" ELSE @,
              !.min = IF @ = Unset THEN DefaultMin ELSE @]

NoReply == [status |-> "idle", params |-> Unset, sampleBattles |-> 0, totalSlots |-> 0,
            brawlers |-> {}, maps |-> {}]

AnalyticsInit == Init /\ http = NoReply

(***************************************************************************)
(* The queries.                                                            *)
(***************************************************************************)
\* bt.result: the participant row leads to its team, the team to the result.
ResultOf(r) == teams[r.battle][r.team]

\* Mutant: draws are left out of the rows, not of the ratio alone.
EligibleDecided(q) ==
    {r \in rows :
        /\ r.team # NoTeam /\ r.brawler # NoBrawler
        /\ Event(r.battle) = q.mode /\ ResultOf(r) \in {"victory", "defeat"}
        /\ BattleTypeMatches(q.type, r.battle)
        /\ q.map # Unset => MapOf[r.battle] = q.map
        /\ q.bucket # Unset => BucketOf[r.player] = q.bucket}

\* baseJoins and baseWhere.
Eligible(q) ==
    {r \in rows :
        /\ r.team # NoTeam /\ r.brawler # NoBrawler
        /\ Event(r.battle) = q.mode /\ ResultOf(r) \in Result
        /\ BattleTypeMatches(q.type, r.battle)
        /\ q.map # Unset => MapOf[r.battle] = q.map
        /\ q.bucket # Unset => BucketOf[r.player] = q.bucket}

EligibleOf(q, x) == {r \in Eligible(q) : r.brawler = x}

BattlesIn(R) == {r.battle : r \in R}

CountResult(q, x, result) == Cardinality({r \in EligibleOf(q, x) : ResultOf(r) = result})

\* Mutant: HAVING COUNT(DISTINCT b.id) > min.
QualifyingAbove(q) ==
    {x \in Brawler :
        brawlers[x] # Absent /\ Cardinality(BattlesIn(EligibleOf(q, x))) > q.min}

\* JOIN brawlers, and HAVING COUNT(DISTINCT b.id) >= min.
Qualifying(q) ==
    {x \in Brawler :
        brawlers[x] # Absent /\ Cardinality(BattlesIn(EligibleOf(q, x))) >= q.min}

BrawlerWinRate(q, x) ==
    [brawler |-> x, battles |-> Cardinality(BattlesIn(EligibleOf(q, x))),
     wins |-> CountResult(q, x, "victory"), losses |-> CountResult(q, x, "defeat"),
     draws |-> CountResult(q, x, "draw")]

\* The battles of MapList's main query: their teams are there, participants or not.
MapBattles(q, m) ==
    {b \in battles \cap TeamBattle :
        /\ Event(b) = q.mode /\ MapOf[b] = m /\ BattleTypeMatches(q.type, b)
        /\ \E t \in Team : teams[b][t] \in Result}

\* Mutant: COUNT(*) in place of COUNT(DISTINCT b.id).
MapQualifyingRows(q, m) ==
    {x \in Brawler :
        Cardinality(EligibleOf([q EXCEPT !.map = m, !.bucket = Unset], x)) >= DefaultMin}

\* The CTEs brawler_map and qualifying; the catalogue is not joined.
MapQualifying(q, m) ==
    {x \in Brawler :
        Cardinality(BattlesIn(EligibleOf([q EXCEPT !.map = m, !.bucket = Unset], x)))
            >= DefaultMin}

MapEntries(q) ==
    {[map |-> m, battles |-> Cardinality(MapBattles(q, m)),
      qualifying |-> Cardinality(MapQualifying(q, m))] :
        m \in MapName \ {NoMap}}

\* Mutant: the qualifying brawlers joined the other way round.
MapListAll(q) == MapEntries(q)

\* Only maps that have a battle.
MapList(q) == {e \in MapEntries(q) : e.battles > 0}

(***************************************************************************)
(* The handlers.                                                           *)
(***************************************************************************)
Refuse(q) ==
    /\ http.status # "counted"
    /\ ~Valid(q)
    /\ http' = [NoReply EXCEPT !.status = "400"]
    /\ UNCHANGED vars

\* winRatesHandler, up to the first query: sample_battles and total_slots.
CountEligible(q) ==
    /\ http.status # "counted"
    /\ Valid(q)
    /\ http' = [NoReply EXCEPT !.status = "counted", !.params = Params(q),
                               !.sampleBattles = Cardinality(BattlesIn(Eligible(Params(q)))),
                               !.totalSlots = Cardinality(Eligible(Params(q)))]
    /\ UNCHANGED vars

\* The second query, some time later, and the response.
AggregateBrawlers ==
    /\ http.status = "counted"
    /\ http' = [http EXCEPT !.status = "winrates",
                            !.brawlers = {BrawlerWinRate(http.params, x) :
                                             x \in Qualifying(http.params)}]
    /\ UNCHANGED vars

\* mapsHandler: one query.
ListMaps(q) ==
    /\ http.status # "counted"
    /\ Answerable(q)
    /\ http' = [NoReply EXCEPT !.status = "maps", !.params = Params(q),
                               !.maps = MapList(Params(q))]
    /\ UNCHANGED vars

\* A query fails: internal server error, and none of what was counted.
QueryError ==
    /\ http' = [NoReply EXCEPT !.status = "500"]
    /\ UNCHANGED vars

Handle ==
    \/ \E q \in Request : Refuse(q)
    \/ \E q \in Request : CountEligible(q)
    \/ AggregateBrawlers
    \/ \E q \in Request : ListMaps(q)
    \/ QueryError

AnalyticsNext == (Next /\ UNCHANGED http) \/ Handle

AnalyticsSpec == AnalyticsInit /\ [][AnalyticsNext]_allVars

(***************************************************************************)
(* Properties.                                                             *)
(***************************************************************************)
Row == [brawler : Brawler, battles : Nat, wins : Nat, losses : Nat, draws : Nat]
Entry == [map : MapName, battles : Nat, qualifying : Nat]
WinRateParams == [mode : {"teams"}, type : BattleTypeFilter, map : MapName \cup {Unset},
                  bucket : Nat \cup {Unset}, min : Nat]

\* The tables keep their types, a response has those of the API, a refused request
\* gets no data, and a map that is listed has a name and a battle.
AnalyticsTypeOK ==
    /\ TypeOK
    /\ http \in [status : {"idle", "counted", "winrates", "maps", "400", "500"},
                  params : WinRateParams \cup {Unset}, sampleBattles : Nat, totalSlots : Nat,
                  brawlers : SUBSET Row, maps : SUBSET Entry]
    /\ http.status \in {"counted", "winrates", "maps"} => http.params \in WinRateParams
    /\ http.brawlers # {} => http.status = "winrates"
    /\ http.maps # {} => http.status = "maps"
    /\ \A e \in http.maps : e.battles > 0 /\ e.map # NoMap

\* The participants that a request would count if every battle that was played were
\* stored whole; one for whom the API names no brawler is nobody's slot.
TrueSlots(q) ==
    {s \in {[battle |-> b, player |-> p, brawler |-> plays[b][p]] :
                b \in TeamBattle, p \in Player} :
        /\ s.brawler # 0
        /\ q.mode = "teams"
        /\ q.type = "competitive" => TypeOf[s.battle] \in {"ranked", "soloRanked"}
        /\ q.type \in {"ranked", "soloRanked"} => TypeOf[s.battle] = q.type
        /\ q.map # Unset => MapOf[s.battle] = q.map
        /\ q.bucket # Unset => BucketOf[s.player] = q.bucket}

TrueSlotsOf(q, x) == {s \in TrueSlots(q) : s.brawler = x}

\* The results that one of them may be credited with: its own, and either one if
\* the logs of the battle disagree on the order of the teams.
Credits(s) ==
    IF s.battle \in mixed /\ winner[s.battle] # 2 THEN {"victory", "defeat"}
    ELSE {TrueResult(s.battle, SideOf(s.player))}

MayCount(q, x, result) == Cardinality({s \in TrueSlotsOf(q, x) : result \in Credits(s)})
MustCount(q, x, result) == Cardinality({s \in TrueSlotsOf(q, x) : Credits(s) = {result}})

Slots(row) == row.wins + row.losses + row.draws

\* Whatever is half-written, written twice or written from another player's log
\* while the two queries run, no response credits a brawler with a win, loss, draw
\* or battle it did not have, credits a slot twice, or counts one that nobody filled
\* (winrate.go:84-88).
NeverOverstates ==
    LET q == http.params
    IN http.status \in {"counted", "winrates"} =>
        /\ http.totalSlots <= Cardinality(TrueSlots(q))
        /\ http.sampleBattles <= Cardinality(BattlesIn(TrueSlots(q)))
        /\ \A row \in http.brawlers :
            /\ row.wins <= MayCount(q, row.brawler, "victory")
            /\ row.losses <= MayCount(q, row.brawler, "defeat")
            /\ row.draws <= MayCount(q, row.brawler, "draw")
            /\ Slots(row) <= Cardinality(TrueSlotsOf(q, row.brawler))
            /\ row.battles <= Cardinality(BattlesIn(TrueSlotsOf(q, row.brawler)))

\* With no minimum the second query finds every slot that the first one counted:
\* nothing is taken back in between, and the join with the catalogue, which the
\* first does not make, loses no row (winrate.go:172-194, 216-218).
NothingLost ==
    http.status = "winrates" /\ http.params.min = 1 =>
        http.totalSlots <= MapThenSumSet(Slots, http.brawlers)

\* Once every team battle is stored the win rates are those of the battles, for
\* every request; wins and losses are exact but for the battles whose logs disagree
\* on the order of the teams, which only their sum counts exactly.
StoredIsReported ==
    (\A b \in TeamBattle : Stored(b)) =>
        \A q \in {Params(r) : r \in {s \in Request : Valid(s)}}, x \in Brawler :
            LET row == BrawlerWinRate(q, x)
                played == Cardinality(BattlesIn(TrueSlotsOf(q, x)))
            IN /\ x \in Qualifying(q) <=> played >= q.min
               /\ row.battles = played
               /\ Slots(row) = Cardinality(TrueSlotsOf(q, x))
               /\ row.wins \in MustCount(q, x, "victory")..MayCount(q, x, "victory")
               /\ row.losses \in MustCount(q, x, "defeat")..MayCount(q, x, "defeat")
               /\ row.draws \in MustCount(q, x, "draw")..MayCount(q, x, "draw")

\* "so callers can predict whether a win-rate query will return data"
\* (maps.go:32-33): asked for a listed map, with defaults, any time after the
\* list was made, a win-rate query returns at least the brawlers it announced.
MapsPredict ==
    http.status = "maps" =>
        \A e \in http.maps :
            LET q == [http.params EXCEPT !.map = e.map, !.bucket = Unset, !.min = DefaultMin]
            IN /\ e.qualifying <= Cardinality(Qualifying(q))
               /\ e.qualifying > 0 => e.battles >= DefaultMin
=============================================================================
