-------------------------- MODULE BattleStore_proofs --------------------------
(***************************************************************************)
(* Proofs about BattleStore, for any goroutines, battles and players.      *)
(***************************************************************************)
EXTENDS BattleStore, TLAPS

-----------------------------------------------------------------------------
(* Operators of the module.                                                *)

\* The players of the two sides are all the players, and SideOf finds the side.
LEMMA Sides ==
    /\ Members(0) = Home /\ Members(1) = Away
    /\ \A side \in Team : /\ Other(side) \in Team /\ Members(side) \subseteq Player
                          /\ Player = Members(side) \cup Members(Other(side))
                          /\ \A p \in Members(side) : SideOf(p) = side
    /\ \A p \in Player : SideOf(p) \in Team
BY SidesDiffer DEF Members, Player, Team, SideOf, Other

\* A log has one side at index 0 and the other at index 1.
LEMMA ListedSides ==
    ASSUME NEW j, j.first \in Team
    PROVE  /\ Listed(j, 0) = j.first /\ Listed(j, 1) = Other(j.first)
           /\ \A t \in Team : /\ Listed(j, t) \in Team
                              /\ \A u \in Team : u # t => Listed(j, u) = Other(Listed(j, t))
           /\ j.first = 0 => \A t \in Team : Listed(j, t) = t
BY DEF Listed, Other, Team

\* What is not stored yet is no result.
LEMMA ResultsThere == Absent \notin Result
BY DEF Absent, Result

\* The three kinds of battle.
LEMMA Kinds ==
    /\ TeamBattle \subseteq Battle /\ Showdown \subseteq Battle /\ Duel \subseteq Battle
    /\ \A b \in Battle : b \in TeamBattle => b \notin Showdown /\ b \notin Duel
    /\ \A b \in Showdown : b \notin TeamBattle /\ b \notin Duel
    /\ \A b \in Battle : Event(b) \in {"teams", "showdown", "duel"}
BY KindsDiffer DEF Battle, Event

\* What is stored for a player is a catalogue id, NULL or, in a team battle alone,
\* the id 0 that no brawler has.
LEMMA PlayedType ==
    ASSUME TypeOK, NEW b \in Battle, NEW p \in Player
    PROVE  /\ plays[b][p] = 0 => Played(b, p) \in {0, NoBrawler}
           /\ plays[b][p] = 0 => (Played(b, p) = 0 <=> b \in TeamBattle)
           /\ plays[b][p] # 0 => Played(b, p) = plays[b][p] /\ plays[b][p] \in Brawler
BY IdsDiffer DEF TypeOK, Played

\* A log that holds the discoverer's own result gives both teams theirs.
LEMMA ResolvedIsTrue ==
    ASSUME TypeOK, NEW w \in Worker, job[w].battle \in TeamBattle,
           job[w].by \in Player, job[w].first \in Team, job[w].team \in Team
    PROVE  LET b == job[w].battle
           IN /\ ResolveTeamResult(w) = TrueResult(b, Listed(job[w], job[w].team))
              /\ ResolveTeamResult(w) \in Result
              /\ ResolveTeamResult(w) = "draw" <=> winner[b] = 2
<1> PICK j : j = job[w]  OBVIOUS
<1> PICK b : b = j.battle  OBVIOUS
<1> PICK own : own = SideOf(j.by)  OBVIOUS
<1> PICK d : d = CHOOSE t \in Team : Listed(j, t) = own  OBVIOUS
<1> PICK side : side = Listed(j, j.team)  OBVIOUS
<1>1. winner[b] \in {0, 1, 2}  BY DEF TypeOK
<1>2. own \in Team  BY Sides
<1>3. d \in Team /\ Listed(j, d) = own
  <2>1. \E t \in Team : Listed(j, t) = own  BY <1>2, ListedSides DEF Team, Other
  <2> QED BY <2>1
<1>4. side = IF j.team = d THEN own ELSE Other(own)
  BY <1>3, ListedSides
<1>5. TrueResult(b, own) = IF winner[b] = 2 THEN "draw"
                           ELSE IF winner[b] = own THEN "victory" ELSE "defeat"
  BY DEF TrueResult
<1>6. ResolveTeamResult(w) = IF j.team = d THEN TrueResult(b, own)
                             ELSE OppositeResult(TrueResult(b, own))
  BY DEF ResolveTeamResult
<1>7. TrueResult(b, side) = IF winner[b] = 2 THEN "draw"
                            ELSE IF winner[b] = side THEN "victory" ELSE "defeat"
  BY DEF TrueResult
<1>8. ResolveTeamResult(w) = TrueResult(b, side)
  <2>1. CASE j.team = d  BY <1>4, <1>6, <2>1
  <2>2. CASE j.team # d
    BY <1>1, <1>2, <1>4, <1>5, <1>6, <1>7, <2>2 DEF OppositeResult, Other, Team
  <2> QED BY <2>1, <2>2
<1> QED BY <1>1, <1>7, <1>8 DEF Result

-----------------------------------------------------------------------------
(* What no step takes back.                                                *)

Grows ==
    /\ UNCHANGED world
    /\ events \subseteq events' /\ battles \subseteq battles' /\ rows \subseteq rows'
    /\ \A b \in TeamBattle, t \in Team : teams[b][t] # Absent => teams'[b][t] # Absent
    /\ \A x \in Brawler : brawlers[x] # Absent => brawlers'[x] # Absent

LEMMA WrittenGrows ==
    ASSUME Grows, NEW b, NEW p, Written(b, p)
    PROVE  Written(b, p)'
BY DEF Grows, Written

LEMMA StoredGrows ==
    ASSUME Grows, NEW b \in Battle
    PROVE  Stored(b) => Stored(b)'
<1>1. \A p \in Player : Written(b, p) => Written(b, p)'  BY WrittenGrows
<1> QED BY <1>1 DEF Grows, Stored

LEMMA TeamGrows ==
    ASSUME Grows, NEW b \in TeamBattle, NEW t \in Team, NEW list, TeamStored(b, t, list)
    PROVE  TeamStored(b, t, list)'
<1>1. teams'[b][t] # Absent /\ \A p \in list : Written(b, p)'
  BY WrittenGrows DEF Grows, TeamStored
<1> QED BY <1>1 DEF TeamStored

LEMMA ListGrows ==
    ASSUME Grows, NEW j
    PROVE  /\ j.battle \in TeamBattle /\ FirstStored(j) => FirstStored(j)'
           /\ ListStored(j) => ListStored(j)'
<1>1. j.battle \in TeamBattle /\ FirstStored(j) => FirstStored(j)'
  BY TeamGrows DEF FirstStored, Team
<1>2. ASSUME ListStored(j)  PROVE ListStored(j)'
  <2> PICK b : b = j.battle  OBVIOUS
  <2>1. CASE b \in TeamBattle
    <3> PICK list : list = Members(Listed(j, j.team)) \ j.todo  OBVIOUS
    <3>1. /\ j.team \in Team /\ j.todo \subseteq Members(Listed(j, j.team))
          /\ TeamStored(b, j.team, list) /\ (j.team = 1 => FirstStored(j))
      BY <1>2, <2>1 DEF ListStored
    <3>2. TeamStored(b, j.team, list)'  BY <2>1, <3>1, TeamGrows
    <3> QED BY <1>1, <2>1, <3>1, <3>2 DEF ListStored
  <2>2. CASE b \notin TeamBattle
    BY <1>2, <2>2, WrittenGrows DEF ListStored
  <2> QED BY <2>1, <2>2
<1> QED BY <1>1, <1>2

\* Where a goroutine stands, with what it needs for its next statement.
Standing(w) ==
    Progress(w) /\ (pc[w] = "insert" => KeyHolds(job[w].battle, job[w].next))

LEMMA KeyGrows ==
    ASSUME Grows, NEW b, NEW p, KeyHolds(b, p)
    PROVE  KeyHolds(b, p)'
<1>1. Played(b, p)' = Played(b, p)  BY DEF Grows, world, Played
<1> QED BY <1>1 DEF Grows, KeyHolds

\* A goroutine that stays where it is keeps what it has written.
LEMMA StandingGrows ==
    ASSUME Grows, NEW w \in Worker, Standing(w),
           pc'[w] = pc[w], job'[w] = job[w]
    PROVE  Standing(w)'
<1> PICK j : j = job[w]  OBVIOUS
<1> PICK b : b = j.battle  OBVIOUS
<1>1. Progress(w)'
  <2>1. LogKnown(w)'  BY DEF Standing, Progress, LogKnown, Grows, world
  <2>2. CASE pc[w] = "idle"  BY <2>1, <2>2 DEF Progress
  <2>3. CASE pc[w] # "idle"
    <3>1. b \in Battle  BY <2>3 DEF Standing, Progress
    <3>2. /\ Stored(b) => Stored(b)'
          /\ b \in TeamBattle /\ FirstStored(j) => FirstStored(j)'
          /\ ListStored(j) => ListStored(j)'
          /\ Event(b) \in events => Event(b) \in events'
          /\ b \in battles => b \in battles'
      BY <3>1, StoredGrows, ListGrows DEF Grows
    <3> QED BY <2>1, <2>3, <3>1, <3>2 DEF Standing, Progress
  <2> QED BY <2>2, <2>3
<1>2. ASSUME pc[w] = "insert"  PROVE KeyHolds(b, j.next)'
  BY <1>2, KeyGrows DEF Standing
<1> QED BY <1>1, <1>2 DEF Standing

-----------------------------------------------------------------------------
(* The invariant, in the parts that the steps disturb.                     *)

Tables ==
    /\ winner \in [TeamBattle -> {0, 1, 2}]
    /\ plays \in [Battle -> [Player -> Brawler \cup {0}]]
    /\ mixed \subseteq TeamBattle
    /\ events \subseteq {"teams", "showdown", "duel"}
    /\ battles \subseteq Battle
    /\ teams \in [TeamBattle -> [Team -> Result \cup {Absent}]]
    /\ rows \subseteq Participant
    /\ brawlers \in [Brawler -> {Absent, "active", "retired"}]

Goroutines ==
    /\ pc \in [Worker -> {"idle", "event", "battle", "team", "player", "insert", "done"}]
    /\ job \in [Worker -> Job]

Repairs ==
    /\ repairing \subseteq Showdown \X Player
    /\ \A task \in repairing : task[1] \in battles

RowSound(r) ==
    /\ r.battle \in battles
    /\ r.team = NoTeam <=> r.battle \notin TeamBattle
    /\ r.battle \in TeamBattle \ mixed => r.team = SideOf(r.player)
    /\ r.brawler = Played(r.battle, r.player)
    /\ r.team # NoTeam => teams[r.battle][r.team] # Absent
    /\ r.brawler # NoBrawler => brawlers[r.brawler] # Absent

RowsSound == (\A r \in rows : RowSound(r)) /\ OneRowEach

Sound == Tables /\ TeamResultsTrue /\ RowsSound

LEMMA Parts ==
    /\ IInv <=> Sound /\ Goroutines /\ Repairs /\ \A w \in Worker : Standing(w)
    /\ IInv' <=> Sound' /\ Goroutines' /\ Repairs' /\ \A w \in Worker : Standing(w)'
BY DEF IInv, Sound, Tables, Goroutines, Repairs, TypeOK, ParticipantsSound, RowsSound,
   RowSound, Standing

LEMMA RepairsGrow ==
    ASSUME Repairs, Grows, repairing' \subseteq repairing
    PROVE  Repairs'
BY DEF Repairs, Grows

LEMMA ResultsGrow ==
    ASSUME TeamResultsTrue, Grows, teams' = teams
    PROVE  TeamResultsTrue'
BY DEF Grows, world, TeamResultsTrue, TrueResult

\* What a row says stays true.
LEMMA RowGrows ==
    ASSUME Tables, Grows, NEW r \in Participant, RowSound(r)
    PROVE  RowSound(r)'
<1>1. Played(r.battle, r.player)' = Played(r.battle, r.player)
  BY DEF Grows, world, Played
<1>2. r.brawler \in Brawler \cup {NoBrawler} /\ r.team \in Team \cup {NoTeam}
  BY DEF Participant
<1>3. r.team # NoTeam => r.battle \in TeamBattle  BY DEF RowSound
<1> QED BY <1>1, <1>2, <1>3 DEF RowSound, Grows, world

\* Sound is preserved where no team result and no participant is written.
LEMMA SoundGrows ==
    ASSUME Sound, Grows, Tables', teams' = teams, rows' = rows
    PROVE  Sound'
<1>1. TeamResultsTrue'  BY ResultsGrow DEF Sound
<1>2. \A r \in rows : RowSound(r)'  BY RowGrows DEF Sound, Tables, RowsSound
<1>3. RowsSound'  BY <1>2 DEF Sound, RowsSound, OneRowEach
<1> QED BY <1>1, <1>3 DEF Sound

\* One more participant, whose brawler is there.
LEMMA SoundWithParticipant ==
    ASSUME Sound, Grows, Tables', teams' = teams,
           NEW b \in Battle, b \in battles, NEW p \in Player, NEW t \in Team \cup {NoTeam},
           rows' = WithParticipant(b, p, t),
           t = NoTeam <=> b \notin TeamBattle,
           b \in TeamBattle \ mixed => t = SideOf(p),
           t # NoTeam => teams[b][t] # Absent,
           ~Written(b, p) => /\ Played(b, p) \in Brawler \cup {NoBrawler}
                             /\ Played(b, p) \in Brawler => brawlers'[Played(b, p)] # Absent
    PROVE  Sound'
<1>1. TeamResultsTrue'  BY ResultsGrow DEF Sound
<1> PICK new : new = [battle |-> b, player |-> p, team |-> t, brawler |-> Played(b, p)]
  OBVIOUS
<1>2. rows' = rows \cup IF Written(b, p) THEN {} ELSE {new}
  BY DEF WithParticipant
<1>3. \A r \in rows : RowSound(r)'  BY RowGrows DEF Sound, Tables, RowsSound
<1>4. ASSUME ~Written(b, p)  PROVE RowSound(new)'
  <2>1. Played(b, p)' = Played(b, p)  BY DEF Grows, world, Played
  <2> QED BY <1>4, <2>1 DEF RowSound, Grows, world
<1>5. OneRowEach'
  BY <1>2 DEF Sound, RowsSound, OneRowEach, Written
<1>6. RowsSound'  BY <1>2, <1>3, <1>4, <1>5 DEF RowsSound
<1> QED BY <1>1, <1>6 DEF Sound

-----------------------------------------------------------------------------
(* The steps of a goroutine.                                               *)

\* What is left to show of a step of one goroutine.
LEMMA OneGoroutine ==
    ASSUME IInv, NEW w \in Worker, Grows, Sound', Goroutines', UNCHANGED repairing,
           \A v \in Worker \ {w} : pc'[v] = pc[v] /\ job'[v] = job[v],
           Standing(w)'
    PROVE  IInv'
<1>1. \A v \in Worker : Standing(v)  BY Parts
<1>2. \A v \in Worker \ {w} : Standing(v)'  BY <1>1, StandingGrows
<1>3. Repairs'  BY Parts, RepairsGrow
<1> QED BY <1>2, <1>3, Parts

LEMMA StartBattleInv ==
    ASSUME IInv, NEW w \in Worker, StartBattle(w)
    PROVE  IInv'
<1> USE DEF world, store
<1>1. Sound /\ Goroutines  BY Parts
<1>2. PICK b \in Battle, p \in Player, side \in Team :
        /\ side = 0 \/ b \in mixed
        /\ job' = [job EXCEPT ![w] = LogEntry(b, p, side)]
  BY DEF StartBattle
<1> PICK j : j = LogEntry(b, p, side)  OBVIOUS
<1>3. /\ j \in Job /\ j.battle = b /\ j.team = NoTeam
      /\ b \in TeamBattle => j.by = p /\ j.first = side
  BY DEF LogEntry, NoJob, Job
<1>4. /\ pc' = [pc EXCEPT ![w] = "event"] /\ Goroutines'
      /\ \A v \in Worker \ {w} : pc'[v] = pc[v] /\ job'[v] = job[v]
  BY <1>1, <1>2, <1>3 DEF StartBattle, Goto, Goroutines
<1>5. Grows  BY DEF StartBattle, Grows
<1>6. Sound'
  BY <1>1, <1>5, SoundGrows DEF StartBattle, Sound, Tables
<1>7. Standing(w)'
  <2>1. pc'[w] = "event" /\ job'[w] = j /\ mixed' = mixed
    BY <1>1, <1>2, <1>4 DEF StartBattle, Goroutines
  <2> QED BY <1>2, <1>3, <2>1 DEF Standing, Progress, LogKnown
<1> QED BY <1>4, <1>5, <1>6, <1>7, OneGoroutine DEF StartBattle

LEMMA UpsertEventInv ==
    ASSUME IInv, NEW w \in Worker, UpsertEvent(w)
    PROVE  IInv'
<1> USE DEF world
<1>1. Sound /\ Goroutines /\ Standing(w)  BY Parts
<1>2. /\ pc' = [pc EXCEPT ![w] = "battle"] /\ Goroutines'
      /\ \A v \in Worker \ {w} : pc'[v] = pc[v] /\ job'[v] = job[v]
  BY <1>1 DEF UpsertEvent, Goto, Goroutines
<1>3. Grows  BY DEF UpsertEvent, Grows
<1>4. job[w].battle \in Battle  BY <1>1 DEF UpsertEvent, Standing, Progress
<1>5. events' \subseteq {"teams", "showdown", "duel"}
  BY <1>1, <1>4, Kinds DEF UpsertEvent, Sound, Tables
<1>6. Sound'
  BY <1>1, <1>3, <1>5, SoundGrows DEF UpsertEvent, Sound, Tables
<1>7. Standing(w)'
  <2>1. pc[w] = "event" /\ pc'[w] = "battle" /\ job' = job
        /\ Event(job[w].battle) \in events' /\ mixed' = mixed
    BY <1>1, <1>2 DEF UpsertEvent, Goroutines
  <2> QED BY <1>1, <2>1 DEF Standing, Progress, LogKnown
<1> QED BY <1>2, <1>3, <1>6, <1>7, OneGoroutine DEF UpsertEvent

LEMMA InsertBattleInv ==
    ASSUME IInv, NEW w \in Worker, InsertBattle(w)
    PROVE  IInv'
<1> USE DEF world
<1>1. Sound /\ Goroutines /\ Standing(w)  BY Parts
<1> PICK b : b = job[w].battle  OBVIOUS
<1>2. /\ b \in Battle /\ Event(b) \in events
      /\ job[w].team = NoTeam /\ pc[w] = "battle"
      /\ b \in TeamBattle => /\ job[w].by \in Player /\ job[w].first \in Team
                             /\ job[w].first = 0 \/ b \in mixed
  BY <1>1 DEF InsertBattle, Standing, Progress, LogKnown
<1> PICK j : j = IF b \in TeamBattle THEN [job[w] EXCEPT !.team = 0]
                 ELSE [job[w] EXCEPT !.todo = Player]
  OBVIOUS
<1>3. j \in Job /\ job' = [job EXCEPT ![w] = j]
  BY <1>1 DEF InsertBattle, Goroutines, Job, Team
<1>4. /\ pc' = [pc EXCEPT ![w] = IF b \in TeamBattle THEN "team" ELSE "player"]
      /\ Goroutines'
      /\ \A v \in Worker \ {w} : pc'[v] = pc[v] /\ job'[v] = job[v]
  BY <1>1, <1>3 DEF InsertBattle, Goto, Goroutines
<1>5. Grows  BY DEF InsertBattle, Grows
<1>6. b \in battles' /\ battles' \subseteq Battle
  BY <1>1, <1>2 DEF InsertBattle, Sound, Tables
<1>7. Sound'
  BY <1>1, <1>5, <1>6, SoundGrows DEF InsertBattle, Sound, Tables
<1>8. Standing(w)'
  <2>1. job'[w] = j /\ events' = events /\ mixed' = mixed
    BY <1>1, <1>3 DEF Goroutines, InsertBattle
  <2>2. CASE b \in TeamBattle
    <3>1. /\ j.battle = b /\ j.by = job[w].by /\ j.team = 0
          /\ j.first = job[w].first
      <4>1. j = [job[w] EXCEPT !.team = 0] /\ job[w] \in Job
        BY <1>1, <2>2 DEF Goroutines
      <4> QED BY <4>1 DEF Job
    <3>2. pc'[w] = "team"  BY <1>1, <1>4, <2>2 DEF Goroutines
    <3>3. LogKnown(w)'
      <4>1. j.by \in Player /\ j.first \in Team /\ (j.first = 0 \/ b \in mixed')
        BY <1>2, <2>1, <2>2, <3>1
      <4> QED BY <2>1, <3>1, <4>1 DEF LogKnown
    <3> QED BY <1>2, <1>6, <2>1, <2>2, <3>1, <3>2, <3>3 DEF Standing, Progress, Team
  <2>3. CASE b \notin TeamBattle
    <3>1. j.battle = b /\ j.todo = Player /\ j.team = NoTeam
      BY <1>1, <1>2, <2>3 DEF Goroutines, Job
    <3>2. pc'[w] = "player"  BY <1>1, <1>4, <2>3 DEF Goroutines
    <3>3. ListStored(j)'  BY <2>3, <3>1 DEF ListStored
    <3> QED BY <1>2, <1>6, <2>1, <2>3, <3>1, <3>2, <3>3 DEF Standing, Progress, LogKnown
  <2> QED BY <2>2, <2>3
<1> QED BY <1>4, <1>5, <1>7, <1>8, OneGoroutine DEF InsertBattle

LEMMA InsertBattleTeamInv ==
    ASSUME IInv, NEW w \in Worker, InsertBattleTeam(w)
    PROVE  IInv'
<1> USE DEF world
<1>1. TypeOK /\ Sound /\ Goroutines /\ Standing(w)  BY Parts DEF IInv
<1> PICK b : b = job[w].battle  OBVIOUS
<1> PICK t : t = job[w].team  OBVIOUS
<1> PICK side : side = Listed(job[w], t)  OBVIOUS
<1>2. /\ b \in TeamBattle /\ t \in Team /\ job[w].by \in Player /\ pc[w] = "team"
      /\ Event(b) \in events /\ b \in battles /\ (t = 1 => FirstStored(job[w]))
      /\ job[w].first \in Team /\ (job[w].first = 0 \/ b \in mixed)
  BY <1>1 DEF InsertBattleTeam, Standing, Progress, LogKnown
<1>3. /\ ResolveTeamResult(w) = TrueResult(b, side) /\ ResolveTeamResult(w) \in Result
      /\ ResolveTeamResult(w) = "draw" <=> winner[b] = 2
      /\ side \in Team /\ (b \notin mixed => side = t)
  BY <1>1, <1>2, ResolvedIsTrue, ListedSides
<1> PICK result : result = ResolveTeamResult(w)  OBVIOUS
<1>4. teams' = [teams EXCEPT ![b] = [teams[b] EXCEPT ![t] = result]]
  BY DEF InsertBattleTeam
<1>5. teams' \in [TeamBattle -> [Team -> Result \cup {Absent}]]
  <2>1. teams[b] \in [Team -> Result \cup {Absent}]  BY <1>1, <1>2 DEF Sound, Tables
  <2>2. [teams[b] EXCEPT ![t] = result] \in [Team -> Result \cup {Absent}]
    BY <2>1, <1>2, <1>3
  <2> QED BY <2>2, <1>1, <1>4 DEF Sound, Tables
<1>6. /\ \A c \in TeamBattle, u \in Team :
           teams'[c][u] = IF c = b /\ u = t THEN result ELSE teams[c][u]
      /\ teams'[b][t] # Absent
  BY <1>1, <1>2, <1>3, <1>4, ResultsThere DEF Sound, Tables
<1>7. Grows  BY <1>3, <1>6, ResultsThere DEF InsertBattleTeam, Grows
<1>8. Sound'
  <2>1. Tables'  BY <1>1, <1>5 DEF InsertBattleTeam, Sound, Tables
  <2>2. TeamResultsTrue'
    <3>1. \A c \in TeamBattle, u \in Team : teams'[c][u] # Absent =>
            /\ c \notin mixed => teams'[c][u] = TrueResult(c, u)
            /\ teams'[c][u] = "draw" <=> winner[c] = 2
      BY <1>1, <1>3, <1>6 DEF Sound, TeamResultsTrue
    <3> QED BY <3>1 DEF TeamResultsTrue, TrueResult, InsertBattleTeam
  <2>3. rows' = rows /\ \A r \in rows : RowSound(r)'
    BY <1>1, <1>7, RowGrows DEF InsertBattleTeam, Sound, Tables, RowsSound
  <2>4. RowsSound'  BY <1>1, <2>3 DEF Sound, RowsSound, OneRowEach
  <2> QED BY <2>1, <2>2, <2>4 DEF Sound
<1> PICK by : by = IF t = 1 THEN Absent ELSE job[w].by  OBVIOUS
<1> PICK j : j = [job[w] EXCEPT !.todo = Members(side), !.by = by]  OBVIOUS
<1>9. j \in Job /\ job' = [job EXCEPT ![w] = j]
  <2>1. job[w] \in Job /\ Members(side) \subseteq Player /\ by \in Player \cup {Absent}
    BY <1>1, <1>2, <1>3, Sides DEF Goroutines
  <2>2. j \in Job  BY <2>1 DEF Job
  <2>3. job' = [job EXCEPT ![w].todo = Members(side), ![w].by = by]
    BY DEF InsertBattleTeam
  <2> QED BY <1>1, <2>2, <2>3 DEF Goroutines
<1>10. /\ pc' = [pc EXCEPT ![w] = "player"] /\ Goroutines'
       /\ \A v \in Worker \ {w} : pc'[v] = pc[v] /\ job'[v] = job[v]
  BY <1>1, <1>9 DEF InsertBattleTeam, Goto, Goroutines
<1>11. Standing(w)'
  <2>1. /\ pc'[w] = "player" /\ job'[w] = j /\ events' = events /\ battles' = battles
        /\ mixed' = mixed
    BY <1>1, <1>9, <1>10 DEF InsertBattleTeam, Goroutines
  <2>2. /\ j.battle = b /\ j.team = t /\ j.by = by /\ j.todo = Members(side)
        /\ j.first = job[w].first /\ Listed(j, t) = side
    BY <1>1 DEF Goroutines, Job, Listed
  <2>3. b \in Battle  BY <1>2, Kinds
  <2>4. t = 1 => FirstStored(j)'
    BY <1>2, <1>7, <2>2, ListGrows DEF FirstStored
  <2>5. ListStored(j)'  BY <1>2, <1>6, <2>2, <2>4 DEF ListStored, TeamStored
  <2>6. LogKnown(w)'  BY <1>2, <2>1, <2>2 DEF LogKnown, Team
  <2> QED BY <1>2, <2>1, <2>2, <2>3, <2>5, <2>6 DEF Standing, Progress
<1> QED BY <1>7, <1>8, <1>10, <1>11, OneGoroutine DEF InsertBattleTeam

\* A placeholder takes nothing from the catalogue.
LEMMA EnsureKeeps ==
    ASSUME Tables, NEW b \in Battle, NEW p \in Player
    PROVE  /\ WithBrawler(b, p) \in [Brawler -> {Absent, "active", "retired"}]
           /\ plays[b][p] # 0 => WithBrawler(b, p)[plays[b][p]] # Absent
           /\ \A y \in Brawler : brawlers[y] # Absent => WithBrawler(b, p)[y] # Absent
<1>1. plays[b][p] \in Brawler \cup {0}  BY DEF Tables
<1> QED BY <1>1 DEF Tables, WithBrawler, EnsureRetiredBrawler, Absent

LEMMA EnsureBrawlerInv ==
    ASSUME IInv, NEW w \in Worker, EnsureBrawler(w)
    PROVE  IInv'
<1> USE DEF world
<1>1. TypeOK /\ Sound /\ Goroutines /\ Standing(w)  BY Parts DEF IInv
<1> PICK b : b = job[w].battle  OBVIOUS
<1>2. /\ b \in Battle /\ Event(b) \in events /\ b \in battles
      /\ ListStored(job[w]) /\ pc[w] = "player" /\ LogKnown(w)
  BY <1>1 DEF EnsureBrawler, Standing, Progress
<1>3. PICK p \in job[w].todo :
        /\ brawlers' = WithBrawler(b, p)
        /\ job' = [job EXCEPT ![w].next = p]
  BY DEF EnsureBrawler
<1>4. p \in Player  BY <1>1 DEF Goroutines, Job
<1>5. /\ brawlers' \in [Brawler -> {Absent, "active", "retired"}]
      /\ \A y \in Brawler : brawlers[y] # Absent => brawlers'[y] # Absent
      /\ plays[b][p] # 0 => brawlers'[plays[b][p]] # Absent
  BY <1>1, <1>2, <1>3, <1>4, EnsureKeeps DEF Sound
<1>6. Grows  BY <1>5 DEF EnsureBrawler, Grows
<1>7. Sound'
  BY <1>1, <1>5, <1>6, SoundGrows DEF EnsureBrawler, Sound, Tables
<1> PICK j : j = [job[w] EXCEPT !.next = p]  OBVIOUS
<1>8. j \in Job /\ job' = [job EXCEPT ![w] = j]
  BY <1>1, <1>3, <1>4 DEF Goroutines, Job
<1>9. /\ pc' = [pc EXCEPT ![w] = "insert"] /\ Goroutines'
      /\ \A v \in Worker \ {w} : pc'[v] = pc[v] /\ job'[v] = job[v]
  BY <1>1, <1>8 DEF EnsureBrawler, Goto, Goroutines
<1>10. Standing(w)'
  <2>1. /\ pc'[w] = "insert" /\ job'[w] = j /\ events' = events /\ battles' = battles
        /\ plays' = plays /\ mixed' = mixed
    BY <1>1, <1>8, <1>9 DEF EnsureBrawler, Goroutines
  <2>2. /\ j.battle = b /\ j.team = job[w].team /\ j.by = job[w].by
        /\ j.first = job[w].first /\ j.todo = job[w].todo /\ j.next = p
    BY <1>1 DEF Goroutines, Job
  <2>3. ListStored(j)  BY <1>2, <2>2 DEF ListStored, FirstStored, Listed
  <2>4. ListStored(j)'  BY <1>6, <2>3, ListGrows
  <2>5. j.next \in j.todo  BY <1>3, <2>2
  <2>6. KeyHolds(b, p)'
    <3>1. Played(b, p)' = Played(b, p)  BY <2>1 DEF Played
    <3>2. Played(b, p) \in Brawler => Played(b, p) = plays[b][p] /\ plays[b][p] # 0
      BY <1>1, <1>2, <1>4, PlayedType, IdsDiffer
    <3> QED BY <1>5, <3>1, <3>2 DEF KeyHolds
  <2>7. LogKnown(w)'  BY <1>2, <2>1, <2>2 DEF LogKnown
  <2>8. j.battle \in Battle /\ Event(j.battle) \in events' /\ j.battle \in battles'
    BY <1>2, <2>1, <2>2
  <2> QED BY <2>1, <2>2, <2>4, <2>5, <2>6, <2>7, <2>8 DEF Standing, Progress
<1> QED BY <1>6, <1>7, <1>9, <1>10, OneGoroutine DEF EnsureBrawler

LEMMA FailInv ==
    ASSUME IInv, NEW w \in Worker, Fail(w)
    PROVE  IInv'
<1> USE DEF world, store
<1>1. Sound /\ Goroutines  BY Parts
<1>2. NoJob \in Job  BY DEF NoJob, Job
<1>3. /\ pc' = [pc EXCEPT ![w] = "idle"] /\ Goroutines'
      /\ \A v \in Worker \ {w} : pc'[v] = pc[v] /\ job'[v] = job[v]
  BY <1>1, <1>2 DEF Fail, Goto, Goroutines
<1>4. Grows  BY DEF Fail, Grows
<1>5. Sound'  BY <1>1, <1>4, SoundGrows DEF Fail, Sound, Tables
<1>6. Standing(w)'
  <2>1. pc'[w] = "idle"  BY <1>1, <1>3 DEF Goroutines
  <2> QED BY <2>1 DEF Standing, Progress, LogKnown
<1> QED BY <1>3, <1>4, <1>5, <1>6, OneGoroutine DEF Fail

LEMMA InsertParticipantInv ==
    ASSUME IInv, NEW w \in Worker, InsertParticipant(w)
    PROVE  IInv'
<1> USE DEF world
<1>1. TypeOK /\ Sound /\ Goroutines /\ Standing(w)  BY Parts DEF IInv
<1> PICK k : k = job[w]  OBVIOUS
<1> PICK b : b = k.battle  OBVIOUS
<1> PICK t : t = k.team  OBVIOUS
<1> PICK p : p = k.next  OBVIOUS
<1> PICK todo : todo = k.todo  OBVIOUS
<1> PICK rest : rest = todo \ {p}  OBVIOUS
<1> PICK list : list = Members(Listed(k, t))  OBVIOUS
<1>2. /\ b \in Battle /\ Event(b) \in events /\ b \in battles
      /\ ListStored(k) /\ pc[w] = "insert" /\ p \in todo
      /\ LogKnown(w) /\ Storable(b, p)
  BY <1>1 DEF InsertParticipant, Standing, Progress
<1>3. todo \subseteq Player /\ p \in Player
  BY <1>1, <1>2 DEF Goroutines, Job
<1>4. /\ t \in Team \cup {NoTeam}
      /\ t = NoTeam <=> b \notin TeamBattle
      /\ t # NoTeam => teams[b][t] # Absent
      /\ b \in TeamBattle => /\ t \in Team /\ todo \subseteq list /\ k.first \in Team
                             /\ k.first = 0 \/ b \in mixed
  BY <1>2 DEF ListStored, TeamStored, LogKnown, Team, NoTeam
<1>5. b \in TeamBattle \ mixed => t = SideOf(p)
  BY <1>2, <1>4, ListedSides, Sides
<1>6. ~Written(b, p) => /\ Played(b, p) \in Brawler \cup {NoBrawler}
                        /\ Played(b, p) \in Brawler => brawlers[Played(b, p)] # Absent
  BY <1>1, <1>2, <1>3, PlayedType DEF Storable, KeyHolds
<1>7. rows' = WithParticipant(b, p, t)
  BY DEF InsertParticipant
<1>8. Grows  BY <1>7 DEF InsertParticipant, Grows, WithParticipant
<1>9. Sound'
  <2>1. ~Written(b, p) =>
          [battle |-> b, player |-> p, team |-> t, brawler |-> Played(b, p)] \in Participant
    BY <1>2, <1>3, <1>4, <1>6 DEF Participant
  <2>2. rows' \subseteq Participant
    BY <1>1, <1>7, <2>1 DEF WithParticipant, Sound, Tables
  <2>3. Tables'  BY <1>1, <2>2 DEF InsertParticipant, Sound, Tables
  <2>4. teams' = teams /\ brawlers' = brawlers  BY DEF InsertParticipant
  <2> QED BY <1>1, <1>2, <1>3, <1>4, <1>5, <1>6, <1>7, <1>8, <2>3, <2>4, SoundWithParticipant
<1>10. Written(b, p)'
  <2>1. CASE Written(b, p)  BY <2>1, <1>8, WrittenGrows
  <2>2. CASE ~Written(b, p)
    <3> PICK r : r = [battle |-> b, player |-> p, team |-> t, brawler |-> Played(b, p)]
      OBVIOUS
    <3>1. r \in rows' /\ r.battle = b /\ r.player = p  BY <2>2, <1>7 DEF WithParticipant
    <3> QED BY <3>1 DEF Written
  <2> QED BY <2>1, <2>2
<1>11. \A q \in Player : q \notin rest /\ (q \in todo \/ Written(b, q)) => Written(b, q)'
  BY <1>8, <1>10, WrittenGrows
<1>12. UNCHANGED <<events, battles, teams, plays, mixed>>  BY DEF InsertParticipant
<1>13. \A v \in Worker \ {w} : pc'[v] = pc[v] /\ job'[v] = job[v]
  BY <1>1 DEF InsertParticipant, Goto, Goroutines
\* The team is stored up to the participants that are left.
<1>14. ASSUME b \in TeamBattle
       PROVE  TeamStored(b, t, list \ rest)'
  <2>1. teams'[b][t] # Absent /\ \A q \in list \ todo : Written(b, q)
    BY <1>2, <1>4, <1>12, <1>14 DEF ListStored, TeamStored
  <2>2. list \subseteq Player  BY <1>4, <1>14, ListedSides, Sides
  <2>3. \A q \in list \ rest : Written(b, q)'  BY <2>1, <2>2, <1>11
  <2> QED BY <2>1, <2>3 DEF TeamStored
<1>15. CASE rest # {}
  <2> PICK j : j = [k EXCEPT !.todo = rest, !.next = Absent]  OBVIOUS
  <2>1. j \in Job
    <3>1. k \in Job /\ rest \subseteq Player  BY <1>1, <1>3 DEF Goroutines
    <3> QED BY <3>1 DEF Job
  <2>2. job' = [job EXCEPT ![w] = j] /\ pc' = [pc EXCEPT ![w] = "player"]
    BY <1>15 DEF InsertParticipant, Goto
  <2>3. Goroutines' /\ pc'[w] = "player" /\ job'[w] = j
    BY <1>1, <2>1, <2>2 DEF Goroutines
  <2>4. /\ j.battle = b /\ j.team = t /\ j.by = k.by /\ j.todo = rest /\ j.first = k.first
        /\ Listed(j, t) = Listed(k, t)
    BY <1>1 DEF Goroutines, Job, Listed
  <2>5. ListStored(j)'
    <3>1. CASE b \in TeamBattle
      <4>1. t = 1 => FirstStored(k)  BY <1>2, <3>1 DEF ListStored
      <4>2. t = 1 => FirstStored(j)'
        BY <1>8, <2>4, <3>1, <4>1, ListGrows DEF FirstStored
      <4>3. rest \subseteq list  BY <1>4, <3>1
      <4> QED BY <1>4, <1>14, <2>4, <3>1, <4>2, <4>3 DEF ListStored
    <3>2. CASE b \notin TeamBattle
      BY <1>2, <1>11, <2>4, <3>2 DEF ListStored
    <3> QED BY <3>1, <3>2
  <2>6. LogKnown(w)'  BY <1>2, <1>12, <2>3, <2>4 DEF LogKnown
  <2>7. Standing(w)'
    BY <1>2, <1>12, <2>3, <2>4, <2>5, <2>6 DEF Standing, Progress
  <2> QED BY <1>8, <1>9, <1>13, <2>3, <2>7, OneGoroutine DEF InsertParticipant
<1>16. CASE rest = {} /\ t = 0
  <2> PICK j : j = [k EXCEPT !.todo = {}, !.next = Absent, !.team = 1]  OBVIOUS
  <2>1. j \in Job  BY <1>1 DEF Goroutines, Job, Team
  <2>2. job' = [job EXCEPT ![w] = j] /\ pc' = [pc EXCEPT ![w] = "team"]
    BY <1>16 DEF InsertParticipant, Goto
  <2>3. Goroutines' /\ pc'[w] = "team" /\ job'[w] = j
    BY <1>1, <2>1, <2>2 DEF Goroutines
  <2>4. j.battle = b /\ j.team = 1 /\ j.by = k.by /\ j.first = k.first
    BY <1>1 DEF Goroutines, Job
  <2>5. b \in TeamBattle  BY <1>4, <1>16 DEF NoTeam
  <2>6. FirstStored(j)'
    <3>1. list = Members(j.first) /\ list \ rest = list
      BY <1>4, <1>16, <2>4, <2>5, ListedSides
    <3>2. TeamStored(b, 0, list)'  BY <1>14, <1>16, <2>5, <3>1
    <3> QED BY <2>4, <3>1, <3>2 DEF FirstStored
  <2>7. LogKnown(w)'  BY <1>2, <1>12, <1>16, <2>3, <2>4 DEF LogKnown
  <2>8. Standing(w)'
    BY <1>2, <1>12, <2>3, <2>4, <2>5, <2>6, <2>7 DEF Standing, Progress, Team
  <2> QED BY <1>8, <1>9, <1>13, <2>3, <2>8, OneGoroutine DEF InsertParticipant
<1>17. CASE rest = {} /\ t # 0
  <2> PICK j : j = [NoJob EXCEPT !.battle = b]  OBVIOUS
  <2>1. j \in Job /\ j.battle = b  BY <1>2 DEF NoJob, Job
  <2>2. job' = [job EXCEPT ![w] = j] /\ pc' = [pc EXCEPT ![w] = "done"]
    BY <1>17 DEF InsertParticipant, Goto
  <2>3. Goroutines' /\ pc'[w] = "done" /\ job'[w] = j
    BY <1>1, <2>1, <2>2 DEF Goroutines
  <2>4. Stored(b)'
    <3>1. CASE b \in TeamBattle
      <4>1. t = 1  BY <1>4, <1>17, <3>1 DEF Team
      <4>2. FirstStored(k)'
        BY <1>2, <1>8, <3>1, <4>1, ListGrows DEF ListStored
      <4>3. teams'[b][0] # Absent /\ \A q \in Members(k.first) : Written(b, q)'
        BY <4>2 DEF FirstStored, TeamStored
      <4>4. list = Members(Other(k.first)) /\ list \ rest = list
        BY <1>4, <1>17, <3>1, <4>1, ListedSides
      <4>5. teams'[b][1] # Absent /\ \A q \in list : Written(b, q)'
        BY <1>14, <3>1, <4>1, <4>4 DEF TeamStored
      <4>6. \A q \in Player : Written(b, q)'
        BY <1>4, <3>1, <4>3, <4>4, <4>5, Sides
      <4> QED BY <1>2, <1>12, <4>3, <4>5, <4>6 DEF Stored, Team
    <3>2. CASE b \notin TeamBattle
      <4>1. \A q \in Player : Written(b, q)'  BY <1>2, <1>11, <1>17, <3>2 DEF ListStored
      <4> QED BY <1>2, <1>12, <3>2, <4>1 DEF Stored
    <3> QED BY <3>1, <3>2
  <2>5. Standing(w)'
    BY <1>2, <1>12, <2>1, <2>3, <2>4 DEF Standing, Progress, LogKnown
  <2> QED BY <1>8, <1>9, <1>13, <2>3, <2>5, OneGoroutine DEF InsertParticipant
<1> QED BY <1>15, <1>16, <1>17

-----------------------------------------------------------------------------
(* Repair and seed.                                                        *)

\* What is left to show of a step that moves no goroutine.
LEMMA NoGoroutine ==
    ASSUME IInv, Grows, Sound', Repairs', UNCHANGED <<pc, job>>
    PROVE  IInv'
<1>1. Goroutines /\ \A v \in Worker : Standing(v)  BY Parts
<1>2. \A v \in Worker : Standing(v)'  BY <1>1, StandingGrows
<1>3. Goroutines'  BY <1>1 DEF Goroutines
<1> QED BY <1>2, <1>3, Parts

LEMMA RepairSelectInv == ASSUME IInv, RepairSelect PROVE IInv'
<1> USE DEF world, store
<1>1. Sound  BY Parts
<1>2. Grows  BY DEF RepairSelect, Grows
<1>3. Sound'  BY <1>1, <1>2, SoundGrows DEF RepairSelect, Sound, Tables
<1>4. Repairs'
  <2>1. \A task \in repairing' : task \in Showdown \X Player /\ task[1] \in battles
    BY DEF RepairSelect
  <2> QED BY <2>1 DEF Repairs, RepairSelect
<1> QED BY <1>2, <1>3, <1>4, NoGoroutine DEF RepairSelect

LEMMA RepairParticipantInv ==
    ASSUME IInv, NEW b \in Showdown, NEW p \in Player, RepairParticipant(b, p)
    PROVE  IInv'
<1> USE DEF world
<1>1. TypeOK /\ Sound /\ Repairs  BY Parts DEF IInv
<1>2. b \in battles /\ b \in Battle /\ b \notin TeamBattle
  BY <1>1, Kinds DEF RepairParticipant, Repairs
<1>3. /\ Played(b, p) \in Brawler \cup {NoBrawler}
      /\ Played(b, p) \in Brawler => Played(b, p) = plays[b][p] /\ plays[b][p] # 0
  BY <1>1, <1>2, PlayedType, IdsDiffer
<1>4. /\ brawlers' \in [Brawler -> {Absent, "active", "retired"}]
      /\ \A y \in Brawler : brawlers[y] # Absent => brawlers'[y] # Absent
      /\ Played(b, p) \in Brawler => brawlers'[Played(b, p)] # Absent
  BY <1>1, <1>2, <1>3, EnsureKeeps DEF RepairParticipant, Sound
<1>5. rows' = WithParticipant(b, p, NoTeam)  BY DEF RepairParticipant
<1>6. Grows  BY <1>4, <1>5 DEF RepairParticipant, Grows, WithParticipant
<1>7. Sound'
  <2>1. [battle |-> b, player |-> p, team |-> NoTeam, brawler |-> Played(b, p)] \in Participant
    BY <1>2, <1>3 DEF Participant
  <2>2. rows' \subseteq Participant
    BY <1>1, <1>5, <2>1 DEF WithParticipant, Sound, Tables
  <2>3. Tables'  BY <1>1, <1>4, <2>2 DEF RepairParticipant, Sound, Tables
  <2>4. teams' = teams  BY DEF RepairParticipant
  <2> QED BY <1>1, <1>2, <1>3, <1>4, <1>5, <1>6, <2>3, <2>4, SoundWithParticipant
<1>8. Repairs'  BY <1>1, <1>6, RepairsGrow DEF RepairParticipant
<1> QED BY <1>6, <1>7, <1>8, NoGoroutine DEF RepairParticipant

LEMMA RepairSkipInv ==
    ASSUME IInv, NEW b \in Showdown, NEW p \in Player, RepairSkip(b, p)
    PROVE  IInv'
<1> USE DEF world
<1>1. TypeOK /\ Sound /\ Repairs  BY Parts DEF IInv
<1>2. b \in Battle  BY Kinds
<1>3. /\ brawlers' \in [Brawler -> {Absent, "active", "retired"}]
      /\ \A y \in Brawler : brawlers[y] # Absent => brawlers'[y] # Absent
  <2>1. CASE brawlers' = brawlers  BY <1>1, <2>1 DEF Sound, Tables
  <2>2. CASE brawlers' = WithBrawler(b, p)
    BY <1>1, <1>2, <2>2, EnsureKeeps DEF Sound
  <2> QED BY <2>1, <2>2 DEF RepairSkip
<1>4. Grows  BY <1>3 DEF RepairSkip, Grows
<1>5. Sound'  BY <1>1, <1>3, <1>4, SoundGrows DEF RepairSkip, Sound, Tables
<1>6. Repairs'  BY <1>1, <1>4, RepairsGrow DEF RepairSkip
<1> QED BY <1>4, <1>5, <1>6, NoGoroutine DEF RepairSkip

LEMMA UpsertBrawlerInv ==
    ASSUME IInv, NEW x \in Brawler, UpsertBrawler(x)
    PROVE  IInv'
<1> USE DEF world
<1>1. Sound /\ Repairs  BY Parts
<1>2. /\ brawlers' \in [Brawler -> {Absent, "active", "retired"}]
      /\ \A y \in Brawler : brawlers[y] # Absent => brawlers'[y] # Absent
  BY <1>1 DEF UpsertBrawler, Sound, Tables, Absent
<1>3. Grows  BY <1>2 DEF UpsertBrawler, Grows
<1>4. Sound'  BY <1>1, <1>2, <1>3, SoundGrows DEF UpsertBrawler, Sound, Tables
<1>5. Repairs'  BY <1>1, <1>3, RepairsGrow DEF UpsertBrawler
<1> QED BY <1>3, <1>4, <1>5, NoGoroutine DEF UpsertBrawler

-----------------------------------------------------------------------------
(* The theorems.                                                           *)

LEMMA InitInv == Init => IInv
<1> SUFFICES ASSUME Init  PROVE IInv
  OBVIOUS
<1>1. Tables
  BY LineupsAssumption DEF Init, Tables
<1>2. Goroutines
  <2>1. NoJob \in Job  BY DEF NoJob, Job
  <2> QED BY <2>1 DEF Init, Goroutines
<1>3. TeamResultsTrue  BY DEF Init, TeamResultsTrue
<1>4. RowsSound /\ Repairs  BY DEF Init, RowsSound, OneRowEach, Repairs
<1>5. \A w \in Worker : Standing(w)  BY DEF Init, Standing, Progress, LogKnown
<1> QED BY <1>1, <1>2, <1>3, <1>4, <1>5, Parts DEF Sound

\* One step keeps it.
LEMMA StepInv ==
    ASSUME IInv, [Next]_vars
    PROVE  IInv'
<1>1. ASSUME NEW w \in Worker, Step(w)  PROVE IInv'
  BY <1>1, StartBattleInv, UpsertEventInv, InsertBattleInv, InsertBattleTeamInv,
     EnsureBrawlerInv, InsertParticipantInv, FailInv DEF Step
<1>2. CASE RepairSelect  BY <1>2, RepairSelectInv
<1>3. ASSUME NEW b \in Showdown, NEW p \in Player,
             RepairParticipant(b, p) \/ RepairSkip(b, p)
      PROVE  IInv'
  BY <1>3, RepairParticipantInv, RepairSkipInv
<1>4. ASSUME NEW x \in Brawler, UpsertBrawler(x)  PROVE IInv'
  BY <1>4, UpsertBrawlerInv
<1>5. CASE UNCHANGED vars
  <2>1. Sound /\ Repairs  BY Parts
  <2>2. Grows  BY <1>5 DEF vars, world, store, Grows
  <2>3. Sound'  BY <1>5, <2>1, <2>2, SoundGrows DEF vars, world, store, Sound, Tables
  <2>4. Repairs'  BY <1>5, <2>1, <2>2, RepairsGrow DEF vars
  <2> QED BY <1>5, <2>2, <2>3, <2>4, NoGoroutine DEF vars
<1> QED BY <1>1, <1>2, <1>3, <1>4, <1>5 DEF Next

\* In every reachable state each goroutine has written what its place in
\* IngestBattle promises, and the tables agree with the battles.
THEOREM Inductive == Spec => []IInv
<1>1. IInv /\ [Next]_vars => IInv'  BY StepInv
<1> QED BY <1>1, InitInv, PTL DEF Spec

\* Whoever's logs a battle is stored from: where they agree on the order of the
\* teams, each has its real result, and a draw is a draw wherever.
THEOREM TeamResultsAreTrue == Spec => []TeamResultsTrue
<1>1. IInv => TeamResultsTrue  BY DEF IInv
<1> QED BY <1>1, Inductive, PTL

\* A participant row never lacks the rows it refers to and names the player's
\* brawler, or NULL, whoever writes it; and where the logs agree on the order of the
\* teams, the player's own team.
THEOREM ParticipantsAreSound == Spec => []ParticipantsSound
<1>1. IInv => ParticipantsSound  BY DEF IInv
<1> QED BY <1>1, Inductive, PTL

\* IngestBattle succeeds only when the whole battle is stored, also after any
\* number of failures that left it in parts.
THEOREM FinishedBattleIsStored == Spec => []FinishedIsStored
<1>1. IInv => FinishedIsStored  BY DEF IInv, Progress, FinishedIsStored
<1> QED BY <1>1, Inductive, PTL

\* No ingestion and no repair retires a brawler that the catalogue calls active.
THEOREM ActiveBrawlersStay == Spec => ActiveStays
<1> DEFINE Stays == \A x \in Brawler : brawlers[x] = "active" => brawlers'[x] = "active"
<1>1. IInv /\ [Next]_vars => [Stays]_vars
  <2> SUFFICES ASSUME IInv, Next, NEW x \in Brawler, brawlers[x] = "active"
               PROVE  brawlers'[x] = "active"
    BY DEF Stays
  <2>1. Tables  BY Parts DEF Sound
  <2>2. \A b, p : WithBrawler(b, p)[x] = "active"
    BY <2>1 DEF WithBrawler, EnsureRetiredBrawler, Tables, Absent
  <2>3. ASSUME NEW w \in Worker, Step(w)  PROVE brawlers'[x] = "active"
    <3>1. CASE EnsureBrawler(w)  BY <2>2, <3>1 DEF EnsureBrawler
    <3>2. CASE ~EnsureBrawler(w)
      BY <2>3, <3>2 DEF Step, StartBattle, UpsertEvent, InsertBattle, InsertBattleTeam,
         InsertParticipant, Fail, store
    <3> QED BY <3>1, <3>2
  <2>4. CASE RepairSelect  BY <2>4 DEF RepairSelect, store
  <2>5. ASSUME NEW b \in Showdown, NEW p \in Player,
               RepairParticipant(b, p) \/ RepairSkip(b, p)
        PROVE  brawlers'[x] = "active"
    BY <2>2, <2>5 DEF RepairParticipant, RepairSkip
  <2>6. ASSUME NEW y \in Brawler, UpsertBrawler(y)  PROVE brawlers'[x] = "active"
    BY <2>1, <2>6 DEF UpsertBrawler, Tables
  <2> QED BY <2>3, <2>4, <2>5, <2>6 DEF Next
<1> QED BY <1>1, Inductive, PTL DEF Spec, ActiveStays
-----------------------------------------------------------------------------
(* The tables as a ledger of facts.                                        *)

\* No statement of a writer takes anything back.
LEMMA StepGrows ==
    ASSUME IInv, [Next]_vars
    PROVE  Grows
<1>1. TypeOK /\ Sound /\ Goroutines /\ Tables  BY Parts DEF IInv, Sound
<1>2. \A b, p : \A y \in Brawler : brawlers[y] # Absent => WithBrawler(b, p)[y] # Absent
  BY <1>1 DEF WithBrawler, EnsureRetiredBrawler, Tables, Absent
<1>3. ASSUME NEW w \in Worker, Step(w)  PROVE Grows
  <2>1. CASE StartBattle(w) \/ UpsertEvent(w) \/ InsertBattle(w) \/ Fail(w)
    BY <2>1 DEF StartBattle, UpsertEvent, InsertBattle, Fail, Grows, store
  <2>2. CASE InsertBattleTeam(w)
    <3> PICK b : b = job[w].battle  OBVIOUS
    <3> PICK t : t = job[w].team  OBVIOUS
    <3>1. b \in TeamBattle /\ t \in Team /\ job[w].by \in Player /\ job[w].first \in Team
      BY <2>2, Parts DEF InsertBattleTeam, Standing, Progress, LogKnown
    <3>2. ResolveTeamResult(w) \in Result  BY <1>1, <3>1, ResolvedIsTrue
    <3> PICK result : result = ResolveTeamResult(w)  OBVIOUS
    <3>3. teams' = [teams EXCEPT ![b] = [teams[b] EXCEPT ![t] = result]]
      BY <2>2 DEF InsertBattleTeam
    <3>4. \A c \in TeamBattle, u \in Team :
            teams'[c][u] = IF c = b /\ u = t THEN result ELSE teams[c][u]
      BY <1>1, <3>1, <3>3 DEF Tables
    <3> QED BY <2>2, <3>2, <3>4, ResultsThere DEF InsertBattleTeam, Grows
  <2>3. CASE EnsureBrawler(w)
    <3>1. \A y \in Brawler : brawlers[y] # Absent => brawlers'[y] # Absent
      BY <1>2, <2>3 DEF EnsureBrawler
    <3> QED BY <2>3, <3>1 DEF EnsureBrawler, Grows
  <2>4. CASE InsertParticipant(w)
    BY <2>4 DEF InsertParticipant, WithParticipant, Grows
  <2> QED BY <1>3, <2>1, <2>2, <2>3, <2>4 DEF Step
<1>4. CASE RepairSelect  BY <1>4 DEF RepairSelect, Grows, store
<1>5. ASSUME NEW b \in Showdown, NEW p \in Player,
             RepairParticipant(b, p) \/ RepairSkip(b, p)
      PROVE  Grows
  <2>1. \A y \in Brawler : brawlers[y] # Absent => brawlers'[y] # Absent
    BY <1>2, <1>5 DEF RepairParticipant, RepairSkip
  <2> QED BY <1>5, <2>1 DEF RepairParticipant, RepairSkip, WithParticipant, Grows
<1>6. ASSUME NEW x \in Brawler, UpsertBrawler(x)  PROVE Grows
  BY <1>1, <1>6 DEF UpsertBrawler, Grows, Tables, Absent
<1>7. CASE UNCHANGED vars  BY <1>7 DEF vars, world, store, Grows
<1> QED BY <1>3, <1>4, <1>5, <1>6, <1>7 DEF Next

\* What a player is recorded with is what is true of its side.
LEMMA CreditedIsTrue ==
    Sound => \A r \in rows : r.team # NoTeam =>
                 Credited(r) = Ledger!Outcome(r.battle, SideOf(r.player))
<1> SUFFICES ASSUME Sound, NEW r \in rows, r.team # NoTeam
             PROVE  Credited(r) = Ledger!Outcome(r.battle, SideOf(r.player))
  OBVIOUS
<1> PICK b : b = r.battle  OBVIOUS
<1> PICK t : t = r.team  OBVIOUS
<1> PICK side : side = SideOf(r.player)  OBVIOUS
<1>1. /\ b \in TeamBattle /\ t \in Team /\ side \in Team
      /\ teams[b][t] # Absent /\ (b \notin mixed => t = side)
  <2>1. r \in Participant /\ RowSound(r)  BY DEF Sound, Tables, RowsSound
  <2>2. r.player \in Player /\ r.team \in Team \cup {NoTeam}  BY <2>1 DEF Participant
  <2> QED BY <2>1, <2>2, Sides DEF RowSound
<1>2. /\ b \notin mixed => teams[b][t] = TrueResult(b, t)
      /\ teams[b][t] = "draw" <=> winner[b] = 2
  BY <1>1 DEF Sound, TeamResultsTrue
<1>3. winner[b] \in {0, 1, 2}  BY <1>1 DEF Sound, Tables
<1>4. Credited(r) = IF b \in mixed /\ teams[b][t] # "draw" THEN "decided" ELSE teams[b][t]
  BY DEF Credited
<1>5. Ledger!Outcome(b, side) = IF winner[b] \notin {0, 1} THEN "draw"
                                ELSE IF b \in mixed THEN "decided"
                                ELSE IF winner[b] = side THEN "victory" ELSE "defeat"
  BY DEF Ledger!Outcome
<1>6. TrueResult(b, t) = IF winner[b] = 2 THEN "draw"
                         ELSE IF winner[b] = t THEN "victory" ELSE "defeat"
  BY DEF TrueResult
<1> QED BY <1>1, <1>2, <1>3, <1>4, <1>5, <1>6

\* The brawler of a row is what the ledger would say.
LEMMA RowSays ==
    ASSUME Sound, NEW r \in rows
    PROVE  LET b == r.battle
               p == r.player
           IN /\ b \in Battle /\ p \in Player
              /\ r.brawler = IF plays[b][p] = 0 THEN NoBrawler ELSE plays[b][p]
              /\ r.team = NoTeam <=> b \notin TeamBattle
<1>1. r \in Participant /\ RowSound(r)  BY DEF Sound, Tables, RowsSound
<1>2. /\ r.battle \in Battle /\ r.player \in Player
      /\ r.brawler \in Brawler \cup {NoBrawler}
  BY <1>1 DEF Participant
<1>3. r.brawler # 0  BY <1>2, IdsDiffer
<1> QED BY <1>1, <1>2, <1>3 DEF RowSound, Played

\* What is recorded is true.
LEMMA RecordedIsTrue ==
    Sound => \A fact \in Recorded : /\ fact.battle \in Ledger!Battle
                                    /\ fact \in Ledger!FactsOf(fact.battle)
<1> SUFFICES ASSUME Sound, NEW fact \in Recorded
             PROVE  fact.battle \in Battle /\ fact \in Ledger!FactsOf(fact.battle)
  BY DEF Ledger!Battle, Battle
<1>1. ASSUME NEW r \in rows,
             fact = [battle |-> r.battle, player |-> r.player, brawler |-> r.brawler]
      PROVE  fact.battle \in Battle /\ fact \in Ledger!FactsOf(fact.battle)
  <2> PICK b : b = r.battle  OBVIOUS
  <2> PICK p : p = r.player  OBVIOUS
  <2> PICK x : x = IF plays[b][p] = 0 THEN NoBrawler ELSE plays[b][p]  OBVIOUS
  <2>1. b \in Battle /\ p \in Home \cup Away /\ r.brawler = x
    BY <1>1, RowSays DEF Player
  <2>2. fact = Ledger!Plays(b, p, x) /\ fact.battle = b
    BY <1>1, <2>1 DEF Ledger!Plays
  <2>3. fact \in Ledger!Took(b)  BY <2>1, <2>2 DEF Ledger!Took
  <2> QED BY <2>1, <2>2, <2>3 DEF Ledger!FactsOf
<1>2. ASSUME NEW r \in rows, r.team # NoTeam,
             fact = [battle |-> r.battle, player |-> r.player, result |-> Credited(r)]
      PROVE  fact.battle \in Battle /\ fact \in Ledger!FactsOf(fact.battle)
  <2> PICK b : b = r.battle  OBVIOUS
  <2> PICK p : p = r.player  OBVIOUS
  <2>1. b \in Battle /\ b \in TeamBattle /\ p \in Player
    BY <1>2, RowSays
  <2>2. fact = Ledger!Scores(b, p, Ledger!Outcome(b, SideOf(p))) /\ fact.battle = b
    BY <1>2, CreditedIsTrue DEF Ledger!Scores
  <2>3. (p \in Home /\ SideOf(p) = 0) \/ (p \in Away /\ SideOf(p) = 1)
    BY <2>1 DEF Player, SideOf
  <2>4. fact \in {Ledger!Scores(b, q, Ledger!Outcome(b, 0)) : q \in Home}
                 \cup {Ledger!Scores(b, q, Ledger!Outcome(b, 1)) : q \in Away}
    BY <2>2, <2>3
  <2> QED BY <2>1, <2>2, <2>4 DEF Ledger!FactsOf
<1> QED BY <1>1, <1>2 DEF Recorded

\* What is stored whole is recorded whole.
WholeIsRecorded ==
    \A b \in Battle : Stored(b) => Ledger!FactsOf(b) \subseteq Recorded

LEMMA StoredIsRecorded == Sound => WholeIsRecorded
<1> SUFFICES ASSUME Sound, NEW b \in Battle, Stored(b), NEW fact \in Ledger!FactsOf(b)
             PROVE  fact \in Recorded
  BY DEF WholeIsRecorded
<1>1. ASSUME NEW p \in Player
      PROVE  \E r \in rows : r.battle = b /\ r.player = p
  BY DEF Stored, Written
<1>2. ASSUME fact \in Ledger!Took(b)  PROVE fact \in Recorded
  <2>1. PICK p \in Player :
          fact = Ledger!Plays(b, p, IF plays[b][p] = 0 THEN NoBrawler ELSE plays[b][p])
    BY <1>2 DEF Ledger!Took, Player
  <2>2. PICK r \in rows : r.battle = b /\ r.player = p  BY <1>1
  <2>3. fact = [battle |-> r.battle, player |-> r.player, brawler |-> r.brawler]
    BY <2>1, <2>2, RowSays DEF Ledger!Plays
  <2> QED BY <2>3 DEF Recorded
<1>3. ASSUME b \in TeamBattle, NEW p \in Player,
             fact = Ledger!Scores(b, p, Ledger!Outcome(b, SideOf(p)))
      PROVE  fact \in Recorded
  <2>1. PICK r \in rows : r.battle = b /\ r.player = p  BY <1>1
  <2>2. r.team # NoTeam  BY <1>3, <2>1, RowSays
  <2>3. fact = [battle |-> r.battle, player |-> r.player, result |-> Credited(r)]
    BY <1>3, <2>1, <2>2, CreditedIsTrue DEF Ledger!Scores
  <2> QED BY <2>2, <2>3 DEF Recorded
<1>4. \/ fact \in Ledger!Took(b)
      \/ b \in TeamBattle /\ \E p \in Home : fact = Ledger!Scores(b, p, Ledger!Outcome(b, 0))
      \/ b \in TeamBattle /\ \E p \in Away : fact = Ledger!Scores(b, p, Ledger!Outcome(b, 1))
  BY DEF Ledger!FactsOf
<1>5. /\ \A p \in Home : p \in Player /\ SideOf(p) = 0
      /\ \A p \in Away : p \in Player /\ SideOf(p) = 1
  BY SidesDiffer DEF Player, SideOf
<1> QED BY <1>2, <1>3, <1>4, <1>5

\* A step of the store adds facts, and true ones.
LEMMA StepAdds ==
    ASSUME IInv, [Next]_vars
    PROVE  Ledger!Add
<1>1. Sound /\ Sound' /\ Grows  BY StepInv, StepGrows, Parts
<1>2. (Sound => \A fact \in Recorded : /\ fact.battle \in Ledger!Battle
                                       /\ fact \in Ledger!FactsOf(fact.battle))'
  BY RecordedIsTrue, PTL
<1>3. winner' = winner /\ plays' = plays /\ mixed' = mixed  BY <1>1 DEF Grows, world
<1>4. /\ \A b : Ledger!FactsOf(b)' = Ledger!FactsOf(b)
      /\ \A b, side : Ledger!Outcome(b, side)' = Ledger!Outcome(b, side)
  BY <1>3 DEF Ledger!FactsOf, Ledger!Took, Ledger!Outcome
<1>5. \A fact \in Recorded' : /\ fact.battle \in Ledger!Battle
                              /\ fact \in Ledger!FactsOf(fact.battle)
  BY <1>1, <1>2, <1>4
<1>6. \A r \in rows : r.team # NoTeam => Credited(r)' = Credited(r)
  <2>1. (Sound => \A r \in rows : r.team # NoTeam =>
                      Credited(r) = Ledger!Outcome(r.battle, SideOf(r.player)))'
    BY CreditedIsTrue, PTL
  <2>2. rows \subseteq rows'  BY <1>1 DEF Grows
  <2> QED BY <1>1, <1>4, <2>1, <2>2, CreditedIsTrue
<1>7. Recorded \subseteq Recorded'
  <2>1. rows \subseteq rows'  BY <1>1 DEF Grows
  <2>2. ASSUME NEW fact \in Recorded  PROVE fact \in Recorded'
    <3>1. CASE \E r \in rows :
                 fact = [battle |-> r.battle, player |-> r.player, brawler |-> r.brawler]
      BY <2>1, <3>1 DEF Recorded
    <3>2. CASE \E r \in rows : /\ r.team # NoTeam
                               /\ fact = [battle |-> r.battle, player |-> r.player,
                                          result |-> Credited(r)]
      <4>1. PICK r \in rows' : /\ r.team # NoTeam
                               /\ fact = [battle |-> r.battle, player |-> r.player,
                                          result |-> Credited(r)']
        BY <1>6, <2>1, <3>2
      <4> QED BY <4>1 DEF Recorded
    <3> QED BY <2>2, <3>1, <3>2 DEF Recorded
  <2> QED BY <2>2
<1> QED BY <1>3, <1>5, <1>7 DEF Ledger!Add, Ledger!happened

\* A goroutine that neither has reported nor reports now.
LEMMA NotReporting ==
    ASSUME Goroutines, NEW w \in Worker, pc[w] # "done", pc'[w] # "done",
           \A v \in Worker \ {w} : pc'[v] = pc[v] /\ job'[v] = job[v]
    PROVE  Finished' = Finished
BY DEF Finished

\* Each step of the store is one of the ledger's, or changes nothing there.
LEMMA LedgerSim ==
    ASSUME IInv, [Next]_vars
    PROVE  [Ledger!Next]_(Ledger!vars)
<1>1. Ledger!Add  BY StepAdds
<1>2. Goroutines /\ IInv' /\ Sound'  BY StepInv, Parts
<1>3. ASSUME Finished' = Finished  PROVE Ledger!Next
  BY <1>1, <1>3 DEF Ledger!Record, Ledger!Next
<1>4. (Sound => WholeIsRecorded)'
  BY StoredIsRecorded, PTL
<1>5. ASSUME NEW w \in Worker, Step(w)  PROVE Ledger!Next
  <2>1. \A v \in Worker \ {w} : pc'[v] = pc[v] /\ job'[v] = job[v]
    BY <1>2, <1>5 DEF Step, StartBattle, UpsertEvent, InsertBattle, InsertBattleTeam,
       EnsureBrawler, InsertParticipant, Fail, Goto, Goroutines
  <2>2. ASSUME NEW next, Goto(w, next)  PROVE pc'[w] = next
    BY <1>2, <2>2 DEF Goto, Goroutines
  <2>3. CASE StartBattle(w)
    <3>1. Recorded' = Recorded /\ winner' = winner /\ plays' = plays /\ mixed' = mixed
      BY <2>3 DEF StartBattle, store, world, Recorded, Credited
    <3>2. pc'[w] = "event"  BY <2>2, <2>3 DEF StartBattle
    <3>3. Finished' = [Finished EXCEPT ![w] = Absent]
      BY <2>1, <3>2 DEF Finished
    <3>4. Ledger!Begin(w)  BY <3>1, <3>3 DEF Ledger!Begin, Ledger!happened
    <3> QED BY <3>4 DEF Ledger!Next
  <2>4. CASE pc[w] # "done" /\ pc'[w] = "done"
    <3>1. Standing(w)'  BY <1>2, Parts
    <3> PICK b : b = job'[w].battle  OBVIOUS
    <3>2. b \in Battle /\ Stored(b)'  BY <2>4, <3>1 DEF Standing, Progress
    <3>3. Ledger!FactsOf(b)' \subseteq Recorded'  BY <1>2, <1>4, <3>2 DEF WholeIsRecorded
    <3>4. Ledger!FactsOf(b)' = Ledger!FactsOf(b)
      BY <1>1 DEF Ledger!Add, Ledger!happened, Ledger!FactsOf, Ledger!Took, Ledger!Outcome
    <3>5. Finished' = [Finished EXCEPT ![w] = b]
      BY <2>1, <2>4 DEF Finished
    <3>6. Ledger!Report(w, b)  BY <1>1, <3>3, <3>4, <3>5 DEF Ledger!Report
    <3> QED BY <3>2, <3>6 DEF Ledger!Next, Ledger!Battle, Battle
  <2>5. CASE ~StartBattle(w) /\ pc'[w] # "done"
    <3>1. pc[w] # "done"
      BY <1>5, <2>5 DEF Step, UpsertEvent, InsertBattle, InsertBattleTeam, EnsureBrawler,
         InsertParticipant, Fail
    <3> QED BY <1>2, <1>3, <2>1, <2>5, <3>1, NotReporting
  <2>6. ~StartBattle(w) => pc[w] # "done"
    BY <1>5 DEF Step, UpsertEvent, InsertBattle, InsertBattleTeam, EnsureBrawler,
       InsertParticipant, Fail
  <2> QED BY <2>3, <2>4, <2>5, <2>6
<1>6. CASE RepairSelect \/ (\E b \in Showdown, p \in Player : RepairParticipant(b, p) \/ RepairSkip(b, p))
              \/ (\E x \in Brawler : UpsertBrawler(x)) \/ UNCHANGED vars
  <2>1. UNCHANGED <<pc, job>>
    BY <1>6 DEF RepairSelect, RepairParticipant, RepairSkip, UpsertBrawler, vars
  <2> QED BY <1>3, <2>1 DEF Finished
<1> QED BY <1>5, <1>6 DEF Next

\* The ingestion, with its single statements, failures and repairs, implements a
\* ledger of true facts from which nothing is lost (battle_ingestor.go
\* IngestBattle, main.go runRepairShowdown).
THEOREM ImplementsLedger == Spec => IsLedger
<1>1. Init => Ledger!Init
  <2> SUFFICES ASSUME Init PROVE Ledger!Init
    OBVIOUS
  <2>1. rows = {}  BY DEF Init
  <2>2. Recorded = {}  BY <2>1 DEF Recorded
  <2>3. Finished = [w \in Worker |-> Absent]  BY DEF Init, Finished
  <2> QED BY <2>2, <2>3 DEF Ledger!Init
<1>2. IInv /\ [Next]_vars => [Ledger!Next]_(Ledger!vars)  BY LedgerSim
<1> QED BY <1>1, <1>2, Inductive, PTL DEF Spec, IsLedger, Ledger!Spec
=============================================================================
