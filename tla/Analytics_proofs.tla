--------------------------- MODULE Analytics_proofs ---------------------------
(***************************************************************************)
(* Proofs about Analytics: what the API reports while battles are written, *)
(* for any goroutines, battles, players and requests.                      *)
(***************************************************************************)
EXTENDS Analytics, BattleStore_proofs, FiniteSetTheorems, WellFoundedInduction

-----------------------------------------------------------------------------
(* The queries.                                                            *)

\* The defaults make parameters of every request that is answered.
LEMMA ParamsType ==
    ASSUME NEW q \in Request, Answerable(q)
    PROVE  Params(q) \in WinRateParams
<1>1. q.mode \in {"teams"} /\ q.type \in BattleTypeFilter \cup {Unset}
  BY RequestAssumption DEF Answerable, Mode, ineligibleModes
<1>2. q \in [mode : {"teams"}, type : BattleTypeFilter \cup {Unset}, map : MapName \cup {Unset},
             bucket : Nat \cup {Unset}, min : Nat \cup {Unset}]
  BY <1>1, RequestAssumption
<1> QED BY <1>2, MinAssumption DEF Params, WinRateParams, BattleTypeFilter

\* The slot that a participant row stands for.
Slot(r) == [battle |-> r.battle, player |-> r.player, brawler |-> r.brawler]

LEMMA SlotsFinite ==
    ASSUME NEW q
    PROVE  /\ IsFiniteSet(TrueSlots(q))
           /\ \A s \in TrueSlots(q) : s.battle \in TeamBattle
<1> DEFINE slot(z) == [battle |-> z[1], player |-> z[2], brawler |-> plays[z[1]][z[2]]]
           pairs == TeamBattle \X Player
           all == {slot(z) : z \in pairs}
           f == [z \in pairs |-> slot(z)]
<1>1. IsFiniteSet(pairs)  BY FS_Product, WorldAssumption
<1>2. f \in Surjection(pairs, all)  BY DEF Surjection
<1>3. IsFiniteSet(all)
  <2> HIDE DEF all, f, pairs
  <2> QED BY <1>1, <1>2, FS_Surjection
<1>4. TrueSlots(q) \subseteq all
  <2> SUFFICES ASSUME NEW s \in TrueSlots(q)  PROVE s \in all
    OBVIOUS
  <2> PICK b \in TeamBattle, p \in Player :
        s = [battle |-> b, player |-> p, brawler |-> plays[b][p]]
    BY DEF TrueSlots
  <2>1. <<b, p>> \in pairs /\ s = slot(<<b, p>>)  OBVIOUS
  <2> QED BY <2>1
<1>5. \A s \in TrueSlots(q) : s.battle \in TeamBattle  BY DEF TrueSlots
<1> HIDE DEF all
<1> QED BY <1>3, <1>4, <1>5, FS_Subset

\* No two rows stand for one slot, so that rows are counted by their slots.
LEMMA SlotCount ==
    ASSUME Sound, NEW S \in SUBSET rows, NEW T, IsFiniteSet(T), \A r \in S : Slot(r) \in T
    PROVE  /\ IsFiniteSet(S) /\ Cardinality(S) \in Nat /\ Cardinality(T) \in Nat
           /\ Cardinality(S) <= Cardinality(T)
           /\ (\A s \in T : \E r \in S : Slot(r) = s) => Cardinality(S) = Cardinality(T)
<1> DEFINE f == [r \in S |-> Slot(r)]
<1>1. \A r, s \in S : Slot(r) = Slot(s) => r = s
  BY DEF Sound, RowsSound, OneRowEach, Slot
<1>2. f \in Injection(S, T)  BY <1>1 DEF Injection, IsInjective
<1>3. (\A s \in T : \E r \in S : Slot(r) = s) => f \in Surjection(S, T)
  BY DEF Surjection
<1> HIDE DEF f
<1>4. /\ IsFiniteSet(S) /\ Cardinality(S) <= Cardinality(T)
      /\ Cardinality(S) = Cardinality(T) <=> f \in Surjection(S, T)
  BY <1>2, FS_Injection
<1> QED BY <1>3, <1>4, FS_CardinalityType

\* Every eligible row stands for a slot that a player really filled, and credits it
\* with a result that it may be credited with.
LEMMA EligibleTrue ==
    ASSUME Sound, NEW q \in WinRateParams
    PROVE  \A r \in Eligible(q) :
             /\ r \in rows /\ r \in Participant /\ RowSound(r)
             /\ r.battle \in TeamBattle /\ r.team \in Team /\ r.brawler \in Brawler
             /\ Slot(r) \in TrueSlots(q)
             /\ ResultOf(r) \in Result /\ ResultOf(r) \in Credits(Slot(r))
<1> TAKE r \in Eligible(q)
<1>1. /\ r \in rows /\ r \in Participant /\ RowSound(r)
      /\ r.brawler # NoBrawler /\ r.team # NoTeam
      /\ ResultOf(r) \in Result /\ BattleTypeMatches(q.type, r.battle)
      /\ q.map # Unset => MapOf[r.battle] = q.map
      /\ q.bucket # Unset => BucketOf[r.player] = q.bucket
  BY DEF Eligible, Sound, Tables, RowsSound
<1> PICK b : b = r.battle  OBVIOUS
<1> PICK p : p = r.player  OBVIOUS
<1>2. /\ b \in TeamBattle /\ p \in Player /\ r.team \in Team /\ r.brawler \in Brawler
      /\ b \notin mixed => r.team = SideOf(p)
  BY <1>1 DEF RowSound, Participant
<1>3. r.brawler = plays[b][p] /\ r.brawler # 0
  BY <1>1, <1>2, IdsDiffer DEF RowSound, Played
<1>4. /\ q.mode = "teams"
      /\ q.type = "competitive" => TypeOf[b] \in {"ranked", "soloRanked"}
      /\ q.type \in {"ranked", "soloRanked"} => TypeOf[b] = q.type
  BY <1>1 DEF BattleTypeMatches, WinRateParams
<1> PICK s : s = [battle |-> b, player |-> p, brawler |-> plays[b][p]]  OBVIOUS
<1>5. s = Slot(r)  BY <1>3 DEF Slot
<1>6. s \in TrueSlots(q)  BY <1>1, <1>2, <1>3, <1>4 DEF TrueSlots
<1>7. /\ b \notin mixed => ResultOf(r) = TrueResult(b, SideOf(p))
      /\ ResultOf(r) = "draw" <=> winner[b] = 2
  <2>1. teams[b][r.team] # Absent  BY <1>1, ResultsThere DEF ResultOf
  <2> QED BY <1>2, <2>1 DEF Sound, TeamResultsTrue, ResultOf
<1>8. ResultOf(r) \in Credits(s)
  <2>1. s.battle = b /\ s.player = p  OBVIOUS
  <2>2. CASE b \in mixed /\ winner[b] # 2
    BY <1>1, <1>7, <2>1, <2>2 DEF Credits, Result
  <2>3. CASE winner[b] = 2
    BY <1>7, <2>1, <2>3 DEF Credits, TrueResult
  <2>4. CASE b \notin mixed
    BY <1>7, <2>1, <2>4 DEF Credits
  <2> QED BY <2>2, <2>3, <2>4
<1> QED BY <1>1, <1>2, <1>5, <1>6, <1>8

LEMMA EligibleFinite ==
    /\ Sound => \A q \in WinRateParams : IsFiniteSet(Eligible(q))
    /\ Sound' => \A q \in WinRateParams : IsFiniteSet(Eligible(q)')
<1>1. Sound => \A q \in WinRateParams : IsFiniteSet(Eligible(q))
  <2> SUFFICES ASSUME Sound, NEW q \in WinRateParams  PROVE IsFiniteSet(Eligible(q))
    OBVIOUS
  <2>1. Eligible(q) \in SUBSET rows  BY DEF Eligible
  <2> QED BY <2>1, EligibleTrue, SlotsFinite, SlotCount
<1>2. (Sound => \A q \in WinRateParams : IsFiniteSet(Eligible(q)))'
  BY <1>1, PTL
<1>3. WinRateParams' = WinRateParams  BY DEF WinRateParams, MapName
<1> QED BY <1>1, <1>2, <1>3

\* What is counted is counted by a natural number, and never above the truth.
LEMMA CountsBounded ==
    ASSUME Sound, NEW q \in WinRateParams
    PROVE  /\ Cardinality(Eligible(q)) \in Nat
           /\ Cardinality(Eligible(q)) <= Cardinality(TrueSlots(q))
           /\ Cardinality(BattlesIn(Eligible(q))) \in Nat
           /\ Cardinality(BattlesIn(Eligible(q))) <= Cardinality(BattlesIn(TrueSlots(q)))
           /\ \A x \in Brawler :
                /\ Cardinality(EligibleOf(q, x)) <= Cardinality(TrueSlotsOf(q, x))
                /\ Cardinality(BattlesIn(EligibleOf(q, x))) \in Nat
                /\ Cardinality(BattlesIn(EligibleOf(q, x))) <= Cardinality(BattlesIn(TrueSlotsOf(q, x)))
                /\ \A result \in Result :
                    /\ CountResult(q, x, result) \in Nat
                    /\ MayCount(q, x, result) \in Nat
                    /\ CountResult(q, x, result) <= MayCount(q, x, result)
<1>1. IsFiniteSet(TrueSlots(q)) /\ \A s \in TrueSlots(q) : s.battle \in TeamBattle
  BY SlotsFinite
<1>2. \A r \in Eligible(q) : /\ r \in rows /\ Slot(r) \in TrueSlots(q)
                             /\ ResultOf(r) \in Credits(Slot(r))
  BY EligibleTrue
<1>3. ASSUME NEW S \in SUBSET Eligible(q), NEW T \in SUBSET TrueSlots(q),
             \A r \in S : Slot(r) \in T
      PROVE  /\ Cardinality(S) \in Nat /\ Cardinality(T) \in Nat
             /\ Cardinality(S) <= Cardinality(T)
             /\ Cardinality(BattlesIn(S)) \in Nat
             /\ Cardinality(BattlesIn(S)) <= Cardinality(BattlesIn(T))
  <2>1. S \in SUBSET rows /\ IsFiniteSet(T)  BY <1>1, <1>2, <1>3, FS_Subset
  <2>2. BattlesIn(S) \subseteq BattlesIn(T)
    <3>1. \A r \in S : Slot(r) \in T /\ r.battle = Slot(r).battle  BY <1>3 DEF Slot
    <3> QED BY <3>1 DEF BattlesIn
  <2>3. BattlesIn(T) \subseteq TeamBattle  BY <1>1 DEF BattlesIn
  <2>4. IsFiniteSet(BattlesIn(T))  BY <2>3, FS_Subset, WorldAssumption
  <2>5. Cardinality(BattlesIn(S)) \in Nat /\ Cardinality(BattlesIn(S)) <= Cardinality(BattlesIn(T))
    BY <2>2, <2>4, FS_Subset, FS_CardinalityType
  <2> QED BY <1>3, <2>1, <2>5, SlotCount
<1>4. ASSUME NEW x \in Brawler
      PROVE  /\ EligibleOf(q, x) \in SUBSET Eligible(q)
             /\ TrueSlotsOf(q, x) \in SUBSET TrueSlots(q)
             /\ \A r \in EligibleOf(q, x) : Slot(r) \in TrueSlotsOf(q, x)
  BY <1>2 DEF EligibleOf, TrueSlotsOf, Slot
<1>5. ASSUME NEW x \in Brawler, NEW result \in Result
      PROVE  /\ CountResult(q, x, result) \in Nat /\ MayCount(q, x, result) \in Nat
             /\ CountResult(q, x, result) <= MayCount(q, x, result)
  <2> DEFINE S == {r \in EligibleOf(q, x) : ResultOf(r) = result}
             T == {s \in TrueSlotsOf(q, x) : result \in Credits(s)}
  <2>1. S \in SUBSET Eligible(q) /\ T \in SUBSET TrueSlots(q)  BY <1>4
  <2>2. \A r \in S : Slot(r) \in T
    <3> TAKE r \in S
    <3>1. r \in Eligible(q) /\ Slot(r) \in TrueSlotsOf(q, x)  BY <1>4
    <3> QED BY <1>2, <3>1
  <2>3. Cardinality(S) \in Nat /\ Cardinality(T) \in Nat /\ Cardinality(S) <= Cardinality(T)
    <3> HIDE DEF S, T
    <3> QED BY <1>3, <2>1, <2>2
  <2> QED BY <2>3 DEF CountResult, MayCount
<1> QED BY <1>2, <1>3, <1>4, <1>5

\* No row that a request counts is lost, as battles are added.
LEMMA EligibleGrows ==
    ASSUME Sound, Sound', Grows, NEW q \in WinRateParams
    PROVE  Eligible(q) \subseteq Eligible(q)'
<1> SUFFICES ASSUME NEW r \in Eligible(q)  PROVE r \in Eligible(q)'
  OBVIOUS
<1>1. r \in rows /\ ResultOf(r) \in Result  BY EligibleTrue
<1>2. r.battle \in TeamBattle /\ r.team \in Team  BY EligibleTrue
<1>3. teams'[r.battle][r.team] # Absent
  BY <1>1, <1>2, ResultsThere DEF ResultOf, Grows
<1>4. teams'[r.battle][r.team] \in Result  BY <1>2, <1>3 DEF Sound, Tables
<1> QED BY <1>1, <1>4 DEF Eligible, ResultOf, Grows

\* A brawler that qualifies goes on to, as battles are added.
LEMMA QualifyingGrows ==
    ASSUME Sound, Sound', Grows, NEW q \in WinRateParams
    PROVE  /\ Qualifying(q) \subseteq Qualifying(q)'
           /\ Cardinality(Qualifying(q)) \in Nat /\ Cardinality(Qualifying(q)') \in Nat
           /\ Cardinality(Qualifying(q)) <= Cardinality(Qualifying(q)')
<1>1. Eligible(q) \subseteq Eligible(q)'  BY EligibleGrows
<1>2. ASSUME NEW x \in Qualifying(q)  PROVE x \in Qualifying(q)'
  <2> DEFINE S == BattlesIn(EligibleOf(q, x))
             T == BattlesIn({r \in Eligible(q)' : r.brawler = x})
  <2>1. S \subseteq T  BY <1>1 DEF EligibleOf, BattlesIn
  <2>2. T \subseteq TeamBattle
    <3>1. \A r \in Eligible(q)' : r \in rows' /\ r.team # NoTeam  BY DEF Eligible
    <3>2. \A r \in Eligible(q)' : r.battle \in TeamBattle
      BY <3>1 DEF Sound, RowsSound, RowSound
    <3> QED BY <3>2 DEF BattlesIn
  <2>3. IsFiniteSet(T)
    <3> HIDE DEF T
    <3> QED BY <2>2, WorldAssumption, FS_Subset
  <2>4. Cardinality(S) \in Nat /\ Cardinality(T) \in Nat /\ Cardinality(S) <= Cardinality(T)
    <3> HIDE DEF S, T
    <3> QED BY <2>1, <2>3, FS_Subset, FS_CardinalityType
  <2>5. x \in Brawler /\ brawlers'[x] # Absent /\ Cardinality(S) >= q.min
    BY <1>2 DEF Qualifying, Grows
  <2>6. q.min \in Nat  BY DEF WinRateParams
  <2>7. Cardinality(T) >= q.min
    <3> HIDE DEF S, T
    <3> QED BY <2>4, <2>5, <2>6
  <2>8. T = BattlesIn(EligibleOf(q, x))'  BY DEF EligibleOf, BattlesIn
  <2>9. Cardinality(BattlesIn(EligibleOf(q, x))') >= q.min
    <3> HIDE DEF T
    <3> QED BY <2>7, <2>8
  <2> QED BY <2>5, <2>9 DEF Qualifying
<1>3. Qualifying(q) \subseteq Brawler /\ Qualifying(q)' \subseteq Brawler
  BY DEF Qualifying
<1>4. IsFiniteSet(Qualifying(q)) /\ IsFiniteSet(Qualifying(q)')
  BY <1>3, FS_Subset, WorldAssumption
<1>5. Qualifying(q) \subseteq Qualifying(q)'  BY <1>2
<1> QED BY <1>4, <1>5, FS_Subset, FS_CardinalityType

\* The brawlers that a map announces are those a win-rate query with defaults has.
LEMMA MapAnnounces ==
    ASSUME Sound, NEW q \in WinRateParams, NEW m \in MapName,
           NEW r, r = [q EXCEPT !.map = m, !.bucket = Unset, !.min = DefaultMin]
    PROVE  /\ Cardinality(MapQualifying(q, m)) \in Nat
           /\ Cardinality(Qualifying(r)) \in Nat
           /\ Cardinality(MapBattles(q, m)) \in Nat
           /\ Cardinality(MapQualifying(q, m)) <= Cardinality(Qualifying(r))
           /\ Cardinality(MapQualifying(q, m)) > 0 => Cardinality(MapBattles(q, m)) >= DefaultMin
<1> PICK s : s = [q EXCEPT !.map = m, !.bucket = Unset]  OBVIOUS
<1>1. /\ r.mode = q.mode /\ r.type = q.type /\ r.map = m /\ r.bucket = Unset /\ r.min = DefaultMin
      /\ s.mode = q.mode /\ s.type = q.type /\ s.map = m /\ s.bucket = Unset
  BY DEF WinRateParams
<1>2. Eligible(r) = Eligible(s)  BY <1>1 DEF Eligible
<1>3. m # Unset  BY RequestAssumption
<1>4. MapBattles(q, m) \subseteq TeamBattle  BY DEF MapBattles
<1>5. IsFiniteSet(MapBattles(q, m))  BY <1>4, FS_Subset, WorldAssumption
<1>6. ASSUME NEW x \in Brawler
      PROVE  /\ BattlesIn(EligibleOf(s, x)) \subseteq MapBattles(q, m)
             /\ Cardinality(BattlesIn(EligibleOf(s, x))) \in Nat
             /\ Cardinality(BattlesIn(EligibleOf(s, x))) <= Cardinality(MapBattles(q, m))
  <2>1. ASSUME NEW e \in EligibleOf(s, x)  PROVE e.battle \in MapBattles(q, m)
    <3>1. /\ e \in rows /\ e \in Participant /\ e.team # NoTeam /\ ResultOf(e) \in Result
          /\ Event(e.battle) = q.mode /\ BattleTypeMatches(q.type, e.battle)
          /\ MapOf[e.battle] = m
      BY <1>1, <1>3, <2>1 DEF EligibleOf, Eligible, Sound, Tables
    <3>2. e.battle \in TeamBattle /\ e.team \in Team /\ e.battle \in battles
      BY <3>1 DEF Sound, RowsSound, RowSound, Participant
    <3> QED BY <3>1, <3>2 DEF MapBattles, ResultOf
  <2>2. BattlesIn(EligibleOf(s, x)) \subseteq MapBattles(q, m)  BY <2>1 DEF BattlesIn
  <2> QED BY <1>5, <2>2, FS_Subset, FS_CardinalityType
<1>7. MapQualifying(q, m) = {x \in Brawler : Cardinality(BattlesIn(EligibleOf(s, x))) >= DefaultMin}
  BY DEF MapQualifying
<1>8. ASSUME NEW x \in MapQualifying(q, m)
      PROVE  /\ x \in Qualifying(r)
             /\ Cardinality(MapBattles(q, m)) >= DefaultMin
  <2>1. x \in Brawler /\ Cardinality(BattlesIn(EligibleOf(s, x))) >= DefaultMin
    BY <1>7, <1>8
  <2>2. EligibleOf(s, x) # {}
    <3> SUFFICES ASSUME EligibleOf(s, x) = {}  PROVE FALSE
      OBVIOUS
    <3>1. BattlesIn(EligibleOf(s, x)) = {}  BY DEF BattlesIn
    <3> QED BY <2>1, <3>1, FS_EmptySet, MinAssumption
  <2>3. PICK e \in rows : e.brawler = x /\ e.brawler # NoBrawler
    BY <2>2 DEF EligibleOf, Eligible
  <2>4. brawlers[x] # Absent  BY <2>3 DEF Sound, RowsSound, RowSound
  <2>5. EligibleOf(r, x) = EligibleOf(s, x)  BY <1>2 DEF EligibleOf
  <2>6. x \in Qualifying(r)  BY <1>1, <2>1, <2>4, <2>5 DEF Qualifying
  <2>7. Cardinality(MapBattles(q, m)) \in Nat  BY <1>5, FS_CardinalityType
  <2> QED BY <1>6, <2>1, <2>6, <2>7, MinAssumption
<1>9. MapQualifying(q, m) \subseteq Qualifying(r) /\ Qualifying(r) \subseteq Brawler
  BY <1>8 DEF Qualifying
<1>10. IsFiniteSet(Qualifying(r)) /\ IsFiniteSet(MapQualifying(q, m))
  BY <1>9, FS_Subset, WorldAssumption
<1>11. ASSUME Cardinality(MapQualifying(q, m)) > 0
       PROVE  Cardinality(MapBattles(q, m)) >= DefaultMin
  <2>1. MapQualifying(q, m) # {}  BY <1>11, FS_EmptySet
  <2> QED BY <1>8, <2>1
<1> QED BY <1>5, <1>9, <1>10, <1>11, FS_Subset, FS_CardinalityType

-----------------------------------------------------------------------------
(* The sum over a response.                                                *)

\* Induction over the natural numbers, by the least one of a set.
LEMMA LeastNumber ==
    ASSUME NEW T \in SUBSET Nat, T # {}
    PROVE  \E n \in T : \A m \in T : ~(m < n)
<1>1. IsWellFoundedOn(OpToRel(<, Nat), Nat)  BY NatLessThanWellFounded
<1>2. PICK n \in T : \A m \in T : <<m, n>> \notin OpToRel(<, Nat)  BY <1>1, WFMin
<1> QED BY <1>2 DEF OpToRel

\* The element that a fold takes next, and the sums that it makes of the sets in D.
Pick(t) == CHOOSE row \in t : TRUE

Sums(D) ==
    CHOOSE f : f = [t \in D |-> IF t = {} THEN 0 ELSE Slots(Pick(t)) + f[t \ {Pick(t)}]]

\* There is such a function over the subsets of every finite set: one over the
\* subsets with n elements makes one over those with n + 1.
LEMMA SumsDefined ==
    ASSUME NEW S, IsFiniteSet(S), NEW t \in SUBSET S
    PROVE  Sums(SUBSET S)[t] = IF t = {} THEN 0
                               ELSE Slots(Pick(t)) + Sums(SUBSET S)[t \ {Pick(t)}]
<1> DEFINE D(n) == {u \in SUBSET S : Cardinality(u) <= n}
           Def(f, u) == IF u = {} THEN 0 ELSE Slots(Pick(u)) + f[u \ {Pick(u)}]
           Fits(n) == \E f : f = [u \in D(n) |-> Def(f, u)]
<1>1. \A u \in SUBSET S : /\ IsFiniteSet(u) /\ Cardinality(u) \in Nat
                          /\ Cardinality(u) <= Cardinality(S)
  BY FS_Subset, FS_CardinalityType
<1>2. Fits(0)
  <2>1. \A u \in D(0) : u = {}  BY <1>1, FS_EmptySet
  <2> DEFINE f == [u \in D(0) |-> 0]
  <2>2. \A u \in D(0) : Def(f, u) = 0  BY <2>1
  <2>3. f = [u \in D(0) |-> Def(f, u)]
    <3> HIDE DEF D, Def
    <3> QED BY <2>2
  <2> QED BY <2>3
<1>3. ASSUME NEW n \in Nat, Fits(n)  PROVE Fits(n + 1)
  <2> PICK f : f = [u \in D(n) |-> Def(f, u)]  BY <1>3
  <2> DEFINE g == [u \in D(n + 1) |-> Def(f, u)]
  <2>1. ASSUME NEW u \in D(n + 1)  PROVE Def(f, u) = Def(g, u)
    <3>1. CASE u = {}  BY <3>1
    <3>2. CASE u # {}
      <4> DEFINE x == Pick(u)
                 v == u \ {x}
      <4>1. x \in u  BY <3>2 DEF Pick
      <4>2. v \in SUBSET S /\ Cardinality(v) = Cardinality(u) - 1
        BY <1>1, <4>1, FS_RemoveElement
      <4>3. v \in D(n) /\ v \in D(n + 1)  BY <1>1, <4>2
      <4>4. f[v] = Def(f, v) /\ g[v] = Def(f, v)
        <5> HIDE DEF D, Def, v
        <5> QED BY <4>3
      <4> QED BY <3>2, <4>4
    <3> QED BY <3>1, <3>2
  <2>2. g = [u \in D(n + 1) |-> Def(g, u)]
    <3> HIDE DEF D, Def
    <3> QED BY <2>1
  <2> QED BY <2>2
<1>4. Fits(Cardinality(S))
  <2> DEFINE T == {n \in Nat : ~Fits(n)}
  <2> HIDE DEF Fits
  <2> SUFFICES ASSUME ~Fits(Cardinality(S))  PROVE FALSE
    OBVIOUS
  <2>1. Cardinality(S) \in Nat  BY FS_CardinalityType
  <2>2. T \in SUBSET Nat /\ T # {}  BY <2>1
  <2>3. PICK n \in T : \A m \in T : ~(m < n)
    <3> HIDE DEF T
    <3> QED BY <2>2, LeastNumber
  <2>4. n \in Nat /\ ~Fits(n) /\ n # 0  BY <1>2
  <2>5. n - 1 \in Nat /\ n - 1 < n /\ n = (n - 1) + 1  BY <2>4
  <2>6. Fits(n - 1)  BY <2>3, <2>5
  <2>7. Fits((n - 1) + 1)  BY <1>3, <2>5, <2>6
  <2> QED BY <2>4, <2>5, <2>7
<1>5. D(Cardinality(S)) = SUBSET S  BY <1>1
<1>6. \E f : f = [u \in SUBSET S |-> Def(f, u)]
  <2> HIDE DEF D, Def
  <2> QED BY <1>4, <1>5
<1>7. Sums(SUBSET S) = [u \in SUBSET S |-> Def(Sums(SUBSET S), u)]
  BY <1>6 DEF Sums
<1> HIDE DEF D
<1> QED BY <1>7

LEMMA SumOfSlots ==
    ASSUME NEW S
    PROVE  MapThenSumSet(Slots, S) = Sums(SUBSET S)[S]
BY DEF MapThenSumSet, MapThenFoldSet, Sums, Pick

\* A brawler's wins, losses and draws are its rows, each in one of the three.
LEMMA ResultsPartition ==
    ASSUME Sound, NEW q \in WinRateParams, NEW x \in Brawler
    PROVE  /\ IsFiniteSet(EligibleOf(q, x))
           /\ Slots(BrawlerWinRate(q, x)) = Cardinality(EligibleOf(q, x))
<1> DEFINE E == EligibleOf(q, x)
           W == {r \in E : ResultOf(r) = "victory"}
           L == {r \in E : ResultOf(r) = "defeat"}
           D == {r \in E : ResultOf(r) = "draw"}
<1>1. IsFiniteSet(Eligible(q)) /\ E \subseteq Eligible(q)
  BY EligibleFinite DEF EligibleOf
<1>2. IsFiniteSet(E)
  <2> HIDE DEF E
  <2> QED BY <1>1, FS_Subset
<1>3. \A r \in E : ResultOf(r) \in {"victory", "defeat", "draw"}
  BY DEF EligibleOf, Eligible, Result
<1>4. /\ W \subseteq E /\ L \subseteq E /\ D \subseteq E /\ E = (W \cup L) \cup D
      /\ W \cap L = {} /\ (W \cup L) \cap D = {}
  <2> HIDE DEF E
  <2> QED BY <1>3
<1>5. Slots(BrawlerWinRate(q, x)) = Cardinality(W) + Cardinality(L) + Cardinality(D)
  BY DEF Slots, BrawlerWinRate, CountResult
<1> HIDE DEF E, W, L, D
<1>6. IsFiniteSet(W) /\ IsFiniteSet(L) /\ IsFiniteSet(D)  BY <1>2, <1>4, FS_Subset
<1>7. /\ IsFiniteSet(W \cup L)
      /\ Cardinality(W \cup L) = Cardinality(W) + Cardinality(L) - Cardinality({})
  BY <1>4, <1>6, FS_Union
<1>8. Cardinality(E) = Cardinality(W \cup L) + Cardinality(D) - Cardinality({})
  BY <1>4, <1>6, <1>7, FS_Union
<1>9. Cardinality(W) \in Nat /\ Cardinality(L) \in Nat /\ Cardinality(D) \in Nat
  BY <1>6, FS_CardinalityType
<1>10. Cardinality({}) = 0  BY FS_EmptySet
<1> QED BY <1>2, <1>5, <1>7, <1>8, <1>9, <1>10 DEF E

\* The eligible rows that the rows of a response stand for.
RowsOf(q, t) == {r \in Eligible(q) : \E row \in t : row.brawler = r.brawler}

\* The sum over a response is the number of rows it stands for.
LEMMA SumCountsRows ==
    ASSUME Sound, NEW q \in WinRateParams, NEW X \in SUBSET Brawler,
           NEW R, R = {BrawlerWinRate(q, x) : x \in X}
    PROVE  MapThenSumSet(Slots, R) = Cardinality(RowsOf(q, R))
<1>1. IsFiniteSet(Eligible(q))  BY EligibleFinite
<1>2. ASSUME NEW row \in R
      PROVE  /\ row.brawler \in X /\ row = BrawlerWinRate(q, row.brawler)
             /\ IsFiniteSet(EligibleOf(q, row.brawler))
             /\ Slots(row) = Cardinality(EligibleOf(q, row.brawler))
  <2>1. PICK x \in X : row = BrawlerWinRate(q, x)  OBVIOUS
  <2>2. row.brawler = x  BY <2>1 DEF BrawlerWinRate
  <2> QED BY <2>1, <2>2, ResultsPartition
<1>3. IsFiniteSet(R)
  <2> DEFINE f == [x \in X |-> BrawlerWinRate(q, x)]
  <2>1. f \in Surjection(X, R)  BY DEF Surjection
  <2>2. IsFiniteSet(X)  BY FS_Subset, WorldAssumption
  <2> HIDE DEF f
  <2> QED BY <2>1, <2>2, FS_Surjection
<1> DEFINE sum == Sums(SUBSET R)
           Right(t) == sum[t] = Cardinality(RowsOf(q, t))
<1>4. \A t \in SUBSET R : IsFiniteSet(t) /\ Cardinality(t) \in Nat
  BY <1>3, FS_Subset, FS_CardinalityType
<1>5. Right({})
  <2>1. RowsOf(q, {}) = {}  BY DEF RowsOf
  <2>2. sum[{}] = 0  BY <1>3, SumsDefined
  <2> QED BY <2>1, <2>2, FS_EmptySet
<1>6. ASSUME NEW t \in SUBSET R, NEW row \in t, row = Pick(t), Right(t \ {row})
      PROVE  Right(t)
  <2> DEFINE U == RowsOf(q, t \ {row})
             E == EligibleOf(q, row.brawler)
  <2>1. \A other \in t \ {row} : other.brawler # row.brawler  BY <1>2
  <2>2. RowsOf(q, t) = U \cup E /\ U \cap E = {} /\ U \subseteq Eligible(q)
    BY <2>1 DEF RowsOf, EligibleOf
  <2>3. sum[t] = Slots(row) + sum[t \ {row}]  BY <1>3, <1>6, SumsDefined
  <2>4. IsFiniteSet(E) /\ Slots(row) = Cardinality(E)  BY <1>2
  <2>5. sum[t \ {row}] = Cardinality(U)  BY <1>6
  <2> HIDE DEF U, E
  <2>6. IsFiniteSet(U)  BY <1>1, <2>2, FS_Subset
  <2>7. Cardinality(RowsOf(q, t)) = Cardinality(U) + Cardinality(E) - Cardinality({})
    BY <2>2, <2>4, <2>6, FS_Union
  <2>8. Cardinality({}) = 0 /\ Cardinality(U) \in Nat /\ Cardinality(E) \in Nat
    BY <2>4, <2>6, FS_EmptySet, FS_CardinalityType
  <2> QED BY <2>3, <2>4, <2>5, <2>7, <2>8
<1> HIDE DEF Right
<1>7. \A t \in SUBSET R : Right(t)
  <2> DEFINE T == {n \in Nat : \E t \in SUBSET R : Cardinality(t) = n /\ ~Right(t)}
  <2> SUFFICES ASSUME NEW s \in SUBSET R, ~Right(s)  PROVE FALSE
    OBVIOUS
  <2>1. T \in SUBSET Nat /\ T # {}  BY <1>4
  <2>2. PICK n \in T : \A m \in T : ~(m < n)
    <3> HIDE DEF T
    <3> QED BY <2>1, LeastNumber
  <2>3. PICK t \in SUBSET R : Cardinality(t) = n /\ ~Right(t)  OBVIOUS
  <2>4. t # {}  BY <1>5, <2>3
  <2> PICK row \in t : row = Pick(t)  BY <2>4 DEF Pick
  <2>5. t \ {row} \in SUBSET R /\ Cardinality(t \ {row}) = Cardinality(t) - 1
    BY <1>4, FS_RemoveElement
  <2>6. Cardinality(t \ {row}) \in Nat /\ Cardinality(t \ {row}) < n
    BY <1>4, <2>3, <2>5
  <2>7. Right(t \ {row})  BY <2>2, <2>5, <2>6
  <2> QED BY <1>6, <2>3, <2>7
<1>8. MapThenSumSet(Slots, R) = sum[R]  BY SumOfSlots
<1> QED BY <1>7, <1>8 DEF Right

\* With no minimum the brawlers that qualify account for every eligible row: the
\* catalogue has each of them.
LEMMA EveryRowQualifies ==
    ASSUME Sound, NEW q \in WinRateParams, q.min = 1,
           NEW R, R = {BrawlerWinRate(q, x) : x \in Qualifying(q)}
    PROVE  MapThenSumSet(Slots, R) = Cardinality(Eligible(q))
<1>1. ASSUME NEW r \in Eligible(q)  PROVE r \in RowsOf(q, R)
  <2> PICK x : x = r.brawler  OBVIOUS
  <2>1. RowSound(r) /\ x \in Brawler  BY EligibleTrue
  <2>2. brawlers[x] # Absent  BY <2>1, IdsDiffer DEF RowSound
  <2>3. r \in EligibleOf(q, x) /\ r.battle \in BattlesIn(EligibleOf(q, x))
    BY DEF EligibleOf, BattlesIn
  <2>4. IsFiniteSet(BattlesIn(EligibleOf(q, x)))
    <3>1. BattlesIn(EligibleOf(q, x)) \subseteq TeamBattle
      BY EligibleTrue DEF EligibleOf, BattlesIn
    <3> QED BY <3>1, FS_Subset, WorldAssumption
  <2>5. Cardinality(BattlesIn(EligibleOf(q, x))) >= 1
    <3> PICK B : B = BattlesIn(EligibleOf(q, x))  OBVIOUS
    <3>1. IsFiniteSet(B) /\ B # {}  BY <2>3, <2>4
    <3>2. Cardinality(B) \in Nat /\ Cardinality(B) # 0
      BY <3>1, FS_EmptySet, FS_CardinalityType
    <3> QED BY <3>2
  <2>6. x \in Qualifying(q)  BY <2>1, <2>2, <2>5 DEF Qualifying
  <2>7. BrawlerWinRate(q, x) \in R /\ BrawlerWinRate(q, x).brawler = x
    BY <2>6 DEF BrawlerWinRate
  <2> QED BY <2>7 DEF RowsOf
<1>2. RowsOf(q, R) = Eligible(q)  BY <1>1 DEF RowsOf
<1>3. Qualifying(q) \in SUBSET Brawler  BY DEF Qualifying
<1> QED BY <1>2, <1>3, SumCountsRows

-----------------------------------------------------------------------------
(* Once everything is stored.                                              *)

\* Every slot that a request should count has then a row that it counts.
LEMMA StoredRows ==
    ASSUME Sound, \A b \in TeamBattle : Stored(b), NEW q \in WinRateParams
    PROVE  \A s \in TrueSlots(q) : \E r \in Eligible(q) : Slot(r) = s
<1> TAKE s \in TrueSlots(q)
<1>1. PICK b \in TeamBattle, p \in Player :
        s = [battle |-> b, player |-> p, brawler |-> plays[b][p]]
  BY DEF TrueSlots
<1>2. /\ plays[b][p] # 0 /\ q.mode = "teams"
      /\ q.type = "competitive" => TypeOf[b] \in {"ranked", "soloRanked"}
      /\ q.type \in {"ranked", "soloRanked"} => TypeOf[b] = q.type
      /\ q.map # Unset => MapOf[b] = q.map
      /\ q.bucket # Unset => BucketOf[p] = q.bucket
  BY <1>1 DEF TrueSlots
<1>3. b \in Battle /\ plays[b][p] \in Brawler
  BY <1>2, Kinds DEF Sound, Tables
<1>4. PICK r \in rows : r.battle = b /\ r.player = p
  BY DEF Stored, Written
<1>5. /\ r \in Participant /\ r.team \in Team
      /\ r.brawler = plays[b][p] /\ r.brawler # NoBrawler
  BY <1>3, <1>4, IdsDiffer DEF Sound, Tables, RowsSound, RowSound, Participant, Played
<1>6. r.team # NoTeam  BY <1>5 DEF Team, NoTeam
<1>7. ResultOf(r) \in Result
  <2>1. teams[b][r.team] # Absent  BY <1>5 DEF Stored
  <2> QED BY <1>4, <1>5, <2>1 DEF Sound, Tables, ResultOf
<1>8. Event(b) = q.mode /\ BattleTypeMatches(q.type, b)
  BY <1>2 DEF Event, BattleTypeMatches, WinRateParams, BattleTypeFilter
<1>9. r \in Eligible(q)
  BY <1>2, <1>4, <1>5, <1>6, <1>7, <1>8 DEF Eligible
<1>10. Slot(r) = s  BY <1>1, <1>4, <1>5 DEF Slot
<1> QED BY <1>9, <1>10

LEMMA StoredReported ==
    ASSUME Sound
    PROVE  StoredIsReported
<1> SUFFICES ASSUME \A b \in TeamBattle : Stored(b),
                    NEW s \in Request, Valid(s), NEW q, q = Params(s), NEW x \in Brawler,
                    NEW row, row = BrawlerWinRate(q, x)
             PROVE  LET played == Cardinality(BattlesIn(TrueSlotsOf(q, x)))
                    IN /\ x \in Qualifying(q) <=> played >= q.min
                       /\ row.battles = played
                       /\ Slots(row) = Cardinality(TrueSlotsOf(q, x))
                       /\ row.wins \in MustCount(q, x, "victory")..MayCount(q, x, "victory")
                       /\ row.losses \in MustCount(q, x, "defeat")..MayCount(q, x, "defeat")
                       /\ row.draws \in MustCount(q, x, "draw")..MayCount(q, x, "draw")
  BY DEF StoredIsReported
<1>1. q \in WinRateParams  BY ParamsType DEF Valid
<1>2. q.min >= 1 /\ q.min \in Nat
  <2>1. /\ s.min # Unset => s.min >= 1
        /\ q.min = IF s.min = Unset THEN DefaultMin ELSE s.min
    BY RequestAssumption DEF Valid, Params
  <2> QED BY <1>1, <2>1, MinAssumption DEF WinRateParams
<1> DEFINE E == EligibleOf(q, x)
           T == TrueSlotsOf(q, x)
<1>3. /\ E \in SUBSET Eligible(q) /\ E \in SUBSET rows
      /\ T \in SUBSET TrueSlots(q) /\ IsFiniteSet(T)
  <2>1. T \in SUBSET TrueSlots(q)  BY DEF TrueSlotsOf
  <2> QED BY <2>1, SlotsFinite, FS_Subset DEF EligibleOf, Eligible
<1>4. \A r \in E : Slot(r) \in T /\ ResultOf(r) \in Credits(Slot(r))
  BY <1>1, EligibleTrue DEF EligibleOf, TrueSlotsOf, Slot
<1>5. \A t \in T : \E r \in E : Slot(r) = t
  BY <1>1, StoredRows DEF EligibleOf, TrueSlotsOf, Slot
<1>6. BattlesIn(E) = BattlesIn(T)
  <2>1. \A r \in E : r.battle = Slot(r).battle  BY DEF Slot
  <2>2. BattlesIn(E) \subseteq BattlesIn(T)
    <3> HIDE DEF E, T
    <3> QED BY <1>4, <2>1 DEF BattlesIn
  <2>3. BattlesIn(T) \subseteq BattlesIn(E)
    <3> HIDE DEF E, T
    <3> QED BY <1>5, <2>1 DEF BattlesIn
  <2> QED BY <2>2, <2>3
<1>7. Slots(row) = Cardinality(T)
  <2>1. Slots(row) = Cardinality(E)  BY <1>1, ResultsPartition
  <2> HIDE DEF E, T
  <2> QED BY <1>3, <1>4, <1>5, <2>1, SlotCount
<1>8. ASSUME NEW result \in Result
      PROVE  CountResult(q, x, result) \in MustCount(q, x, result)..MayCount(q, x, result)
  <2> DEFINE C == {r \in E : ResultOf(r) = result}
             S == {r \in E : Credits(Slot(r)) = {result}}
             U == {t \in T : Credits(t) = {result}}
  <2>1. S \in SUBSET C /\ C \in SUBSET rows /\ U \in SUBSET T
    <3> HIDE DEF E, T
    <3> QED BY <1>3, <1>4
  <2>2. (\A r \in S : Slot(r) \in U) /\ \A t \in U : \E r \in S : Slot(r) = t
    <3> HIDE DEF E, T
    <3> QED BY <1>4, <1>5
  <2>3. S \in SUBSET rows /\ IsFiniteSet(U)
    <3> HIDE DEF S, U, T, C
    <3> QED BY <1>3, <2>1, FS_Subset
  <2>4. Cardinality(U) = Cardinality(S) /\ Cardinality(U) \in Nat
    <3> HIDE DEF S, U
    <3> QED BY <2>2, <2>3, SlotCount
  <2>5. IsFiniteSet(C)
    <3>1. IsFiniteSet(E)  BY <1>1, ResultsPartition
    <3>2. C \in SUBSET E  OBVIOUS
    <3> HIDE DEF C, E
    <3> QED BY <3>1, <3>2, FS_Subset
  <2>6. Cardinality(S) <= Cardinality(C)
    <3> HIDE DEF S, C
    <3> QED BY <2>1, <2>5, FS_Subset
  <2>7. MustCount(q, x, result) = Cardinality(U) /\ CountResult(q, x, result) = Cardinality(C)
    BY DEF MustCount, CountResult
  <2>8. /\ CountResult(q, x, result) \in Nat /\ MayCount(q, x, result) \in Nat
        /\ CountResult(q, x, result) <= MayCount(q, x, result)
    BY <1>1, CountsBounded
  <2> HIDE DEF S, U, C
  <2> QED BY <2>4, <2>6, <2>7, <2>8
<1>9. /\ row.battles = Cardinality(BattlesIn(E))
      /\ row.wins = CountResult(q, x, "victory") /\ row.losses = CountResult(q, x, "defeat")
      /\ row.draws = CountResult(q, x, "draw")
  BY DEF BrawlerWinRate
<1>10. x \in Qualifying(q) <=> Cardinality(BattlesIn(E)) >= q.min
  <2>1. CASE E = {}
    <3>1. BattlesIn(E) = {}  BY <2>1 DEF BattlesIn
    <3>2. Cardinality(BattlesIn(E)) = 0  BY <3>1, FS_EmptySet
    <3> QED BY <1>2, <3>2 DEF Qualifying
  <2>2. CASE E # {}
    <3>1. PICK r \in Eligible(q) : r.brawler = x  BY <2>2 DEF EligibleOf
    <3>2. RowSound(r)  BY <1>1, <3>1, EligibleTrue
    <3>3. brawlers[x] # Absent  BY <3>1, <3>2, IdsDiffer DEF RowSound
    <3> QED BY <3>3 DEF Qualifying
  <2> QED BY <2>1, <2>2
<1>11. {"victory", "defeat", "draw"} = Result  BY DEF Result
<1>12. Cardinality(BattlesIn(E)) = Cardinality(BattlesIn(T))  BY <1>6
<1> HIDE DEF E
<1> QED BY <1>7, <1>8, <1>9, <1>10, <1>11, <1>12

-----------------------------------------------------------------------------
(* The invariant: what is stored, and what was answered from it.           *)

\* Between the two queries the rows that the first one counted are still there.
CountStands ==
    http.status = "counted" => http.totalSlots <= Cardinality(Eligible(http.params))

AInv ==
    /\ IInv /\ AnalyticsTypeOK /\ NeverOverstates /\ MapsPredict
    /\ CountStands /\ NothingLost

\* While battles are written, a response stays as true as it was.
LEMMA StoreKeeps ==
    ASSUME AInv, [Next]_vars, UNCHANGED http
    PROVE  AInv'
<1>1. IInv' /\ Grows  BY StepInv, StepGrows DEF AInv
<1>2. TypeOK' /\ Sound /\ Sound'  BY <1>1, Parts DEF AInv, IInv
<1>3. AnalyticsTypeOK'  BY <1>2 DEF AInv, AnalyticsTypeOK
<1>4. NeverOverstates'
  <2>1. winner' = winner /\ plays' = plays /\ mixed' = mixed  BY <1>1 DEF Grows, world
  <2>2. \A q : TrueSlots(q)' = TrueSlots(q)  BY <2>1 DEF TrueSlots
  <2>3. \A q, x : TrueSlotsOf(q, x)' = TrueSlotsOf(q, x)  BY <2>2 DEF TrueSlotsOf
  <2>4. \A q, x, result : MayCount(q, x, result)' = MayCount(q, x, result)
    BY <2>1, <2>3 DEF MayCount, Credits, TrueResult
  <2> QED BY <2>2, <2>3, <2>4 DEF AInv, NeverOverstates
<1>5. MapsPredict'
  <2> SUFFICES ASSUME http.status = "maps", NEW e \in http.maps,
                      NEW q, q = [http.params EXCEPT !.map = e.map, !.bucket = Unset,
                                                     !.min = DefaultMin]
               PROVE  /\ e.qualifying <= Cardinality(Qualifying(q)')
                      /\ e.qualifying > 0 => e.battles >= DefaultMin
    BY DEF MapsPredict
  <2>1. http.params \in WinRateParams /\ e \in Entry  BY DEF AInv, AnalyticsTypeOK
  <2>2. q \in WinRateParams  BY <2>1, MinAssumption DEF WinRateParams, Entry
  <2>3. /\ e.qualifying <= Cardinality(Qualifying(q))
        /\ e.qualifying > 0 => e.battles >= DefaultMin
    BY DEF AInv, MapsPredict
  <2> PICK n : n = Cardinality(Qualifying(q))  OBVIOUS
  <2> PICK k : k = Cardinality(Qualifying(q)')  OBVIOUS
  <2>4. n \in Nat /\ k \in Nat /\ n <= k  BY <1>1, <1>2, <2>2, QualifyingGrows
  <2>5. e.qualifying \in Nat /\ e.qualifying <= n  BY <2>1, <2>3 DEF Entry
  <2>6. e.qualifying <= k  BY <2>4, <2>5
  <2> QED BY <2>3, <2>6
<1>6. CountStands'
  <2> SUFFICES ASSUME http.status = "counted"
               PROVE  http.totalSlots <= Cardinality(Eligible(http.params)')
    BY DEF CountStands
  <2> PICK q : q = http.params  OBVIOUS
  <2>1. q \in WinRateParams /\ http.totalSlots \in Nat  BY DEF AInv, AnalyticsTypeOK
  <2>2. Eligible(q) \subseteq Eligible(q)'  BY <1>1, <1>2, <2>1, EligibleGrows
  <2>3. IsFiniteSet(Eligible(q)')  BY <1>2, <2>1, EligibleFinite
  <2> PICK n : n = Cardinality(Eligible(q))  OBVIOUS
  <2> PICK k : k = Cardinality(Eligible(q)')  OBVIOUS
  <2>4. n \in Nat /\ k \in Nat /\ n <= k  BY <2>2, <2>3, FS_Subset, FS_CardinalityType
  <2>5. http.totalSlots <= n  BY DEF AInv, CountStands
  <2>6. http.totalSlots <= k  BY <2>1, <2>4, <2>5
  <2> QED BY <2>6
<1>7. NothingLost'  BY DEF AInv, NothingLost
<1> QED BY <1>1, <1>3, <1>4, <1>5, <1>6, <1>7 DEF AInv

\* What a step of a handler leaves alone.
LEMMA HandlerReads ==
    ASSUME AInv, UNCHANGED vars
    PROVE  IInv' /\ TypeOK' /\ Sound
BY StepInv, Parts DEF AInv, IInv

\* A response without data.
LEMMA NoData ==
    ASSUME AInv, UNCHANGED vars, NEW s \in {"idle", "400", "500"},
           http' = [NoReply EXCEPT !.status = s]
    PROVE  AInv'
<1>1. IInv' /\ TypeOK'  BY HandlerReads
<1>2. /\ http'.status = s /\ http'.brawlers = {} /\ http'.maps = {}
      /\ http' \in [status : {"idle", "counted", "winrates", "maps", "400", "500"},
                    params : WinRateParams \cup {Unset}, sampleBattles : Nat, totalSlots : Nat,
                    brawlers : SUBSET Row, maps : SUBSET Entry]
  BY DEF NoReply
<1>3. AnalyticsTypeOK'  BY <1>1, <1>2 DEF AnalyticsTypeOK
<1> QED BY <1>1, <1>2, <1>3 DEF AInv, NeverOverstates, MapsPredict, CountStands, NothingLost

LEMMA CountKeeps ==
    ASSUME AInv, NEW q \in Request, CountEligible(q)
    PROVE  AInv'
<1>1. IInv' /\ TypeOK' /\ Sound  BY HandlerReads DEF CountEligible
<1> PICK p : p = Params(q)  OBVIOUS
<1>2. p \in WinRateParams  BY ParamsType DEF CountEligible, Valid
<1> PICK n : n = Cardinality(Eligible(p))  OBVIOUS
<1> PICK k : k = Cardinality(BattlesIn(Eligible(p)))  OBVIOUS
<1>3. /\ n \in Nat /\ n <= Cardinality(TrueSlots(p))
      /\ k \in Nat /\ k <= Cardinality(BattlesIn(TrueSlots(p)))
  BY <1>1, <1>2, CountsBounded
<1>4. http' = [NoReply EXCEPT !.status = "counted", !.params = p, !.sampleBattles = k,
                              !.totalSlots = n]
  BY DEF CountEligible
<1>5. http' = [status |-> "counted", params |-> p, sampleBattles |-> k, totalSlots |-> n,
               brawlers |-> {}, maps |-> {}]
  BY <1>4 DEF NoReply
<1>6. AnalyticsTypeOK'  BY <1>1, <1>2, <1>3, <1>5 DEF AnalyticsTypeOK
<1>7. TrueSlots(p)' = TrueSlots(p)  BY DEF CountEligible, vars, world, TrueSlots
<1>8. NeverOverstates'
  <2>1. BattlesIn(TrueSlots(p))' = BattlesIn(TrueSlots(p))  BY <1>7 DEF BattlesIn
  <2> QED BY <1>3, <1>5, <1>7, <2>1 DEF NeverOverstates
<1>9. CountStands'
  <2>1. Eligible(p)' = Eligible(p)
    BY DEF CountEligible, vars, store, Eligible, ResultOf
  <2>2. n <= Cardinality(Eligible(p)')  BY <1>3, <2>1
  <2> QED BY <1>5, <2>2 DEF CountStands
<1> QED BY <1>1, <1>5, <1>6, <1>8, <1>9 DEF AInv, MapsPredict, NothingLost

LEMMA AggregateKeeps ==
    ASSUME AInv, AggregateBrawlers
    PROVE  AInv'
<1>1. IInv' /\ TypeOK' /\ Sound  BY HandlerReads DEF AggregateBrawlers
<1> PICK p : p = http.params  OBVIOUS
<1>2. p \in WinRateParams /\ http.status = "counted"
  BY DEF AInv, AnalyticsTypeOK, AggregateBrawlers
<1> PICK R : R = {BrawlerWinRate(p, x) : x \in Qualifying(p)}  OBVIOUS
<1>3. /\ http'.status = "winrates" /\ http'.params = p /\ http'.brawlers = R
      /\ http'.maps = http.maps
      /\ http'.sampleBattles = http.sampleBattles /\ http'.totalSlots = http.totalSlots
  BY DEF AggregateBrawlers, AInv, AnalyticsTypeOK
<1>4. {"victory", "defeat", "draw"} = Result  BY DEF Result
<1>5. ASSUME NEW row \in R
      PROVE  /\ row \in Row
             /\ row.wins <= MayCount(p, row.brawler, "victory")
             /\ row.losses <= MayCount(p, row.brawler, "defeat")
             /\ row.draws <= MayCount(p, row.brawler, "draw")
             /\ Slots(row) <= Cardinality(TrueSlotsOf(p, row.brawler))
             /\ row.battles <= Cardinality(BattlesIn(TrueSlotsOf(p, row.brawler)))
  <2>1. PICK x \in Brawler : row = BrawlerWinRate(p, x)  BY <1>5 DEF Qualifying
  <2>2. /\ row.brawler = x /\ row.battles = Cardinality(BattlesIn(EligibleOf(p, x)))
        /\ row.wins = CountResult(p, x, "victory") /\ row.losses = CountResult(p, x, "defeat")
        /\ row.draws = CountResult(p, x, "draw")
        /\ row = [brawler |-> x, battles |-> row.battles, wins |-> row.wins,
                  losses |-> row.losses, draws |-> row.draws]
    BY <2>1 DEF BrawlerWinRate
  <2>3. /\ row.battles \in Nat
        /\ row.battles <= Cardinality(BattlesIn(TrueSlotsOf(p, x)))
        /\ row.wins \in Nat /\ row.wins <= MayCount(p, x, "victory")
        /\ row.losses \in Nat /\ row.losses <= MayCount(p, x, "defeat")
        /\ row.draws \in Nat /\ row.draws <= MayCount(p, x, "draw")
    BY <1>1, <1>2, <1>4, <2>2, CountsBounded
  <2>4. row \in Row
    <3> PICK a : a = row.battles  OBVIOUS
    <3> PICK b : b = row.wins  OBVIOUS
    <3> PICK c : c = row.losses  OBVIOUS
    <3> PICK d : d = row.draws  OBVIOUS
    <3>1. row = [brawler |-> x, battles |-> a, wins |-> b, losses |-> c, draws |-> d]  BY <2>2
    <3>2. a \in Nat /\ b \in Nat /\ c \in Nat /\ d \in Nat  BY <2>3
    <3> QED BY <3>1, <3>2 DEF Row
  <2>5. Slots(row) <= Cardinality(TrueSlotsOf(p, x))
    BY <1>1, <1>2, <2>1, ResultsPartition, CountsBounded
  <2> QED BY <2>2, <2>3, <2>4, <2>5
<1>6. AnalyticsTypeOK'
  <2>1. R \subseteq Row  BY <1>5
  <2>2. http' \in [status : {"idle", "counted", "winrates", "maps", "400", "500"},
                  params : WinRateParams \cup {Unset}, sampleBattles : Nat, totalSlots : Nat,
                  brawlers : SUBSET Row, maps : SUBSET Entry]
    BY <2>1 DEF AInv, AnalyticsTypeOK, AggregateBrawlers
  <2>3. http.maps = {}  BY <1>2 DEF AInv, AnalyticsTypeOK
  <2> QED BY <1>1, <1>2, <1>3, <2>2, <2>3 DEF AnalyticsTypeOK
<1>7. /\ TrueSlots(p)' = TrueSlots(p) /\ \A x : TrueSlotsOf(p, x)' = TrueSlotsOf(p, x)
      /\ \A x, result : MayCount(p, x, result)' = MayCount(p, x, result)
  BY DEF AggregateBrawlers, vars, world, TrueSlots, TrueSlotsOf, MayCount, Credits, TrueResult
<1>8. NeverOverstates'
  <2>1. /\ http.totalSlots <= Cardinality(TrueSlots(p))
        /\ http.sampleBattles <= Cardinality(BattlesIn(TrueSlots(p)))
    BY <1>2 DEF AInv, NeverOverstates
  <2>2. \A S : BattlesIn(S)' = BattlesIn(S)  BY DEF BattlesIn
  <2> QED BY <1>3, <1>5, <1>7, <2>1, <2>2 DEF NeverOverstates, BattlesIn
<1>9. NothingLost'
  <2>1. http.totalSlots <= Cardinality(Eligible(p))  BY <1>2 DEF AInv, CountStands
  <2>2. p.min = 1 => http.totalSlots <= MapThenSumSet(Slots, R)
    BY <1>1, <1>2, <2>1, EveryRowQualifies
  <2>3. http'.params.min = 1 => http'.totalSlots <= MapThenSumSet(Slots, http'.brawlers)
    BY <1>3, <2>2
  <2> QED BY <2>3 DEF NothingLost
<1> QED BY <1>1, <1>3, <1>6, <1>8, <1>9 DEF AInv, MapsPredict, CountStands

LEMMA MapsKeep ==
    ASSUME AInv, NEW q \in Request, ListMaps(q)
    PROVE  AInv'
<1>1. IInv' /\ TypeOK' /\ Sound  BY HandlerReads DEF ListMaps
<1> PICK p : p = Params(q)  OBVIOUS
<1>2. p \in WinRateParams  BY ParamsType DEF ListMaps
<1> PICK M : M = MapList(p)  OBVIOUS
<1>3. http' = [NoReply EXCEPT !.status = "maps", !.params = p, !.maps = M]
  BY DEF ListMaps
<1>4. http' = [status |-> "maps", params |-> p, sampleBattles |-> 0, totalSlots |-> 0,
               brawlers |-> {}, maps |-> M]
  BY <1>3 DEF NoReply
<1>5. ASSUME NEW e \in M,
             NEW r, r = [p EXCEPT !.map = e.map, !.bucket = Unset, !.min = DefaultMin]
      PROVE  /\ e \in Entry /\ e.battles > 0 /\ e.map # NoMap
             /\ e.qualifying <= Cardinality(Qualifying(r))
             /\ e.qualifying > 0 => e.battles >= DefaultMin
  <2>1. PICK m \in MapName \ {NoMap} :
          e = [map |-> m, battles |-> Cardinality(MapBattles(p, m)),
               qualifying |-> Cardinality(MapQualifying(p, m))]
    BY <1>5 DEF MapList, MapEntries
  <2>2. e.battles > 0  BY <1>5 DEF MapList
  <2> PICK k : k = Cardinality(MapBattles(p, m))  OBVIOUS
  <2> PICK n : n = Cardinality(MapQualifying(p, m))  OBVIOUS
  <2>3. e = [map |-> m, battles |-> k, qualifying |-> n]  BY <2>1
  <2>4. k \in Nat /\ n \in Nat /\ n <= Cardinality(Qualifying(r)) /\ (n > 0 => k >= DefaultMin)
    <3>1. r = [p EXCEPT !.map = m, !.bucket = Unset, !.min = DefaultMin]  BY <1>5, <2>3
    <3> QED BY <1>1, <1>2, <3>1, MapAnnounces
  <2> QED BY <2>2, <2>3, <2>4 DEF Entry
<1>6. AnalyticsTypeOK'
  <2>1. M \subseteq Entry /\ \A e \in M : e.battles > 0 /\ e.map # NoMap  BY <1>5
  <2> QED BY <1>1, <1>2, <1>4, <2>1 DEF AnalyticsTypeOK
<1>7. \A r : Qualifying(r)' = Qualifying(r)
  BY DEF ListMaps, vars, store, Qualifying, EligibleOf, Eligible, BattlesIn, ResultOf
<1>8. MapsPredict'  BY <1>4, <1>5, <1>7 DEF MapsPredict
<1> QED BY <1>1, <1>4, <1>6, <1>8 DEF AInv, NeverOverstates, CountStands, NothingLost

THEOREM AnalyticsInductive == AnalyticsSpec => []AInv
<1>1. AnalyticsInit => AInv
  <2> SUFFICES ASSUME AnalyticsInit  PROVE AInv
    OBVIOUS
  <2>1. IInv /\ TypeOK  BY InitInv DEF AnalyticsInit, IInv
  <2>2. AnalyticsTypeOK  BY <2>1 DEF AnalyticsInit, NoReply, AnalyticsTypeOK
  <2>3. http.status = "idle"  BY DEF AnalyticsInit, NoReply
  <2> QED BY <2>1, <2>2, <2>3 DEF AInv, NeverOverstates, MapsPredict, CountStands, NothingLost
<1>2. AInv /\ [AnalyticsNext]_allVars => AInv'
  <2> SUFFICES ASSUME AInv, [AnalyticsNext]_allVars  PROVE AInv'
    OBVIOUS
  <2>1. CASE [Next]_vars /\ UNCHANGED http  BY <2>1, StoreKeeps
  <2>2. CASE Handle
    <3>1. ASSUME NEW q \in Request, Refuse(q)  PROVE AInv'
      BY <3>1, NoData DEF Refuse
    <3>2. CASE QueryError  BY <3>2, NoData DEF QueryError
    <3> QED BY <2>2, <3>1, <3>2, CountKeeps, AggregateKeeps, MapsKeep DEF Handle
  <2> QED BY <2>1, <2>2 DEF AnalyticsNext, allVars
<1> QED BY <1>1, <1>2, PTL DEF AnalyticsSpec

\* The tables and the responses keep their types, and refusals carry no data.
THEOREM ResponsesAreTyped == AnalyticsSpec => []AnalyticsTypeOK
<1>1. AInv => AnalyticsTypeOK  BY DEF AInv
<1> QED BY <1>1, AnalyticsInductive, PTL

\* No response credits anybody with a battle, a slot or a result that it did not
\* have, however the statements of the writers fall between the two queries; only
\* which side won a battle is open where its logs disagree on the order of the teams.
THEOREM WinRatesNeverOverstate == AnalyticsSpec => []NeverOverstates
<1>1. AInv => NeverOverstates  BY DEF AInv
<1> QED BY <1>1, AnalyticsInductive, PTL

\* Once every team battle is stored, every request is answered with every slot that
\* was played, and with its result wherever the logs agree on the order of the teams.
THEOREM StoredBattlesAreReported == AnalyticsSpec => []StoredIsReported
<1>1. AInv => StoredIsReported  BY StoredReported, Parts DEF AInv, IInv
<1> QED BY <1>1, AnalyticsInductive, PTL

\* With no minimum, the brawlers of a response account for every slot that its own
\* first query counted, whatever was written between the two queries.
THEOREM NoSlotIsLost == AnalyticsSpec => []NothingLost
<1>1. AInv => NothingLost  BY DEF AInv
<1> QED BY <1>1, AnalyticsInductive, PTL

\* What the map list announces, a later win-rate query has.
THEOREM MapListPredicts == AnalyticsSpec => []MapsPredict
<1>1. AInv => MapsPredict  BY DEF AInv
<1> QED BY <1>1, AnalyticsInductive, PTL
=============================================================================
