----------------------------- MODULE BattleLedger -----------------------------
(***************************************************************************)
(* What the store of battles promises to those who read it, and nothing of *)
(* how: a ledger of facts about battles, to which true facts are added, by *)
(* anybody and in any order, from which nothing is ever taken, and which   *)
(* is complete for a battle that is reported as ingested.  BattleStore is  *)
(* shown to implement this.                                                *)
(***************************************************************************)
EXTENDS Naturals

CONSTANTS
    Worker,                      \* those who ingest battles
    TeamBattle, Showdown, Duel,  \* the battles
    Home, Away,                  \* the players of the two sides
    NoBrawler,                   \* the brawler of a player for whom there is none
    None                         \* the battle of a worker that has not reported one

VARIABLES
    winner,    \* the side that won each team battle; any other value is a draw
    plays,     \* the brawler id of each player in each battle, or 0
    mixed,     \* the team battles that are told in two ways
    ledger,    \* the facts recorded so far
    reported   \* for each worker: the battle it has reported as ingested

happened == <<winner, plays, mixed>>
vars == <<happened, ledger, reported>>

\* What the ledger says of the result of one side.  Of a battle that is told in two
\* ways it says whether it was a draw, and no more.
Outcome(b, side) ==
    IF winner[b] \notin {0, 1} THEN "draw"
    ELSE IF b \in mixed THEN "decided"
    ELSE IF winner[b] = side THEN "victory" ELSE "defeat"

\* A player took part with a brawler, and had its side's result.
Plays(b, p, x) == [battle |-> b, player |-> p, brawler |-> x]
Scores(b, p, outcome) == [battle |-> b, player |-> p, result |-> outcome]

Took(b) == {Plays(b, p, IF plays[b][p] = 0 THEN NoBrawler ELSE plays[b][p]) : p \in Home \cup Away}

\* All there is to know of a battle.
FactsOf(b) ==
    IF b \in TeamBattle
    THEN Took(b) \cup {Scores(b, p, Outcome(b, 0)) : p \in Home}
                 \cup {Scores(b, p, Outcome(b, 1)) : p \in Away}
    ELSE Took(b)

Battle == TeamBattle \cup Showdown \cup Duel

Init ==
    /\ ledger = {}
    /\ reported = [w \in Worker |-> None]

\* Some more of the facts, or none.
Add ==
    /\ ledger \subseteq ledger'
    /\ \A fact \in ledger' \ ledger : fact.battle \in Battle /\ fact \in FactsOf(fact.battle)
    /\ UNCHANGED happened

Record == Add /\ UNCHANGED reported

\* IngestBattle returns without an error.
Report(w, b) ==
    /\ reported' = [reported EXCEPT ![w] = b]
    /\ Add
    /\ FactsOf(b) \subseteq ledger'

\* The worker turns to another battle.
Begin(w) ==
    /\ reported' = [reported EXCEPT ![w] = None]
    /\ UNCHANGED <<happened, ledger>>

Next ==
    \/ Record
    \/ \E w \in Worker : Begin(w)
    \/ \E w \in Worker, b \in Battle : Report(w, b)

Spec == Init /\ [][Next]_vars
=============================================================================
