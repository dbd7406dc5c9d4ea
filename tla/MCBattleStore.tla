---------------------------- MODULE MCBattleStore ----------------------------
(***************************************************************************)
(* Instances of BattleStore for TLC.                                       *)
(***************************************************************************)
EXTENDS BattleStore, TLC

\* Everybody plays one brawler, or the API names none for the players of Away in
\* battles of some kinds.
Lineup(x, unnamed) ==
    [b \in Battle |-> [p \in Player |-> IF b \in unnamed /\ p \in Away THEN 0 ELSE x]]

MCLineups ==
    {Lineup(x, unnamed) : x \in Brawler, unnamed \in {Showdown \cup Duel, TeamBattle}}

\* No step tests which side won, so that side 1 stands for both; draws are looked at
\* where the API names the brawlers of the team battles.
MCInit ==
    /\ Init
    /\ \A b \in TeamBattle : winner[b] # 0
    /\ \A b \in TeamBattle : winner[b] = 2 => \A p \in Player : plays[b][p] # 0

MCSpec == MCInit /\ [][Next]_vars

\* Goroutines are interchangeable.
WorkerSymmetry == Permutations(Worker)
=============================================================================
