----------------------------- MODULE MCAnalytics -----------------------------
(***************************************************************************)
(* Instances of Analytics for TLC.                                         *)
(***************************************************************************)
EXTENDS Analytics, TLC

CONSTANTS b1, b2, p1, p2, m1

MCTypeOf == b1 :> "ranked" @@ b2 :> "soloRanked"
MCMapOf == b1 :> m1 @@ b2 :> m1
MCLineups == [Battle -> [Player -> Brawler]]
MCBucketOf == p1 :> 1 @@ p2 :> 2

Ask(mode, type, map, bucket, min) ==
    [mode |-> mode, type |-> type, map |-> map, bucket |-> bucket, min |-> min]

\* Side 0 wins one battle, in all logs; the other is drawn, or won by side 1 and then
\* its logs disagree on the order of the teams.
MCInit ==
    /\ AnalyticsInit
    /\ winner[b1] \in {1, 2} /\ winner[b2] = 0
    /\ mixed = {b \in {b1} : winner[b] = 1}

MCSpec == MCInit /\ [][AnalyticsNext]_allVars

\* Two that are answered, and five that are not.
MCRequest ==
    {Ask("teams", "competitive", m1, Unset, 1), Ask("teams", Unset, Unset, 1, Unset),
     Ask(Unset, Unset, Unset, Unset, Unset), Ask("duel", Unset, Unset, Unset, Unset),
     Ask("teams", "unknown", Unset, Unset, Unset), Ask("teams", Unset, Unset, 7, Unset),
     Ask("teams", Unset, Unset, Unset, 0)}
=============================================================================
