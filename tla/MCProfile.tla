------------------------------ MODULE MCProfile ------------------------------
(***************************************************************************)
(* Instances of Profile for TLC.                                           *)
(***************************************************************************)
EXTENDS Profile, TLC

\* The registry is empty or has each patch one tick ahead of its time.
MCInit == Init /\ patches \subseteq {[id |-> id, released |-> 1] : id \in Patch}

MCSpec == MCInit /\ [][Next]_vars

\* A date moves only later, and only after a snapshot was attributed: the way that
\* leaves a snapshot before its patch.
DatesMoveLater ==
    \A x \in patches, y \in patches' : x.id = y.id /\ x # y =>
        /\ x.released < y.released
        /\ \E s \in snapshots : s.patch # NoPatch

\* Writers are interchangeable.
WorkerSymmetry == Permutations(Worker)
=============================================================================
