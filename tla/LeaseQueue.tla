------------------------------ MODULE LeaseQueue ------------------------------
(***************************************************************************)
(* What the crawl queue promises to those who use it, and nothing of how:  *)
(* targets are leased for a time, each claim has a number of its own, a    *)
(* claim is completed at most once and only while it is the latest one of  *)
(* its target, and a deactivated target comes back only when the holder of *)
(* its latest claim completes it.  Crawler is shown to implement this.     *)
(***************************************************************************)
EXTENDS Naturals

CONSTANTS
    Worker,    \* those who claim targets
    Target,    \* what there is to claim
    None,      \* the target of a worker that holds no claim
    NoLease,   \* the deadline of a target that is not leased
    TTL        \* how long a lease lasts

VARIABLES
    queue,     \* for each target: listed, active, gen, lease, count
    held,      \* for each worker: the target it holds, and under which number
    clock      \* the clock that leases are measured by

vars == <<queue, held, clock>>

NotHeld == [tag |-> None, gen |-> 0]

Init ==
    /\ \E S \in SUBSET Target :
        queue = [p \in Target |-> [listed |-> p \in S, active |-> TRUE, gen |-> 0,
                                   lease |-> NoLease, count |-> 0]]
    /\ held = [w \in Worker |-> NotHeld]
    /\ clock = 0

List(p) ==
    /\ ~queue[p].listed
    /\ queue' = [queue EXCEPT ![p] = [listed |-> TRUE, active |-> TRUE, gen |-> 0,
                                      lease |-> NoLease, count |-> 0]]
    /\ UNCHANGED <<held, clock>>

Free(p) == queue[p].lease = NoLease \/ queue[p].lease < clock

\* The lease counts from some moment up to now.  The worker may never hear of it.
Claim(w, p) ==
    /\ queue[p].listed /\ queue[p].active /\ Free(p)
    /\ held[w] = NotHeld
    /\ \E since \in 0..clock :
        queue' = [queue EXCEPT ![p] = [@ EXCEPT !.gen = queue[p].gen + 1,
                                                !.lease = since + TTL]]
    /\ held' \in {held, [held EXCEPT ![w] = [tag |-> p, gen |-> queue[p].gen + 1]]}
    /\ UNCHANGED clock

\* Only under the latest claim, and only once: the lease is gone afterwards.
Complete(w) ==
    LET p == held[w].tag
    IN /\ held[w] # NotHeld
       /\ held[w].gen = queue[p].gen
       /\ queue[p].lease # NoLease
       /\ \E a \in BOOLEAN :
            queue' = [queue EXCEPT ![p] = [@ EXCEPT !.lease = NoLease, !.active = a,
                                                    !.count = queue[p].count + 1]]
       /\ held' = [held EXCEPT ![w] = NotHeld]
       /\ UNCHANGED clock

\* Workers give up or are lost.  Their leases run out on their own.
Without(S) == [w \in Worker |-> IF w \in S THEN NotHeld ELSE held[w]]

GiveUp(S) ==
    /\ held' = Without(S)
    /\ UNCHANGED <<queue, clock>>

\* A listed target is deactivated, whoever holds it; a worker may give up with it.
Deactivate(p, S) ==
    /\ queue[p].listed
    /\ queue' = [queue EXCEPT ![p] = [@ EXCEPT !.active = FALSE]]
    /\ held' = Without(S)
    /\ UNCHANGED clock

Tick ==
    /\ clock' = clock + 1
    /\ UNCHANGED <<queue, held>>

Next ==
    \/ \E p \in Target : List(p)
    \/ \E w \in Worker, p \in Target : Claim(w, p)
    \/ \E w \in Worker : Complete(w)
    \/ \E S \in SUBSET Worker : GiveUp(S)
    \/ \E p \in Target, S \in SUBSET Worker : Deactivate(p, S)
    \/ Tick

Spec == Init /\ [][Next]_vars
=============================================================================
