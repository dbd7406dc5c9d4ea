----------------------------- MODULE RateLimiter -----------------------------
(***************************************************************************)
(* ratelimit.Limiter as the goroutines of one crawler process share it:    *)
(* each crawl calls Wait before each of its two API calls, with the        *)
(* context that all goroutines share.                                      *)
(***************************************************************************)
EXTENDS Integers, FiniteSets

CONSTANTS
    Worker,    \* the goroutines that share the limiter
    Interval,  \* 60s / ratePerMin, in ticks
    MaxTime    \* bound: the clock stops here

ASSUME LimiterWorkers == IsFiniteSet(Worker)
ASSUME LimiterInterval == Interval \in Nat \ {0} /\ MaxTime \in Nat

VARIABLES
    clock,    \* time.Now()
    ctxDone,  \* the shared context is cancelled
    last,     \* Limiter.last
    pc,       \* "out" of Wait, "waiting" in its select, or "left" for good
    slot,     \* the slot a waiting call has reserved
    asked,    \* history: when that call reserved it
    sent      \* history: how many calls have returned nil

vars == <<clock, ctxDone, last, pc, slot, asked, sent>>

Init ==
    /\ clock = 0
    /\ ctxDone = FALSE
    /\ last = -Interval             \* the zero time.Time is long past
    /\ pc = [w \in Worker |-> "out"]
    /\ slot = [w \in Worker |-> 0]
    /\ asked = [w \in Worker |-> 0]
    /\ sent = 0

\* Mutant: the next slot is counted from now.
NextSlotFromNow == IF last + Interval > clock THEN clock + Interval ELSE clock

\* The slot the next call gets: an interval after the last, or now.
NextSlot == IF last + Interval > clock THEN last + Interval ELSE clock

\* Mutant: last moves only when the slot is free at once.
ReserveKeepingLast(w) ==
    /\ pc[w] = "out" /\ NextSlot > clock
    /\ pc' = [pc EXCEPT ![w] = "waiting"]
    /\ slot' = [slot EXCEPT ![w] = NextSlot]
    /\ asked' = [asked EXCEPT ![w] = clock]
    /\ UNCHANGED <<clock, ctxDone, last, sent>>

\* The critical section, for a call that has to wait.
Reserve(w) ==
    /\ pc[w] = "out" /\ NextSlot > clock
    /\ last' = NextSlot
    /\ pc' = [pc EXCEPT ![w] = "waiting"]
    /\ slot' = [slot EXCEPT ![w] = NextSlot]
    /\ asked' = [asked EXCEPT ![w] = clock]
    /\ UNCHANGED <<clock, ctxDone, sent>>

\* Mutant: last is not moved up to now.
PassKeepingLast(w) ==
    /\ pc[w] = "out" /\ NextSlot <= clock
    /\ sent' = sent + 1
    /\ UNCHANGED <<clock, ctxDone, last, pc, slot, asked>>

\* The critical section, for a call whose slot is free: it returns nil even
\* when the context is cancelled.
Pass(w) ==
    /\ pc[w] = "out" /\ NextSlot <= clock
    /\ last' = NextSlot
    /\ sent' = sent + 1
    /\ UNCHANGED <<clock, ctxDone, pc, slot, asked>>

\* The timer of the select fires, on time or late.
TimerFires(w) ==
    /\ pc[w] = "waiting" /\ clock >= slot[w]
    /\ pc' = [pc EXCEPT ![w] = "out"]
    /\ sent' = sent + 1
    /\ UNCHANGED <<clock, ctxDone, last, slot, asked>>

\* Mutant: the caller tries again instead of leaving.
WaitCancelledRetries(w) ==
    /\ pc[w] = "waiting" /\ ctxDone
    /\ pc' = [pc EXCEPT ![w] = "out"]
    /\ UNCHANGED <<clock, ctxDone, last, slot, asked, sent>>

\* ctx.Err(): the slot is not given back, RunOnce returns "shutdown".
WaitCancelled(w) ==
    /\ pc[w] = "waiting" /\ ctxDone
    /\ pc' = [pc EXCEPT ![w] = "left"]
    /\ UNCHANGED <<clock, ctxDone, last, slot, asked, sent>>

\* Outside Wait, a goroutine that sees the context cancelled ends.
Leave(w) ==
    /\ pc[w] = "out" /\ ctxDone
    /\ pc' = [pc EXCEPT ![w] = "left"]
    /\ UNCHANGED <<clock, ctxDone, last, slot, asked, sent>>

\* A signal, or another goroutine's refused key.
CancelContext ==
    /\ ~ctxDone
    /\ ctxDone' = TRUE
    /\ UNCHANGED <<clock, last, pc, slot, asked, sent>>

Tick ==
    /\ clock < MaxTime
    /\ clock' = clock + 1
    /\ UNCHANGED <<ctxDone, last, pc, slot, asked, sent>>

Step(w) == Reserve(w) \/ Pass(w) \/ TimerFires(w) \/ WaitCancelled(w) \/ Leave(w)

Next ==
    \/ \E w \in Worker : Step(w)
    \/ CancelContext
    \/ Tick

Spec == Init /\ [][Next]_vars

(***************************************************************************)
(* Properties.                                                             *)
(***************************************************************************)

Waiting == {w \in Worker : pc[w] = "waiting"}

\* Two calls that wait at the same time hold slots at least an interval apart,
\* whatever the order in which they took the mutex (limiter.go:29-39).
SlotsApart ==
    \A v, w \in Waiting : v # w => slot[v] >= slot[w] + Interval \/ slot[w] >= slot[v] + Interval

\* Counted from the start the rate is never exceeded: late timers, cancelled
\* calls and free slots never add up to more than one request per interval
\* (limiter.go:10-12).  Requests themselves may come closer than an interval
\* when a timer is late: it is the slots that are spaced.
RateBounded == (sent - 1) * Interval <= clock

\* No call waits longer than one interval for each goroutine: the queue of
\* slots holds at most one for each of them, although the slot of a cancelled
\* call is never given back (limiter.go:44-48).
WaitBounded == \A w \in Waiting : slot[w] - asked[w] <= Cardinality(Worker) * Interval

\* The types of the limiter and of the calls inside Wait.
TypeOK ==
    /\ clock \in Nat /\ last \in Int /\ sent \in Nat
    /\ ctxDone \in BOOLEAN
    /\ pc \in [Worker -> {"out", "waiting", "left"}]
    /\ slot \in [Worker -> Nat] /\ asked \in [Worker -> Nat]

\* Every reserved slot came from the limiter, which has not gone back since.
SlotsIssued == \A w \in Waiting : slot[w] <= last

\* The inductive invariant behind SlotsApart.
IInv == TypeOK /\ SlotsIssued /\ SlotsApart
=============================================================================
