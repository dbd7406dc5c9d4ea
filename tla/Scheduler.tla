------------------------------ MODULE Scheduler ------------------------------
(***************************************************************************)
(* crawler.Run and crawler.RunN: the goroutines around RunOnce, the shared *)
(* context, the countdown of RunN and the error the call returns.          *)
(*                                                                         *)
(* RunOnce itself is module Crawler; here it is any of the results its     *)
(* caller tells apart: a crawl that was carried through, an empty queue,   *)
(* "shutdown", ErrGlobalHalt, or another error.                            *)
(***************************************************************************)
EXTENDS Integers, FiniteSets

CONSTANTS
    Worker,    \* the goroutines
    Total      \* RunN's total

ASSUME WorkerAssumption == IsFiniteSet(Worker)
ASSUME TotalAssumption == Total \in Nat \ {0}

VARIABLES
    call,       \* "Run" or "RunN"
    pc,         \* where each goroutine stands
    ctxDone,    \* the shared context is cancelled
    remaining,  \* RunN's atomic counter
    once,       \* haltOnce
    haltErr,    \* the error Run returns is ErrGlobalHalt
    processed,  \* history: crawls carried through by RunOnce
    halted      \* history: some RunOnce returned ErrGlobalHalt

vars == <<call, pc, ctxDone, remaining, once, haltErr, processed, halted>>

PC == {"loop", "run", "sleep", "count", "cancel", "halt", "haltcancel", "done"}

Goto(w, next) == pc' = [pc EXCEPT ![w] = next]

AllDone == \A w \in Worker : pc[w] = "done"

Init ==
    /\ call \in {"Run", "RunN"}
    /\ pc = [w \in Worker |-> "loop"]
    /\ ctxDone = FALSE
    /\ remaining = Total
    /\ once = "new"
    /\ haltErr = FALSE
    /\ processed = 0
    /\ halted = FALSE

\* if ctx.Err() != nil { return }
CheckContext(w) ==
    /\ pc[w] = "loop"
    /\ Goto(w, IF ctxDone THEN "done" ELSE "run")
    /\ UNCHANGED <<call, ctxDone, remaining, once, haltErr, processed, halted>>

\* Any status but "empty" and "shutdown".  Run only adds to its statistics.
Processed(w) ==
    /\ pc[w] = "run"
    /\ IF call = "RunN"
       THEN Goto(w, "count") /\ processed' = processed + 1
       ELSE Goto(w, "loop") /\ UNCHANGED processed
    /\ UNCHANGED <<call, ctxDone, remaining, once, haltErr, halted>>

Empty(w) ==
    /\ pc[w] = "run"
    /\ Goto(w, "sleep")
    /\ UNCHANGED <<call, ctxDone, remaining, once, haltErr, processed, halted>>

Shutdown(w) ==
    /\ pc[w] = "run" /\ ctxDone
    /\ Goto(w, "done")
    /\ UNCHANGED <<call, ctxDone, remaining, once, haltErr, processed, halted>>

\* ErrGlobalHalt: the key was refused.
Halt(w) ==
    /\ pc[w] = "run"
    /\ Goto(w, "halt")
    /\ halted' = TRUE
    /\ UNCHANGED <<call, ctxDone, remaining, once, haltErr, processed>>

\* Any other error of RunOnce ends the goroutine and is dropped.
Fail(w) ==
    /\ pc[w] = "run"
    /\ Goto(w, "done")
    /\ UNCHANGED <<call, ctxDone, remaining, once, haltErr, processed, halted>>

\* Mutant: the body of Do cancels and forgets to record the error.
HaltOnceSilent(w) ==
    /\ pc[w] = "halt"
    /\ \/ once = "new" /\ Goto(w, "haltcancel") /\ once' = "running"
       \/ once = "done" /\ Goto(w, "done") /\ UNCHANGED once
    /\ UNCHANGED <<call, ctxDone, remaining, haltErr, processed, halted>>

\* haltOnce.Do: the first caller records the error and cancels; the others
\* wait until it has.
HaltOnce(w) ==
    /\ pc[w] = "halt"
    /\ \/ once = "new" /\ Goto(w, "haltcancel") /\ once' = "running" /\ haltErr' = TRUE
       \/ once = "done" /\ Goto(w, "done") /\ UNCHANGED <<once, haltErr>>
    /\ UNCHANGED <<call, ctxDone, remaining, processed, halted>>

\* Mutant: the body of Do records the error and does not cancel.
HaltCancelNobody(w) ==
    /\ pc[w] = "haltcancel"
    /\ once' = "done"
    /\ Goto(w, "done")
    /\ UNCHANGED <<call, ctxDone, remaining, haltErr, processed, halted>>

HaltCancel(w) ==
    /\ pc[w] = "haltcancel"
    /\ ctxDone' = TRUE
    /\ once' = "done"
    /\ Goto(w, "done")
    /\ UNCHANGED <<call, remaining, haltErr, processed, halted>>

\* Mutant: off by one, the counter must fall below zero.
CountPast(w) ==
    /\ pc[w] = "count"
    /\ remaining' = remaining - 1
    /\ Goto(w, IF remaining - 1 < 0 THEN "cancel" ELSE "loop")
    /\ UNCHANGED <<call, ctxDone, once, haltErr, processed, halted>>

\* atomic.AddInt64(&remaining, -1) <= 0
Count(w) ==
    /\ pc[w] = "count"
    /\ remaining' = remaining - 1
    /\ Goto(w, IF remaining - 1 <= 0 THEN "cancel" ELSE "loop")
    /\ UNCHANGED <<call, ctxDone, once, haltErr, processed, halted>>

\* Mutant: the goroutine that reaches the total returns without cancelling.
CancelNobody(w) ==
    /\ pc[w] = "cancel"
    /\ Goto(w, "done")
    /\ UNCHANGED <<call, ctxDone, remaining, once, haltErr, processed, halted>>

Cancel(w) ==
    /\ pc[w] = "cancel"
    /\ ctxDone' = TRUE
    /\ Goto(w, "done")
    /\ UNCHANGED <<call, remaining, once, haltErr, processed, halted>>

\* 30 seconds, or the context; when both are ready select takes either.
Sleep(w) ==
    /\ pc[w] = "sleep"
    /\ \/ Goto(w, "loop")
       \/ ctxDone /\ Goto(w, "done")
    /\ UNCHANGED <<call, ctxDone, remaining, once, haltErr, processed, halted>>

\* SIGINT or SIGTERM.
Signal ==
    /\ ~ctxDone
    /\ ctxDone' = TRUE
    /\ UNCHANGED <<call, pc, remaining, once, haltErr, processed, halted>>

\* wg.Wait() has returned.
Returned == AllDone /\ UNCHANGED vars

Step(w) ==
    \/ CheckContext(w)
    \/ Processed(w)
    \/ Empty(w)
    \/ Shutdown(w)
    \/ Halt(w)
    \/ Fail(w)
    \/ HaltOnce(w)
    \/ HaltCancel(w)
    \/ Count(w)
    \/ Cancel(w)
    \/ Sleep(w)

Next ==
    \/ \E w \in Worker : Step(w)
    \/ Signal
    \/ Returned

\* Goroutines are scheduled, RunOnce returns (its calls are bounded by the
\* client's timeout and the context), timers fire.
Fairness == \A w \in Worker : WF_vars(Step(w))

Spec == Init /\ [][Next]_vars /\ Fairness

(***************************************************************************)
(* Properties.                                                             *)
(***************************************************************************)

\* Each variable keeps the type of its Go variable; the counter
\* is a signed integer and does pass below zero.
TypeOK ==
    /\ call \in {"Run", "RunN"}
    /\ pc \in [Worker -> PC]
    /\ ctxDone \in BOOLEAN
    /\ remaining \in Int
    /\ once \in {"new", "running", "done"}
    /\ haltErr \in BOOLEAN
    /\ processed \in Nat
    /\ halted \in BOOLEAN

\* The goroutines that have carried a crawl through and not yet counted it.
Uncounted == {w \in Worker : pc[w] = "count"}

\* The goroutines that can no longer carry a crawl through.
Leaving == {w \in Worker : pc[w] \in {"cancel", "done"}}

\* The counter and the crawls agree, and every count past the total has cost
\* one goroutine: it is what bounds the overshoot.
CountIsExact ==
    call = "RunN" =>
        /\ processed = Total - remaining + Cardinality(Uncounted)
        /\ remaining <= 0 => Cardinality(Leaving) > -remaining

\* haltErr is set inside haltOnce and nowhere else; until somebody is inside,
\* the goroutine that saw the refused key is still on its way there.
HaltRecorded ==
    /\ haltErr <=> once # "new"
    /\ (halted /\ once = "new") => \E w \in Worker : pc[w] = "halt"
    /\ \A w \in Worker : pc[w] = "haltcancel" => once # "new"
    /\ ~halted => once = "new" /\ \A w \in Worker : pc[w] # "halt"

\* The inductive invariant behind OvershootBounded and HaltReported.
IInv == TypeOK /\ CountIsExact /\ HaltRecorded

\* RunN may carry through more crawls than asked for, since the others only
\* notice after the crawl they are in, but never more than one each for the
\* other goroutines (scheduler.go:159).
OvershootBounded == call = "RunN" => processed <= Total + Cardinality(Worker) - 1

\* A refused key is reported exactly when one was seen: whichever goroutine wins
\* haltOnce, when Run returns its error is there (scheduler.go:72-77).
HaltReported == AllDone => (haltErr <=> halted)

\* Once the total is counted down every goroutine leaves, the sleeping ones
\* included, and RunN returns.
CountStops == (call = "RunN" /\ remaining <= 0) ~> AllDone

\* Once the key is refused every goroutine leaves and Run returns.
HaltStops == halted ~> AllDone
=============================================================================
