--------------------------- MODULE Scheduler_proofs ---------------------------
(***************************************************************************)
(* Proofs about Scheduler for every number of goroutines and every total.  *)
(***************************************************************************)
EXTENDS Scheduler, FiniteSetTheorems, TLAPS

-----------------------------------------------------------------------------
(* Type correctness.                                                       *)

THEOREM TypeCorrectRun == Spec => []TypeOK
<1>1. Init => TypeOK
  <2> SUFFICES ASSUME Init  PROVE TypeOK
    OBVIOUS
  <2>1. pc \in [Worker -> PC]
    BY DEF Init, PC
  <2>2. remaining \in Int /\ processed \in Nat
    BY TotalAssumption DEF Init
  <2>3. /\ ctxDone \in BOOLEAN /\ haltErr \in BOOLEAN
        /\ halted \in BOOLEAN /\ call \in {"Run", "RunN"}
        /\ once \in {"new", "running", "done"}
    BY DEF Init
  <2> QED BY <2>1, <2>2, <2>3 DEF TypeOK
<1>2. TypeOK /\ [Next]_vars => TypeOK'
  <2> SUFFICES ASSUME TypeOK, [Next]_vars  PROVE TypeOK'
    OBVIOUS
  <2> USE DEF TypeOK
  <2>1. ASSUME NEW w \in Worker, Step(w)  PROVE TypeOK'
    <3> USE DEF PC, Goto
    <3>1. CASE CheckContext(w)  BY <3>1 DEF CheckContext
    <3>2. CASE Processed(w)  BY <3>2 DEF Processed
    <3>3. CASE Empty(w)  BY <3>3 DEF Empty
    <3>4. CASE Shutdown(w)  BY <3>4 DEF Shutdown
    <3>5. CASE Halt(w)  BY <3>5 DEF Halt
    <3>6. CASE Fail(w)  BY <3>6 DEF Fail
    <3>7. CASE HaltOnce(w)  BY <3>7 DEF HaltOnce
    <3>8. CASE HaltCancel(w)  BY <3>8 DEF HaltCancel
    <3>9. CASE Count(w)  BY <3>9 DEF Count
    <3>10. CASE Cancel(w)  BY <3>10 DEF Cancel
    <3>11. CASE Sleep(w)  BY <3>11 DEF Sleep
    <3> QED BY <2>1, <3>1, <3>2, <3>3, <3>4, <3>5, <3>6, <3>7, <3>8, <3>9, <3>10, <3>11
            DEF Step
  <2>2. CASE Signal  BY <2>2 DEF Signal
  <2>3. CASE UNCHANGED vars  BY <2>3 DEF vars
  <2> QED BY <2>1, <2>2, <2>3 DEF Next, Returned
<1> QED BY <1>1, <1>2, PTL DEF Spec

-----------------------------------------------------------------------------
(* The countdown of RunN.                                                  *)

\* Both sets of goroutines are finite, and no goroutine is in both.
LEMMA Goroutines ==
    /\ IsFiniteSet(Uncounted) /\ Cardinality(Uncounted) \in Nat
    /\ IsFiniteSet(Leaving) /\ Cardinality(Leaving) \in Nat
    /\ Cardinality(Worker) \in Nat
    /\ Cardinality(Uncounted) + Cardinality(Leaving) <= Cardinality(Worker)
<1>1. Uncounted \in SUBSET Worker /\ Leaving \in SUBSET Worker
  BY DEF Uncounted, Leaving
<1>2. IsFiniteSet(Uncounted) /\ IsFiniteSet(Leaving)
  BY <1>1, WorkerAssumption, FS_Subset
<1>3. /\ Cardinality(Uncounted) \in Nat /\ Cardinality(Leaving) \in Nat
      /\ Cardinality(Worker) \in Nat
  BY <1>2, WorkerAssumption, FS_CardinalityType
<1>4. Uncounted \cap Leaving = {}
  BY DEF Uncounted, Leaving
<1>5. Cardinality(Uncounted \cup Leaving) = Cardinality(Uncounted) + Cardinality(Leaving)
  <2>1. Cardinality(Uncounted \cup Leaving)
           = Cardinality(Uncounted) + Cardinality(Leaving) - Cardinality(Uncounted \cap Leaving)
    BY <1>2, FS_Union
  <2>2. Cardinality(Uncounted \cap Leaving) = 0
    BY <1>4, FS_EmptySet
  <2> QED BY <1>3, <2>1, <2>2
<1>6. Cardinality(Uncounted \cup Leaving) <= Cardinality(Worker)
  BY <1>1, WorkerAssumption, FS_Subset
<1> QED BY <1>2, <1>3, <1>5, <1>6

\* A step that leaves the counts alone preserves CountIsExact, as long as no
\* goroutine enters or leaves Uncounted and none comes back from Leaving.
LEMMA CountKept ==
    ASSUME TypeOK, CountIsExact,
           UNCHANGED <<call, remaining, processed>>,
           Uncounted' = Uncounted, Leaving \subseteq Leaving', Leaving' \subseteq Worker
    PROVE  CountIsExact'
<1>1. IsFiniteSet(Leaving') /\ Cardinality(Leaving') \in Nat
  BY WorkerAssumption, FS_Subset, FS_CardinalityType
<1>2. Cardinality(Leaving) <= Cardinality(Leaving')
  BY <1>1, FS_Subset
<1> QED BY <1>1, <1>2, Goroutines DEF CountIsExact, TypeOK

\* RunOnce has carried a crawl through.
LEMMA ProcessedCounts ==
    ASSUME NEW w \in Worker, TypeOK, CountIsExact, Processed(w)
    PROVE  CountIsExact'
<1>1. CASE call = "Run"  BY <1>1 DEF Processed, CountIsExact
<1>2. CASE call = "RunN"
  <2>1. w \notin Uncounted /\ Uncounted' = Uncounted \cup {w}
    BY <1>2 DEF Processed, Goto, Uncounted, TypeOK
  <2>2. Leaving' = Leaving
    BY <1>2 DEF Processed, Goto, Leaving, TypeOK
  <2>3. Cardinality(Uncounted') = Cardinality(Uncounted) + 1
    BY <2>1, Goroutines, FS_AddElement
  <2>4. processed' = processed + 1 /\ remaining' = remaining /\ call' = call
    BY <1>2 DEF Processed
  <2> QED BY <1>2, <2>2, <2>3, <2>4, TotalAssumption, Goroutines DEF CountIsExact, TypeOK
<1> QED BY <1>1, <1>2 DEF TypeOK

\* The atomic decrement: past the total it costs the goroutine.
LEMMA CountCounts ==
    ASSUME NEW w \in Worker, TypeOK, CountIsExact, Count(w)
    PROVE  CountIsExact'
<1>1. w \in Uncounted /\ w \notin Leaving
  BY DEF Count, Uncounted, Leaving
<1>2. Uncounted' = Uncounted \ {w}
  BY DEF Count, Goto, Uncounted, TypeOK
<1>3. Cardinality(Uncounted') = Cardinality(Uncounted) - 1
  BY <1>1, <1>2, Goroutines, FS_RemoveElement
<1>4. processed' = processed /\ remaining' = remaining - 1 /\ call' = call
  BY DEF Count
<1>5. CASE remaining - 1 <= 0
  <2>1. Leaving' = Leaving \cup {w}
    BY <1>5 DEF Count, Goto, Leaving, TypeOK
  <2>2. Cardinality(Leaving') = Cardinality(Leaving) + 1
    BY <2>1, <1>1, Goroutines, FS_AddElement
  <2> QED BY <1>3, <1>4, <1>5, <2>2, TotalAssumption, Goroutines DEF CountIsExact, TypeOK
<1>6. CASE ~(remaining - 1 <= 0)
  BY <1>3, <1>4, <1>6, TotalAssumption, Goroutines DEF CountIsExact, TypeOK
<1> QED BY <1>5, <1>6

LEMMA CountInductive == TypeOK /\ CountIsExact /\ [Next]_vars => CountIsExact'
<1> SUFFICES ASSUME TypeOK, CountIsExact, [Next]_vars  PROVE CountIsExact'
  OBVIOUS
<1> DEFINE Kept == /\ UNCHANGED <<call, remaining, processed>>
                   /\ Uncounted' = Uncounted
                   /\ Leaving \subseteq Leaving'
                   /\ Leaving' \subseteq Worker
<1>1. Kept => CountIsExact'
  BY CountKept
<1>2. ASSUME NEW w \in Worker, Step(w)  PROVE CountIsExact'
  <2>1. CASE Processed(w)  BY <2>1, ProcessedCounts
  <2>2. CASE Count(w)  BY <2>2, CountCounts
  <2>3. CASE ~Processed(w) /\ ~Count(w)
    <3> USE DEF Goto, Uncounted, Leaving, TypeOK
    <3>1. CASE CheckContext(w)  BY <3>1, <1>1 DEF CheckContext
    <3>2. CASE Empty(w)  BY <3>2, <1>1 DEF Empty
    <3>3. CASE Shutdown(w)  BY <3>3, <1>1 DEF Shutdown
    <3>4. CASE Halt(w)  BY <3>4, <1>1 DEF Halt
    <3>5. CASE Fail(w)  BY <3>5, <1>1 DEF Fail
    <3>6. CASE HaltOnce(w)  BY <3>6, <1>1 DEF HaltOnce
    <3>7. CASE HaltCancel(w)  BY <3>7, <1>1 DEF HaltCancel
    <3>8. CASE Cancel(w)  BY <3>8, <1>1 DEF Cancel
    <3>9. CASE Sleep(w)  BY <3>9, <1>1 DEF Sleep
    <3> QED BY <1>2, <2>3, <3>1, <3>2, <3>3, <3>4, <3>5, <3>6, <3>7, <3>8, <3>9 DEF Step
  <2> QED BY <2>1, <2>2, <2>3
<1>3. CASE Signal \/ UNCHANGED vars
  BY <1>3, <1>1 DEF Signal, vars, Uncounted, Leaving
<1> QED BY <1>2, <1>3 DEF Next, Returned

\* The counter and the crawls agree in every reachable state of RunN.
THEOREM CountAgrees == Spec => []CountIsExact
<1>1. Init => CountIsExact
  <2> SUFFICES ASSUME Init  PROVE CountIsExact
    OBVIOUS
  <2>1. Uncounted = {}
    BY DEF Init, Uncounted
  <2> QED BY <2>1, FS_EmptySet, TotalAssumption DEF Init, CountIsExact
<1> QED BY <1>1, CountInductive, TypeCorrectRun, PTL DEF Spec

\* RunN overshoots its total by at most one crawl for each other goroutine,
\* whatever the number of goroutines and the total.
THEOREM OvershootIsBounded == Spec => []OvershootBounded
<1>1. TypeOK /\ CountIsExact => OvershootBounded
  BY Goroutines, TotalAssumption DEF TypeOK, CountIsExact, OvershootBounded
<1> QED BY <1>1, TypeCorrectRun, CountAgrees, PTL

-----------------------------------------------------------------------------
(* The error that Run returns.                                             *)

LEMMA HaltInductive == TypeOK /\ HaltRecorded /\ [Next]_vars => HaltRecorded'
<1> SUFFICES ASSUME TypeOK, HaltRecorded, [Next]_vars  PROVE HaltRecorded'
  OBVIOUS
<1>1. ASSUME NEW w \in Worker, Step(w)  PROVE HaltRecorded'
  <2> USE DEF HaltRecorded, TypeOK, Goto
  <2>1. CASE CheckContext(w)  BY <2>1 DEF CheckContext
  <2>2. CASE Processed(w)  BY <2>2 DEF Processed
  <2>3. CASE Empty(w)  BY <2>3 DEF Empty
  <2>4. CASE Shutdown(w)  BY <2>4 DEF Shutdown
  <2>5. CASE Halt(w)  BY <2>5 DEF Halt
  <2>6. CASE Fail(w)  BY <2>6 DEF Fail
  <2>7. CASE HaltOnce(w)  BY <2>7 DEF HaltOnce
  <2>8. CASE HaltCancel(w)  BY <2>8 DEF HaltCancel
  <2>9. CASE Count(w)  BY <2>9 DEF Count
  <2>10. CASE Cancel(w)  BY <2>10 DEF Cancel
  <2>11. CASE Sleep(w)  BY <2>11 DEF Sleep
  <2> QED BY <1>1, <2>1, <2>2, <2>3, <2>4, <2>5, <2>6, <2>7, <2>8, <2>9, <2>10, <2>11
          DEF Step
<1>2. CASE Signal \/ UNCHANGED vars
  BY <1>2 DEF Signal, vars, HaltRecorded
<1> QED BY <1>1, <1>2 DEF Next, Returned

LEMMA HaltAlways == Spec => []HaltRecorded
<1>1. Init => HaltRecorded
  BY DEF Init, HaltRecorded
<1> QED BY <1>1, HaltInductive, TypeCorrectRun, PTL DEF Spec

\* When every goroutine has left, the error is reported if and only if some
\* call saw the key refused.
THEOREM HaltIsReported == Spec => []HaltReported
<1>1. HaltRecorded => HaltReported
  BY DEF HaltRecorded, HaltReported, AllDone
<1> QED BY <1>1, HaltAlways, PTL

\* The types, the countdown and the record of the refused key together.
THEOREM Inductive == Spec => []IInv
BY TypeCorrectRun, CountAgrees, HaltAlways, PTL DEF IInv
-----------------------------------------------------------------------------
(* The way out once the context is cancelled.                              *)

\* How many steps a goroutine has left then: it may still be in a crawl, count
\* it and, whoever reaches the total or meets the refused key, cancel again.
StepsLeft(place) ==
    CASE place = "done" -> 0
      [] place \in {"loop", "cancel", "haltcancel"} -> 1
      [] place \in {"sleep", "count", "halt"} -> 2
      [] OTHER -> 3

LEMMA StepAdvances ==
    ASSUME TypeOK, NEW w \in Worker, Step(w), ctxDone
    PROVE  /\ StepsLeft(pc'[w]) < StepsLeft(pc[w])
           /\ \A v \in Worker \ {w} : pc'[v] = pc[v]
<1>1. ASSUME NEW next, Goto(w, next)
      PROVE  pc'[w] = next /\ \A v \in Worker \ {w} : pc'[v] = pc[v]
  BY <1>1 DEF Goto, TypeOK
<1>2. CASE CheckContext(w)  BY <1>1, <1>2 DEF CheckContext, StepsLeft
<1>3. CASE Processed(w)  BY <1>1, <1>3 DEF Processed, StepsLeft
<1>4. CASE Empty(w)  BY <1>1, <1>4 DEF Empty, StepsLeft
<1>5. CASE Shutdown(w)  BY <1>1, <1>5 DEF Shutdown, StepsLeft
<1>6. CASE Halt(w)  BY <1>1, <1>6 DEF Halt, StepsLeft
<1>7. CASE Fail(w)  BY <1>1, <1>7 DEF Fail, StepsLeft
<1>8. CASE HaltOnce(w)  BY <1>1, <1>8 DEF HaltOnce, StepsLeft
<1>9. CASE HaltCancel(w)  BY <1>1, <1>9 DEF HaltCancel, StepsLeft
<1>10. CASE Count(w)  BY <1>1, <1>10 DEF Count, StepsLeft
<1>11. CASE Cancel(w)  BY <1>1, <1>11 DEF Cancel, StepsLeft
<1>12. CASE Sleep(w)  BY <1>1, <1>12 DEF Sleep, StepsLeft
<1> QED BY <1>2, <1>3, <1>4, <1>5, <1>6, <1>7, <1>8, <1>9, <1>10, <1>11, <1>12 DEF Step

\* The safety half of CountStops and HaltStops: nothing takes a cancellation
\* back, and after it every step of a goroutine brings it nearer to its return,
\* so that each carries through at most the crawl it is in (scheduler.go Run,
\* RunN).
THEOREM CancelledOnlyLeave ==
    Spec => [][ctxDone => /\ ctxDone'
                          /\ \A w \in Worker :
                                pc'[w] # pc[w] => StepsLeft(pc'[w]) < StepsLeft(pc[w])]_vars
<1>1. ASSUME TypeOK, Next, ctxDone
      PROVE  /\ ctxDone'
             /\ \A w \in Worker :
                   pc'[w] # pc[w] => StepsLeft(pc'[w]) < StepsLeft(pc[w])
  <2>1. ASSUME NEW v \in Worker, Step(v)
        PROVE  /\ ctxDone'
               /\ \A w \in Worker :
                     pc'[w] # pc[w] => StepsLeft(pc'[w]) < StepsLeft(pc[w])
    <3>1. ctxDone'
      BY <1>1, <2>1 DEF Step, CheckContext, Processed, Empty, Shutdown, Halt, Fail, HaltOnce,
         HaltCancel, Count, Cancel, Sleep
    <3> QED BY <1>1, <2>1, <3>1, StepAdvances
  <2>2. CASE Returned  BY <1>1, <2>2 DEF Returned, vars
  <2> QED BY <1>1, <2>1, <2>2 DEF Next, Signal
<1> QED BY <1>1, TypeCorrectRun, PTL DEF Spec
=============================================================================
