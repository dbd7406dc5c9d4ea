-------------------------- MODULE RateLimiter_proofs --------------------------
(***************************************************************************)
(* Proofs about RateLimiter for every number of goroutines and every rate. *)
(***************************************************************************)
EXTENDS RateLimiter, FiniteSetTheorems, TLAPS

LEMMA InitIInv == Init => IInv
<1> SUFFICES ASSUME Init  PROVE IInv
  OBVIOUS
<1>1. TypeOK
  <2>1. clock \in Nat /\ last \in Int /\ sent \in Nat
    BY LimiterInterval DEF Init
  <2>2. pc \in [Worker -> {"out", "waiting", "left"}]
    BY DEF Init
  <2>3. slot \in [Worker -> Nat] /\ asked \in [Worker -> Nat]
    BY DEF Init
  <2>4. ctxDone \in BOOLEAN
    BY DEF Init
  <2> QED BY <2>1, <2>2, <2>3, <2>4 DEF TypeOK
<1>2. Waiting = {}
  BY DEF Init, Waiting
<1> QED BY <1>1, <1>2 DEF IInv, SlotsIssued, SlotsApart

\* The slot of the next call is an interval or more beyond every other.
LEMMA NextSlotBeyond ==
    ASSUME IInv
    PROVE  /\ NextSlot \in Int
           /\ NextSlot >= last + Interval
           /\ NextSlot >= clock
           /\ \A w \in Waiting : NextSlot >= slot[w] + Interval
  BY LimiterInterval DEF IInv, TypeOK, SlotsIssued, NextSlot, Waiting

LEMMA ReserveIInv == ASSUME NEW w \in Worker, IInv, Reserve(w)  PROVE IInv'
<1>1. TypeOK'
  BY NextSlotBeyond DEF IInv, TypeOK, Reserve
<1>2. Waiting' = Waiting \cup {w} /\ w \notin Waiting
  BY DEF Waiting, Reserve, IInv, TypeOK
<1>3. /\ last' = NextSlot /\ slot'[w] = NextSlot
      /\ \A v \in Waiting : slot'[v] = slot[v] /\ slot[v] \in Int
  BY DEF Waiting, Reserve, IInv, TypeOK
<1>4. SlotsIssued'
  BY <1>2, <1>3, NextSlotBeyond, LimiterInterval DEF IInv, TypeOK, SlotsIssued
<1>5. SlotsApart'
  BY <1>2, <1>3, NextSlotBeyond DEF IInv, SlotsApart
<1> QED BY <1>1, <1>4, <1>5 DEF IInv

\* A step that hands out no slot keeps every slot where it was.
LEMMA OtherIInv ==
    ASSUME IInv, TypeOK', Waiting' \subseteq Waiting, slot' = slot, last' >= last
    PROVE  IInv'
<1>1. \A w \in Waiting : slot[w] \in Int
  BY DEF IInv, TypeOK, Waiting
<1>2. last \in Int /\ last' \in Int
  BY DEF IInv, TypeOK
<1> QED BY <1>1, <1>2 DEF IInv, SlotsIssued, SlotsApart

LEMMA StepIInv == IInv /\ [Next]_vars => IInv'
<1> SUFFICES ASSUME IInv, [Next]_vars  PROVE IInv'
  OBVIOUS
<1>1. ASSUME NEW w \in Worker, Step(w)  PROVE IInv'
  <2>1. CASE Reserve(w)  BY <2>1, ReserveIInv
  <2>2. CASE Pass(w)
    <3>1. TypeOK' /\ Waiting' = Waiting /\ slot' = slot /\ last' = NextSlot
      BY <2>2, NextSlotBeyond DEF Pass, IInv, TypeOK, Waiting
    <3> QED BY <3>1, NextSlotBeyond, LimiterInterval, OtherIInv DEF IInv, TypeOK
  <2>3. CASE TimerFires(w)
    BY <2>3, OtherIInv DEF TimerFires, IInv, TypeOK, Waiting
  <2>4. CASE WaitCancelled(w)
    BY <2>4, OtherIInv DEF WaitCancelled, IInv, TypeOK, Waiting
  <2>5. CASE Leave(w)
    BY <2>5, OtherIInv DEF Leave, IInv, TypeOK, Waiting
  <2> QED BY <1>1, <2>1, <2>2, <2>3, <2>4, <2>5 DEF Step
<1>2. CASE CancelContext
  BY <1>2, OtherIInv DEF CancelContext, IInv, TypeOK, Waiting
<1>3. CASE Tick
  BY <1>3, OtherIInv DEF Tick, IInv, TypeOK, Waiting
<1>4. CASE UNCHANGED vars
  BY <1>4, OtherIInv DEF vars, IInv, TypeOK, Waiting
<1> QED BY <1>1, <1>2, <1>3, <1>4 DEF Next

\* The limiter never goes back behind a slot that somebody waits for.
THEOREM Inductive == Spec => []IInv
BY InitIInv, StepIInv, PTL DEF Spec

\* No two goroutines are ever given slots closer than the interval, however
\* many there are and whatever the rate.
THEOREM SlotsAlwaysApart == Spec => []SlotsApart
<1>1. IInv => SlotsApart
  BY DEF IInv
<1> QED BY Inductive, <1>1, PTL

-----------------------------------------------------------------------------
(* The rate.                                                               *)

Due(t) == {w \in Waiting : slot[w] <= t}

\* Requests that are out, or will be at a time t, have had a slot each: whatever
\* the timers do, the slots up to t are no more than the intervals up to t.
RateInv ==
    /\ (sent + Cardinality(Waiting) - 1) * Interval <= last
    /\ \A t \in Nat : t >= clock => (sent + Cardinality(Due(t)) - 1) * Interval <= t

LEMMA Scale ==
    /\ \A a, b \in Int : a <= b => a * Interval <= b * Interval
    /\ \A a \in Int : (a + 1) * Interval = a * Interval + Interval
    /\ \A a \in Int : a * Interval \in Int
BY LimiterInterval

LEMMA Counts ==
    ASSUME NEW S \in SUBSET Worker
    PROVE  /\ IsFiniteSet(S) /\ Cardinality(S) \in Nat
           /\ \A R \in SUBSET S : IsFiniteSet(R) /\ Cardinality(R) \in Nat
                                    /\ Cardinality(R) <= Cardinality(S)
           /\ \A w \in Worker \ S : Cardinality(S \cup {w}) = Cardinality(S) + 1
           /\ \A w \in S : Cardinality(S \ {w}) = Cardinality(S) - 1
BY LimiterWorkers, FS_Subset, FS_CardinalityType, FS_AddElement, FS_RemoveElement

\* A call is given the slot n: the n-th since the start, or a later one.
LEMMA Issued ==
    ASSUME IInv, RateInv, last' = NextSlot, NEW n \in Nat,
           n = sent + Cardinality(Waiting)
    PROVE  n * Interval <= last'
<1>1. Waiting \in SUBSET Worker /\ n - 1 \in Int  BY DEF Waiting
<1>2. n * Interval = (n - 1) * Interval + Interval /\ (n - 1) * Interval \in Int
  BY <1>1, Scale
<1>3. (n - 1) * Interval <= last
  <2>1. sent \in Nat /\ Cardinality(Waiting) \in Nat  BY <1>1, Counts DEF IInv, TypeOK
  <2>2. n - 1 = sent + Cardinality(Waiting) - 1  BY <2>1
  <2> QED BY <2>2 DEF RateInv
<1> QED BY <1>2, <1>3, NextSlotBeyond, LimiterInterval DEF IInv, TypeOK

LEMMA RateReserve == ASSUME NEW w \in Worker, IInv, RateInv, Reserve(w)  PROVE RateInv'
<1>1. /\ Waiting' = Waiting \cup {w} /\ w \notin Waiting /\ Waiting \in SUBSET Worker
      /\ \A v \in Waiting : slot'[v] = slot[v] /\ slot[v] <= last /\ slot[v] \in Int
      /\ slot'[w] = NextSlot /\ last' = NextSlot /\ sent' = sent /\ clock' = clock
      /\ sent \in Nat /\ clock \in Nat /\ last \in Int
  BY DEF Waiting, Reserve, IInv, TypeOK, SlotsIssued
<1> PICK n : n = sent + Cardinality(Waiting)  OBVIOUS
<1>2. n \in Nat /\ sent' + Cardinality(Waiting') - 1 = n /\ n * Interval \in Int
  <2>1. Cardinality(Waiting) \in Nat /\ Cardinality(Waiting') = Cardinality(Waiting) + 1
    BY <1>1, Counts
  <2>2. n \in Nat /\ sent + (Cardinality(Waiting) + 1) - 1 = n  BY <1>1, <2>1
  <2> QED BY <1>1, <2>1, <2>2, Scale
<1>3. n * Interval <= last'  BY <1>1, <1>2, Issued
<1>4. ASSUME NEW t \in Nat, t >= clock  PROVE (sent' + Cardinality(Due(t)') - 1) * Interval <= t
  <2>1. CASE t >= NextSlot
    <3>1. Due(t)' = Waiting'
      BY <1>1, <2>1, NextSlotBeyond, LimiterInterval DEF Due
    <3> QED BY <1>1, <1>2, <1>3, <2>1, <3>1, NextSlotBeyond
  <2>2. CASE ~(t >= NextSlot)
    <3>1. Due(t)' = Due(t)  BY <1>1, <2>2, NextSlotBeyond DEF Due
    <3> QED BY <1>1, <1>4, <3>1 DEF RateInv
  <2> QED BY <2>1, <2>2
<1> QED BY <1>1, <1>2, <1>3, <1>4 DEF RateInv

LEMMA RatePass == ASSUME NEW w \in Worker, IInv, RateInv, Pass(w)  PROVE RateInv'
<1>1. /\ Waiting' = Waiting /\ Waiting \in SUBSET Worker /\ slot' = slot
      /\ \A v \in Waiting : slot[v] <= last /\ slot[v] \in Int
      /\ last' = NextSlot /\ NextSlot <= clock /\ sent' = sent + 1 /\ clock' = clock
      /\ sent \in Nat /\ clock \in Nat /\ last \in Int
  BY DEF Waiting, Pass, IInv, TypeOK, SlotsIssued
<1> PICK n : n = sent + Cardinality(Waiting)  OBVIOUS
<1>2. n \in Nat /\ sent' + Cardinality(Waiting') - 1 = n /\ n * Interval \in Int
  <2>1. Cardinality(Waiting) \in Nat  BY <1>1, Counts
  <2>2. n \in Nat /\ (sent + 1) + Cardinality(Waiting) - 1 = n  BY <1>1, <2>1
  <2> QED BY <1>1, <2>1, <2>2, Scale
<1>3. n * Interval <= last'  BY <1>1, <1>2, Issued
<1>4. ASSUME NEW t \in Nat, t >= clock  PROVE (sent' + Cardinality(Due(t)') - 1) * Interval <= t
  <2>1. Due(t)' = Waiting'
    BY <1>1, <1>4, NextSlotBeyond, LimiterInterval DEF Due
  <2> QED BY <1>1, <1>2, <1>3, <1>4, <2>1, NextSlotBeyond
<1> QED BY <1>1, <1>2, <1>3, <1>4 DEF RateInv

\* Due calls that are sent were counted already; cancelled ones are no more.
LEMMA RateTimer == ASSUME NEW w \in Worker, IInv, RateInv, TimerFires(w)  PROVE RateInv'
<1>1. /\ Waiting' = Waiting \ {w} /\ w \in Waiting /\ Waiting \in SUBSET Worker /\ slot' = slot
      /\ last' = last /\ sent' = sent + 1 /\ clock' = clock /\ slot[w] <= clock
      /\ sent \in Nat /\ clock \in Nat /\ slot[w] \in Int
  BY DEF Waiting, TimerFires, IInv, TypeOK
<1>2. sent' + Cardinality(Waiting') - 1 = sent + Cardinality(Waiting) - 1
  BY <1>1, Counts
<1>3. ASSUME NEW t \in Nat, t >= clock
      PROVE  sent' + Cardinality(Due(t)') - 1 = sent + Cardinality(Due(t)) - 1
  <2>1. Due(t)' = Due(t) \ {w} /\ w \in Due(t) /\ Due(t) \in SUBSET Worker
    BY <1>1, <1>3 DEF Due
  <2> QED BY <1>1, <2>1, Counts
<1>4. (sent' + Cardinality(Waiting') - 1) * Interval <= last'
  <2>1. (sent + Cardinality(Waiting) - 1) * Interval <= last  BY DEF RateInv
  <2> QED BY <1>1, <1>2, <2>1, Zenon
<1>5. ASSUME NEW t \in Nat, t >= clock  PROVE (sent' + Cardinality(Due(t)') - 1) * Interval <= t
  <2>1. (sent + Cardinality(Due(t)) - 1) * Interval <= t  BY <1>5 DEF RateInv
  <2> QED BY <1>3, <1>5, <2>1, Zenon
<1> QED BY <1>1, <1>4, <1>5 DEF RateInv

LEMMA RateOther ==
    ASSUME IInv, RateInv, IInv', Waiting' \subseteq Waiting,
           UNCHANGED <<slot, sent, last>>, clock' >= clock
    PROVE  RateInv'
<1>1. Waiting \in SUBSET Worker /\ sent \in Nat /\ last \in Int /\ clock \in Nat /\ clock' \in Nat
  BY DEF Waiting, IInv, TypeOK
<1>2. (sent + Cardinality(Waiting') - 1) * Interval <= last
  <2>1. /\ Cardinality(Waiting') \in Nat /\ Cardinality(Waiting) \in Nat
        /\ Cardinality(Waiting') <= Cardinality(Waiting)
    BY <1>1, Counts
  <2> PICK a : a = sent + Cardinality(Waiting') - 1  OBVIOUS
  <2> PICK b : b = sent + Cardinality(Waiting) - 1  OBVIOUS
  <2>2. a \in Int /\ b \in Int /\ a <= b  BY <1>1, <2>1
  <2>3. a * Interval <= b * Interval /\ a * Interval \in Int /\ b * Interval \in Int
    BY <2>2, Scale
  <2> QED BY <1>1, <2>3 DEF RateInv
<1>3. ASSUME NEW t \in Nat, t >= clock'  PROVE (sent + Cardinality(Due(t)') - 1) * Interval <= t
  <2>1. Due(t)' \in SUBSET Due(t) /\ Due(t) \in SUBSET Worker
    BY <1>1 DEF Due
  <2>2. /\ Cardinality(Due(t)') \in Nat /\ Cardinality(Due(t)) \in Nat
        /\ Cardinality(Due(t)') <= Cardinality(Due(t))
    BY <2>1, Counts
  <2> PICK a : a = sent + Cardinality(Due(t)') - 1  OBVIOUS
  <2> PICK b : b = sent + Cardinality(Due(t)) - 1  OBVIOUS
  <2>3. a \in Int /\ b \in Int /\ a <= b  BY <1>1, <2>2
  <2>4. a * Interval <= b * Interval /\ a * Interval \in Int /\ b * Interval \in Int
    BY <2>3, Scale
  <2>5. b * Interval <= t  BY <1>1, <1>3 DEF RateInv
  <2> QED BY <2>4, <2>5
<1> QED BY <1>2, <1>3 DEF RateInv

LEMMA RateStep == IInv /\ RateInv /\ [Next]_vars => RateInv'
<1> SUFFICES ASSUME IInv, RateInv, [Next]_vars  PROVE RateInv'
  OBVIOUS
<1>1. IInv'  BY StepIInv
<1>2. ASSUME NEW w \in Worker, Step(w)  PROVE RateInv'
  <2>1. CASE Reserve(w) \/ Pass(w) \/ TimerFires(w)
    BY <2>1, RateReserve, RatePass, RateTimer
  <2>2. CASE WaitCancelled(w)
    BY <1>1, <2>2, RateOther DEF WaitCancelled, IInv, TypeOK, Waiting
  <2>3. CASE Leave(w)
    BY <1>1, <2>3, RateOther DEF Leave, IInv, TypeOK, Waiting
  <2> QED BY <1>2, <2>1, <2>2, <2>3 DEF Step
<1>3. CASE CancelContext
  BY <1>1, <1>3, RateOther DEF CancelContext, IInv, TypeOK, Waiting
<1>4. CASE Tick
  BY <1>1, <1>4, RateOther DEF Tick, IInv, TypeOK, Waiting
<1>5. CASE UNCHANGED vars
  BY <1>1, <1>5, RateOther DEF vars, IInv, TypeOK, Waiting
<1> QED BY <1>2, <1>3, <1>4, <1>5 DEF Next

\* Late timers, cancelled calls and free slots never add up to more than one
\* request per interval, for every rate and number of goroutines.
THEOREM RateIsBounded == Spec => []RateBounded
<1>1. Init => RateInv
  <2> SUFFICES ASSUME Init  PROVE RateInv
    OBVIOUS
  <2>1. Waiting = {} /\ \A t : Due(t) = {}  BY DEF Init, Waiting, Due
  <2>2. Cardinality({}) = 0  BY FS_EmptySet
  <2>3. (0 + 0 - 1) * Interval = -Interval  BY LimiterInterval
  <2> QED BY <2>1, <2>2, <2>3, LimiterInterval DEF Init, RateInv
<1>2. IInv /\ RateInv => RateBounded
  <2> SUFFICES ASSUME IInv, RateInv  PROVE (sent - 1) * Interval <= clock
    BY DEF RateBounded
  <2>1. clock \in Nat /\ sent \in Nat /\ Due(clock) \in SUBSET Worker
    BY DEF IInv, TypeOK, Due, Waiting
  <2>2. Cardinality(Due(clock)) \in Nat  BY <2>1, Counts
  <2> PICK a : a = sent - 1  OBVIOUS
  <2> PICK b : b = sent + Cardinality(Due(clock)) - 1  OBVIOUS
  <2>3. a \in Int /\ b \in Int /\ a <= b  BY <2>1, <2>2
  <2>4. a * Interval <= b * Interval /\ a * Interval \in Int /\ b * Interval \in Int
    BY <2>3, Scale
  <2>5. b * Interval <= clock  BY <2>1 DEF RateInv
  <2> QED BY <2>1, <2>4, <2>5
<1> QED BY <1>1, <1>2, RateStep, Inductive, PTL DEF Spec

-----------------------------------------------------------------------------
(* The wait.                                                               *)

\* The calls that hold a slot after t, and those that have left with one.
Behind(t) == {w \in Worker : pc[w] = "left" \/ (pc[w] = "waiting" /\ slot[w] > t)}

\* The limiter is ahead of a time t by an interval for each of them at most.
WaitInv ==
    /\ WaitBounded
    /\ \A t \in Nat : t >= clock => last - t <= Cardinality(Behind(t)) * Interval

LEMMA WaitReserve == ASSUME NEW w \in Worker, IInv, WaitInv, Reserve(w)  PROVE WaitInv'
<1>1. /\ Waiting' = Waiting \cup {w} /\ w \notin Waiting
      /\ \A v \in Waiting : slot'[v] = slot[v] /\ asked'[v] = asked[v]
      /\ pc[w] = "out" /\ pc'[w] = "waiting" /\ \A v \in Worker \ {w} : pc'[v] = pc[v]
      /\ \A v \in Worker \ {w} : slot'[v] = slot[v]
      /\ slot'[w] = NextSlot /\ asked'[w] = clock /\ last' = NextSlot /\ clock' = clock
      /\ clock \in Nat /\ last \in Int /\ NextSlot > clock
  BY DEF Waiting, Reserve, IInv, TypeOK
<1>2. NextSlot = last + Interval /\ NextSlot \in Int  BY <1>1, LimiterInterval DEF NextSlot
<1>3. \A t : Behind(t) \in SUBSET Worker /\ w \notin Behind(t)  BY <1>1 DEF Behind
<1>4. ASSUME NEW t \in Nat, t >= clock
      PROVE  /\ Cardinality(Behind(t)) \in Nat
             /\ last + Interval - t <= (Cardinality(Behind(t)) + 1) * Interval
  <2>1. last - t <= Cardinality(Behind(t)) * Interval  BY <1>4 DEF WaitInv
  <2>2. Cardinality(Behind(t)) \in Nat  BY <1>3, Counts
  <2>3. /\ (Cardinality(Behind(t)) + 1) * Interval = Cardinality(Behind(t)) * Interval + Interval
        /\ Cardinality(Behind(t)) * Interval \in Int
    BY <2>2, Scale
  <2> QED BY <1>1, <2>1, <2>2, <2>3, LimiterInterval
<1>5. slot'[w] - asked'[w] <= Cardinality(Worker) * Interval
  <2> PICK n \in Nat : n = Cardinality(Behind(clock)) + 1  BY <1>1, <1>4
  <2>1. Cardinality(Behind(clock) \cup {w}) = n  BY <1>3, Counts
  <2>2. Behind(clock) \cup {w} \in SUBSET Worker  BY <1>3
  <2>3. n <= Cardinality(Worker) /\ Cardinality(Worker) \in Nat  BY <2>1, <2>2, Counts
  <2>4. n * Interval <= Cardinality(Worker) * Interval
        /\ n * Interval \in Int /\ Cardinality(Worker) * Interval \in Int
    BY <2>3, Scale
  <2>5. last + Interval - clock <= n * Interval  BY <1>1, <1>4
  <2>6. slot'[w] - asked'[w] = last + Interval - clock  BY <1>1, <1>2, LimiterInterval
  <2> PICK a : a = n * Interval  OBVIOUS
  <2> PICK b : b = Cardinality(Worker) * Interval  OBVIOUS
  <2> PICK d : d = last + Interval - clock  OBVIOUS
  <2>7. d \in Int /\ a \in Int /\ b \in Int /\ d <= a /\ a <= b
    BY <1>1, <2>4, <2>5, LimiterInterval
  <2>8. d <= b  BY <2>7
  <2> QED BY <2>6, <2>8
<1>6. WaitBounded'  BY <1>1, <1>5 DEF WaitInv, WaitBounded
<1>7. ASSUME NEW t \in Nat, t >= clock  PROVE last' - t <= Cardinality(Behind(t)') * Interval
  <2>1. CASE t < NextSlot
    <3>1. Behind(t)' = Behind(t) \cup {w}  BY <1>1, <2>1 DEF Behind
    <3>2. Cardinality(Behind(t)') = Cardinality(Behind(t)) + 1  BY <1>3, <3>1, Counts
    <3>3. last + Interval - t <= Cardinality(Behind(t)') * Interval  BY <1>4, <1>7, <3>2
    <3>4. last' - t = last + Interval - t  BY <1>1, <1>2, LimiterInterval
    <3> QED BY <3>3, <3>4, Zenon
  <2>2. CASE ~(t < NextSlot)
    <3>1. Behind(t)' \in SUBSET Worker  BY DEF Behind
    <3>2. Cardinality(Behind(t)') \in Nat  BY <3>1, Counts
    <3>3. Cardinality(Behind(t)') * Interval >= 0 /\ Cardinality(Behind(t)') * Interval \in Int
      BY <3>2, LimiterInterval
    <3> QED BY <1>1, <1>2, <2>2, <3>3
  <2> QED BY <2>1, <2>2
<1> QED BY <1>1, <1>6, <1>7 DEF WaitInv

LEMMA WaitPass == ASSUME NEW w \in Worker, IInv, WaitInv, Pass(w)  PROVE WaitInv'
<1>1. /\ UNCHANGED <<pc, slot, asked, clock>> /\ last' = NextSlot /\ NextSlot <= clock
      /\ clock \in Nat /\ NextSlot \in Int
  BY NextSlotBeyond DEF Pass, IInv, TypeOK
<1>2. WaitBounded'  BY <1>1 DEF WaitInv, WaitBounded, Waiting
<1>3. ASSUME NEW t \in Nat, t >= clock  PROVE last' - t <= Cardinality(Behind(t)') * Interval
  <2>1. Behind(t)' \in SUBSET Worker  BY DEF Behind
  <2>2. Cardinality(Behind(t)') \in Nat  BY <2>1, Counts
  <2>3. Cardinality(Behind(t)') * Interval >= 0 /\ Cardinality(Behind(t)') * Interval \in Int
    BY <2>2, LimiterInterval
  <2> QED BY <1>1, <1>3, <2>3
<1> QED BY <1>1, <1>2, <1>3 DEF WaitInv

\* A slot that is given up stays behind: its caller has left for good.
LEMMA WaitOther ==
    ASSUME IInv, IInv', WaitInv, Waiting' \subseteq Waiting, UNCHANGED <<slot, asked, last>>,
           clock' >= clock, \A t \in Nat : t >= clock' => Behind(t) \subseteq Behind(t)'
    PROVE  WaitInv'
<1>1. clock \in Nat /\ clock' \in Nat /\ last \in Int  BY DEF IInv, TypeOK
<1>2. WaitBounded'  BY DEF WaitInv, WaitBounded
<1>3. ASSUME NEW t \in Nat, t >= clock'  PROVE last' - t <= Cardinality(Behind(t)') * Interval
  <2>1. Behind(t)' \in SUBSET Worker /\ Behind(t) \in SUBSET Behind(t)'  BY <1>3 DEF Behind
  <2> PICK a : a = Cardinality(Behind(t))  OBVIOUS
  <2> PICK b : b = Cardinality(Behind(t)')  OBVIOUS
  <2>2. a \in Nat /\ b \in Nat /\ a <= b  BY <2>1, Counts
  <2>3. a * Interval <= b * Interval /\ a * Interval \in Int /\ b * Interval \in Int
    BY <2>2, Scale
  <2>4. last - t <= a * Interval  BY <1>1, <1>3 DEF WaitInv
  <2> QED BY <1>1, <2>3, <2>4
<1> QED BY <1>2, <1>3 DEF WaitInv

LEMMA WaitStep == IInv /\ WaitInv /\ [Next]_vars => WaitInv'
<1> SUFFICES ASSUME IInv, WaitInv, [Next]_vars  PROVE WaitInv'
  OBVIOUS
<1>1. IInv'  BY StepIInv
<1> USE DEF IInv, TypeOK, Waiting, Behind
<1>2. ASSUME NEW w \in Worker, Step(w)  PROVE WaitInv'
  <2>1. CASE Reserve(w) \/ Pass(w)  BY <2>1, WaitReserve, WaitPass
  <2>2. CASE TimerFires(w)  BY <1>1, <2>2, WaitOther DEF TimerFires
  <2>3. CASE WaitCancelled(w)  BY <1>1, <2>3, WaitOther DEF WaitCancelled
  <2>4. CASE Leave(w)  BY <1>1, <2>4, WaitOther DEF Leave
  <2> QED BY <1>2, <2>1, <2>2, <2>3, <2>4 DEF Step
<1>3. CASE CancelContext  BY <1>1, <1>3, WaitOther DEF CancelContext
<1>4. CASE Tick  BY <1>1, <1>4, WaitOther DEF Tick
<1>5. CASE UNCHANGED vars  BY <1>1, <1>5, WaitOther DEF vars
<1> QED BY <1>2, <1>3, <1>4, <1>5 DEF Next

\* No call waits longer than one interval for each goroutine, cancelled calls
\* that never give their slot back included.
THEOREM WaitIsBounded == Spec => []WaitBounded
<1>1. Init => WaitInv
  <2> SUFFICES ASSUME Init  PROVE WaitInv
    OBVIOUS
  <2>1. Waiting = {} /\ \A t : Behind(t) = {}  BY DEF Init, Waiting, Behind
  <2>2. Cardinality({}) = 0 /\ 0 * Interval = 0  BY FS_EmptySet, LimiterInterval
  <2>3. WaitBounded  BY <2>1 DEF WaitBounded
  <2>4. ASSUME NEW t \in Nat  PROVE last - t <= Cardinality(Behind(t)) * Interval
    <3>1. Cardinality(Behind(t)) * Interval = 0  BY <2>1, <2>2
    <3>2. last - t <= 0  BY LimiterInterval DEF Init
    <3> QED BY <3>1, <3>2
  <2> QED BY <2>3, <2>4 DEF WaitInv
<1>2. WaitInv => WaitBounded  BY DEF WaitInv
<1> QED BY <1>1, <1>2, WaitStep, Inductive, PTL DEF Spec
=============================================================================
