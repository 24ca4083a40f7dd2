-------------------------- MODULE LoadGeneratorProofs --------------------------
(***************************************************************************)
(* Theorems about LoadGenerator for every rate, deadline and clock bound,  *)
(* and about its percentiles for every number of latencies, checked by     *)
(* TLAPS.                                                                  *)
(***************************************************************************)
EXTENDS LoadGenerator, TLAPS

-----------------------------------------------------------------------------
(* Arithmetic of slots *)

\* The next slot is one interval later.
LEMMA NextSlot ==
  ASSUME NEW n \in Nat
  PROVE  /\ n * Interval \in Nat
         /\ (n + 1) * Interval = n * Interval + Interval
  BY LoadAssumption

\* Division rounds down: between two slots it gives the earlier one.
LEMMA SlotOf ==
  ASSUME NEW n \in Nat, NEW t \in Nat, n * Interval <= t, t < (n + 1) * Interval
  PROVE  t \div Interval = n
<1> DEFINE q == t \div Interval
<1>1. Interval \in Nat /\ Interval > 0
  BY LoadAssumption
<1>2. q \in Nat /\ q * Interval <= t /\ t < q * Interval + Interval
  BY <1>1
<1> HIDE DEF q
<1>3. ~ (q < n)
  <2>1. ASSUME q < n PROVE (q + 1) * Interval <= n * Interval
    BY <1>1, <1>2, <2>1
  <2> QED
    BY <1>1, <1>2, <2>1, NextSlot
<1>4. ~ (n < q)
  <2>1. ASSUME n < q PROVE (n + 1) * Interval <= q * Interval
    BY <1>1, <1>2, <2>1
  <2> QED
    BY <1>1, <1>2, <2>1
<1>5. q = n
  BY <1>2, <1>3, <1>4
<1> QED
  BY <1>5 DEF q

\* A whole number of slots that fits in a time is no more than the quotient.
LEMMA SlotsFit ==
  ASSUME NEW n \in Nat, NEW t \in Nat, n * Interval <= t
  PROVE  n <= t \div Interval
<1> DEFINE q == t \div Interval
<1>1. Interval \in Nat /\ Interval > 0
  BY LoadAssumption
<1>2. q \in Nat /\ t < q * Interval + Interval
  BY <1>1
<1> HIDE DEF q
<1>3. ASSUME q < n PROVE FALSE
  <2>1. (q + 1) * Interval <= n * Interval
    BY <1>1, <1>2, <1>3
  <2> QED
    BY <1>1, <1>2, <2>1, NextSlot
<1> QED
  BY <1>2, <1>3 DEF q

-----------------------------------------------------------------------------
(* Invariants *)

\* The deadline bounds the requests as well without the division.
LEMMA DurationBoundsSlots ==
  ASSUME NEW n \in Nat, n * Interval <= Duration + Interval - 1
  PROVE  n <= (Duration + Interval - 1) \div Interval
<1>1. Duration + Interval - 1 \in Nat
  BY LoadAssumption
<1> QED
  BY <1>1, SlotsFit

\* Every step preserves the inductive invariant.
LEMMA InvariantStep ==
  ASSUME LoadInvariant, [Next]_vars PROVE LoadInvariant'
<1> USE LoadAssumption DEF LoadInvariant
<1>1. /\ clock \in Nat /\ issued \in Nat /\ created \in Nat /\ sending \in Nat
      /\ completed \in Nat
  BY DEF TypeOK
<1>2. CASE Issue
  <2>1. TypeOK'
    BY <1>1, <1>2 DEF Issue, TypeOK
  <2>2. issued * Interval <= clock /\ issued' = issued + 1
    BY <1>2 DEF Issue, NeverAhead
  <2>3. NeverAhead'
    <3>1. issued' - 1 = issued /\ clock' = clock /\ pc' # "looping"
      BY <1>1, <1>2 DEF Issue
    <3> QED
      BY <2>2, <3>1 DEF NeverAhead
  <2>4. DurationBoundsRequests'
    <3>1. ASSUME Duration > 0 PROVE (issued + 1) * Interval <= Duration + Interval - 1
      <4>1. clock < Duration
        BY <1>1, <1>2, <3>1 DEF Issue, DeadlineReached
      <4>2. issued * Interval \in Nat
        BY <1>1, NextSlot
      <4> QED
        BY <1>1, <2>2, <4>1, <4>2, NextSlot
    <3>2. issued + 1 \in Nat
      BY <1>1
    <3> QED
      BY <2>2, <3>1, <3>2, DurationBoundsSlots DEF DurationBoundsRequests
  <2>5. DrainedWhenDone'
    BY <1>2 DEF Issue, DrainedWhenDone
  <2> QED
    BY <2>1, <2>3, <2>4, <2>5
<1>3. CASE LeaveLoop
  BY <1>3 DEF LeaveLoop, requestVars, TypeOK, NeverAhead, DurationBoundsRequests, DrainedWhenDone
<1>4. CASE Pace
  <2>1. pc' = "looping" => issued * Interval <= clock
    BY <1>1, <1>4, NextSlot DEF Pace
  <2> QED
    BY <1>4, <2>1
    DEF Pace, requestVars, TypeOK, NeverAhead, DurationBoundsRequests, DrainedWhenDone
<1>5. CASE Wake
  <2>1. ~ shutdown => issued * Interval <= clock
    BY <1>1, <1>5, NextSlot DEF Wake
  <2> QED
    BY <1>5, <2>1
    DEF Wake, requestVars, TypeOK, NeverAhead, DurationBoundsRequests, DrainedWhenDone
<1>6. CASE Return
  BY <1>6 DEF Return, requestVars, TypeOK, NeverAhead, DurationBoundsRequests, DrainedWhenDone
<1>7. CASE StartRequest
  <2>1. TypeOK'
    BY <1>1, <1>7 DEF StartRequest, TypeOK
  <2> QED
    BY <1>7, <2>1
    DEF StartRequest, Yielded, NeverAhead, DurationBoundsRequests, DrainedWhenDone
<1>8. CASE CompleteRequest
  <2>1. TypeOK'
    BY <1>1, <1>8 DEF CompleteRequest, TypeOK
  <2> QED
    BY <1>8, <2>1
    DEF CompleteRequest, Yielded, NeverAhead, DurationBoundsRequests, DrainedWhenDone
<1>9. CASE Signal
  BY <1>9 DEF Signal, requestVars, TypeOK, NeverAhead, DurationBoundsRequests, DrainedWhenDone
<1>10. CASE HandleSignal
  BY <1>10
  DEF HandleSignal, requestVars, TypeOK, NeverAhead, DurationBoundsRequests, DrainedWhenDone
<1>11. CASE Tick
  <2>1. TypeOK' /\ clock' \in Nat /\ clock <= clock'
    BY <1>1, <1>11 DEF Tick, TypeOK, requestVars
  <2>2. NeverAhead'
    <3>1. UNCHANGED <<pc, issued, shutdown>>
      BY <1>11 DEF Tick
    <3>2. issued * Interval \in Nat /\ (issued > 0 => (issued - 1) * Interval \in Nat)
      BY <1>1, NextSlot
    <3> QED
      BY <1>1, <2>1, <3>1, <3>2 DEF NeverAhead
  <2> QED
    BY <1>11, <2>1, <2>2 DEF Tick, requestVars, DurationBoundsRequests, DrainedWhenDone
<1>12. CASE UNCHANGED vars
  BY <1>12 DEF vars, TypeOK, NeverAhead, DurationBoundsRequests, DrainedWhenDone
<1> QED
  BY <1>2, <1>3, <1>4, <1>5, <1>6, <1>7, <1>8, <1>9, <1>10, <1>11, <1>12 DEF Next, RunLoad

\* At any rate and with any deadline, however late the loop and slow the responses.
THEOREM InvariantHolds == Spec => []LoadInvariant
<1>1. Init => LoadInvariant
  <2> SUFFICES ASSUME Init PROVE LoadInvariant
    OBVIOUS
  <2>1. TypeOK /\ DrainedWhenDone
    <3>1. /\ clock \in 0 .. MaxClock
          /\ {issued, created, sending, completed} \subseteq Nat
          /\ issued = created + sending + completed
      BY LoadAssumption DEF Init
    <3>2. {signalled, shutdown} \subseteq BOOLEAN
      BY DEF Init
    <3> QED
      BY <3>1, <3>2 DEF Init, TypeOK, DrainedWhenDone
  <2>2. NeverAhead
    BY NextSlot, LoadAssumption DEF Init, NeverAhead
  <2>3. DurationBoundsRequests
    <3>1. 0 * Interval <= Duration + Interval - 1
      BY LoadAssumption
    <3> QED
      BY <3>1, DurationBoundsSlots DEF Init, DurationBoundsRequests
  <2> QED
    BY <2>1, <2>2, <2>3 DEF LoadInvariant
<1>2. LoadInvariant /\ [Next]_vars => LoadInvariant'
  BY InvariantStep
<1> QED
  BY <1>1, <1>2, PTL DEF Spec

\* Every variable has its type and no request is lost or recorded twice.
THEOREM Typing == Spec => []TypeOK
<1>1. LoadInvariant => TypeOK
  BY DEF LoadInvariant
<1> QED
  BY <1>1, InvariantHolds, PTL

\* A run with a deadline never issues more requests than its rate allows.
THEOREM RateIsABound == Spec => []DurationBoundsRequests
<1>1. LoadInvariant => DurationBoundsRequests
  BY DEF LoadInvariant
<1> QED
  BY <1>1, InvariantHolds, PTL

\* run_load returns with every request it issued in the statistics.
THEOREM RequestsAreRecorded == Spec => []EveryRequestIsRecorded
<1>1. LoadInvariant => EveryRequestIsRecorded
  BY DEF LoadInvariant, TypeOK, DrainedWhenDone, EveryRequestIsRecorded
<1> QED
  BY <1>1, InvariantHolds, PTL

\* "A slow request cannot push the whole schedule later" (run_load): the generator
\* sleeps only when it has caught up with its slots, whatever the rate.
THEOREM ScheduleDoesNotDrift == Spec => OnSchedule
<1>1. ASSUME LoadInvariant, [Next]_vars, pc = "pacing", pc' = "waiting"
      PROVE  issued = clock \div Interval + 1
  <2>1. clock \in Nat /\ issued \in Nat
    BY <1>1, LoadAssumption DEF LoadInvariant, TypeOK
  <2>2. clock < issued * Interval
    <3>1. Pace
      BY <1>1 DEF Next, RunLoad, Issue, LeaveLoop, Wake, Return, StartRequest, CompleteRequest,
         Signal, HandleSignal, Tick, vars
    <3> QED
      BY <1>1, <2>1, <3>1, NextSlot DEF Pace
  <2>3. issued > 0
    BY <2>1, <2>2, LoadAssumption
  <2>4. (issued - 1) * Interval <= clock /\ issued - 1 \in Nat
    BY <1>1, <2>1, <2>3 DEF LoadInvariant, NeverAhead
  <2>5. (issued - 1) + 1 = issued
    BY <2>1
  <2>6. clock \div Interval = issued - 1
    BY <2>1, <2>2, <2>4, <2>5, SlotOf
  <2> QED
    BY <2>1, <2>6
<1>2. LoadInvariant /\ [Next]_vars =>
        [pc = "pacing" /\ pc' = "waiting" => issued = clock \div Interval + 1]_vars
  BY <1>1
<1> QED
  BY <1>2, InvariantHolds, PTL DEF Spec, OnSchedule

-----------------------------------------------------------------------------
(* Percentiles *)

\* The nearest rank is the quotient rounded up.
LEMMA NearestRank ==
  ASSUME completed \in Nat, completed > 0, NEW p \in 1 .. 100
  PROVE  /\ nearest_rank(p) \in 1 .. completed
         /\ 100 * nearest_rank(p) >= p * completed
         /\ 100 * (nearest_rank(p) - 1) < p * completed
<1> DEFINE x == p * completed
           Good(k) == 100 * k >= x /\ \A j \in 1 .. k - 1 : 100 * j < x
           r == (x + 99) \div 100
<1>1. x \in Nat /\ x > 0 /\ x <= 100 * completed
  <2>1. p \in Nat /\ p >= 1 /\ p <= 100
    OBVIOUS
  <2>2. p * completed \in Nat /\ p * completed > 0
    BY <2>1
  <2>3. p * completed <= 100 * completed
    BY <2>1
  <2> QED
    BY <2>2, <2>3
<1>2. nearest_rank(p) = CHOOSE k \in 1 .. completed : Good(k)
  BY DEF nearest_rank
<1> HIDE DEF x
<1>3. r \in 1 .. completed /\ Good(r)
  BY <1>1
<1>4. nearest_rank(p) \in 1 .. completed /\ Good(nearest_rank(p))
  BY <1>2, <1>3
<1>5. 100 * (nearest_rank(p) - 1) < x
  BY <1>1, <1>4
<1> QED
  BY <1>4, <1>5 DEF x

\* Rounding to the nearest integer is off by half at most.
LEMMA RoundBounds ==
  ASSUME NEW a \in Nat
  PROVE  /\ RoundHalfEven(a, 100) \in Nat
         /\ a - 50 <= 100 * RoundHalfEven(a, 100)
         /\ 100 * RoundHalfEven(a, 100) <= a + 50
  BY DEF RoundHalfEven

\* And keeps the order.
LEMMA RoundMonotonic ==
  ASSUME NEW a \in Nat, NEW b \in Nat, a < b
  PROVE  RoundHalfEven(a, 100) <= RoundHalfEven(b, 100)
  BY DEF RoundHalfEven

\* Each percentile is one of the latencies and at most one rank below the nearest.
LEMMA PercentileRank ==
  ASSUME completed \in Nat, completed > 0, NEW p \in 1 .. 100
  PROVE  /\ percentile_rank(p) \in 1 .. completed
         /\ nearest_rank(p) \in percentile_rank(p) .. percentile_rank(p) + 1
<1> DEFINE x == p * completed
           r == RoundHalfEven(x, 100)
           k == nearest_rank(p)
<1>1. x \in Nat
  OBVIOUS
<1>2. /\ k \in 1 .. completed
      /\ 100 * k >= x /\ 100 * (k - 1) < x
  BY NearestRank
<1>3. r \in Nat /\ x - 50 <= 100 * r /\ 100 * r <= x + 50
  BY <1>1, RoundBounds
<1>4. percentile_rank(p) = Least(completed, IF r < 1 THEN 1 ELSE r)
  BY DEF percentile_rank
<1> HIDE DEF x, r, k
<1>5. percentile_rank(p) \in 1 .. completed
  BY <1>3, <1>4 DEF Least
<1>6. k \in percentile_rank(p) .. percentile_rank(p) + 1
  BY <1>1, <1>2, <1>3, <1>4 DEF Least
<1> QED
  BY <1>5, <1>6 DEF k

\* For any number of latencies the percentiles of the summary are latencies, within
\* one rank of the nearest, and a higher one is no lower (LoadStats.percentile).
THEOREM PercentilesHold == Spec => []PercentilesAreRanks
<1>1. TypeOK => PercentilesAreRanks
  <2> SUFFICES ASSUME TypeOK, completed > 0 PROVE PercentilesAreRanks
    BY DEF PercentilesAreRanks
  <2>1. completed \in Nat
    BY DEF TypeOK
  <2>2. \A p \in {1, 50, 99, 100} :
          /\ percentile_rank(p) \in 1 .. completed
          /\ nearest_rank(p) \in percentile_rank(p) .. percentile_rank(p) + 1
    BY <2>1, PercentileRank
  <2>3. percentile_rank(50) <= percentile_rank(99)
    <3> DEFINE a == RoundHalfEven(50 * completed, 100)
               b == RoundHalfEven(99 * completed, 100)
    <3>1. a \in Nat /\ b \in Nat /\ a <= b
      BY <2>1, RoundBounds, RoundMonotonic
    <3>2. /\ percentile_rank(50) = Least(completed, IF a < 1 THEN 1 ELSE a)
          /\ percentile_rank(99) = Least(completed, IF b < 1 THEN 1 ELSE b)
      BY DEF percentile_rank
    <3> HIDE DEF a, b
    <3> QED
      BY <2>1, <3>1, <3>2 DEF Least
  <2>4. percentile_rank(100) = completed
    <3> DEFINE r == RoundHalfEven(100 * completed, 100)
    <3>1. r \in Nat /\ 100 * completed - 50 <= 100 * r /\ 100 * r <= 100 * completed + 50
      BY <2>1, RoundBounds
    <3>2. percentile_rank(100) = Least(completed, IF r < 1 THEN 1 ELSE r)
      BY DEF percentile_rank
    <3> HIDE DEF r
    <3> QED
      BY <2>1, <3>1, <3>2 DEF Least
  <2> QED
    BY <2>2, <2>3, <2>4 DEF PercentilesAreRanks
<1> QED
  BY <1>1, Typing, PTL
=============================================================================
