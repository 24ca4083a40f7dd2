---------------------------- MODULE OutboxProofs ----------------------------
(***************************************************************************)
(* Theorems about Outbox for every set of events and workers and every     *)
(* lease, backoff and clock bound, checked by TLAPS.                       *)
(***************************************************************************)
EXTENDS Outbox, FiniteSets, FiniteSetTheorems, TLAPS

-----------------------------------------------------------------------------
(* The backoff *)

\* A power of two is a positive natural: it counts the subsets of a set.
LEMMA PowerOfTwo == ASSUME NEW k \in Nat PROVE 2 ^ k \in Nat /\ 2 ^ k >= 1
<1>1. IsFiniteSet(1 .. k) /\ Cardinality(1 .. k) = k
  BY FS_Interval, SMT
<1>2. IsFiniteSet(SUBSET (1 .. k)) /\ Cardinality(SUBSET (1 .. k)) = 2 ^ k
  BY <1>1, FS_SUBSET
<1>3. Cardinality(SUBSET (1 .. k)) \in Nat
  BY <1>2, FS_CardinalityType
<1>4. Cardinality(SUBSET (1 .. k)) # 0
  <2>1. {} \in SUBSET (1 .. k)
    OBVIOUS
  <2> QED
    BY <1>2, <2>1, FS_EmptySet
<1> QED
  BY <1>2, <1>3, <1>4

\* backoff_delay of a real attempt is a wait of at least one tick and never more
\* than the maximum.
THEOREM BackoffBounds ==
  ASSUME NEW n \in Nat, n >= 1
  PROVE  /\ backoff_delay(n) \in Nat
         /\ backoff_delay(n) >= 1
         /\ backoff_delay(n) <= MaxBackoff
<1> DEFINE k == AtMost(n - 1, MAX_BACKOFF_EXPONENT)
           p == 2 ^ k
<1>1. k \in Nat
  BY DEF AtMost, MAX_BACKOFF_EXPONENT
<1>2. p \in Nat /\ p >= 1
  BY <1>1, PowerOfTwo
<1> HIDE DEF p
<1>3. BaseBackoff \in Nat /\ BaseBackoff >= 1 /\ MaxBackoff \in Nat /\ MaxBackoff >= 1
  BY DurationsAssumption
<1>4. BaseBackoff * p \in Nat /\ BaseBackoff * p >= 1
  BY <1>2, <1>3
<1>5. backoff_delay(n) = AtMost(BaseBackoff * p, MaxBackoff)
  BY DEF backoff_delay, p
<1> QED
  BY <1>3, <1>4, <1>5 DEF AtMost

-----------------------------------------------------------------------------
(* Types *)

\* What TypeOK says of a worker that carries an event.
LEMMA CarrierTypes ==
  ASSUME TypeOK, NEW w \in Workers, claimed[w] # None
  PROVE  /\ claimed[w] \in ClaimedEvent
         /\ claimed[w].event \in Events
         /\ claimed[w].attempts \in Nat /\ claimed[w].attempts >= 1
         /\ claimed[w].claimedAt \in Nat
         /\ row[claimed[w].event] \in OutboxEvent
  BY DEF TypeOK, ClaimedEvent, Placed

\* The row a claim commits: typed, leased to the claimer, no other row touched.
LEMMA WriteClaimEffect ==
  ASSUME TypeOK, NEW w \in Workers, pc[w] = "locked", WriteClaim(w)
  PROVE  LET e == claimed[w].event IN
         /\ e \in Events
         /\ row' \in [Events -> OutboxEvent \union {None}]
         /\ row'[e] \in OutboxEvent
         /\ \A f \in Events : f # e => row'[f] = row[f]
         /\ row'[e].published = row[e].published
         /\ row'[e].nextAt = row[e].nextAt
         /\ row'[e].owner = w
         /\ row'[e].leaseEnd = now[w] + LeaseDuration
         /\ row'[e].attempts = claimed[w].attempts
         /\ row'[e].lastAt = now[w]
<1> DEFINE e == claimed[w].event
           end == now[w] + LeaseDuration
           r == [row[e] EXCEPT !.owner = w, !.leaseEnd = end,
                               !.attempts = claimed[w].attempts, !.lastAt = now[w]]
<1>1. claimed[w] # None /\ now[w] \in Nat
  BY DEF TypeOK
<1>2. /\ e \in Events /\ row[e] \in OutboxEvent
      /\ claimed[w].attempts \in Nat
  BY <1>1, CarrierTypes
<1>3. end \in Nat
  BY <1>1, DurationsAssumption
<1>4. row' = [row EXCEPT ![e] = r]
  BY DEF WriteClaim
<1>5. end = now[w] + LeaseDuration
  OBVIOUS
<1> HIDE DEF end
<1>6. /\ r \in OutboxEvent
      /\ r.published = row[e].published /\ r.nextAt = row[e].nextAt
      /\ r.owner = w /\ r.leaseEnd = end
      /\ r.attempts = claimed[w].attempts /\ r.lastAt = now[w]
  BY <1>1, <1>2, <1>3 DEF OutboxEvent
<1> HIDE DEF r
<1>7. row \in [Events -> OutboxEvent \union {None}]
  BY DEF TypeOK
<1> QED
  BY <1>2, <1>4, <1>5, <1>6, <1>7

\* The row a settlement leaves, given the record it writes.
LEMMA SettleEffect ==
  ASSUME TypeOK, NEW w \in Workers, claimed[w] # None,
         NEW r \in OutboxEvent, Settle(w, r)
  PROVE  LET e == claimed[w].event IN
         /\ e \in Events
         /\ row' \in [Events -> OutboxEvent \union {None}]
         /\ \A f \in Events : f # e => row'[f] = row[f]
         /\ row[e].owner = w => row'[e] = r /\ ~ RowLocked(e)
         /\ row[e].owner # w => row'[e] = row[e]
<1>1. claimed[w].event \in Events
  BY CarrierTypes
<1>2. row \in [Events -> OutboxEvent \union {None}]
  BY DEF TypeOK
<1> QED
  BY <1>1, <1>2 DEF Settle

\* The record a worker that still owns the lease leaves after a confirmed send.
LEMMA MarkEffect ==
  ASSUME TypeOK, NEW w \in Workers, mark_published(w)
  PROVE  LET e == claimed[w].event IN
         /\ e \in Events /\ pc[w] = "sent"
         /\ row' \in [Events -> OutboxEvent \union {None}]
         /\ \A f \in Events : f # e => row'[f] = row[f]
         /\ row[e] # None /\ row'[e] # None
         /\ row[e].owner # w => row'[e] = row[e]
         /\ row[e].owner = w => /\ ~ RowLocked(e)
                                /\ row'[e].published
                                /\ row'[e].owner = None /\ row'[e].leaseEnd = None
                                /\ row'[e].attempts = row[e].attempts
                                /\ row'[e].lastAt = row[e].lastAt
<1> DEFINE e == claimed[w].event
           r == [row[e] EXCEPT !.published = TRUE, !.owner = None, !.leaseEnd = None]
<1>1. claimed[w] # None /\ Settle(w, r) /\ pc[w] = "sent"
  BY DEF mark_published, TypeOK
<1>2. row[e] \in OutboxEvent
  BY <1>1, CarrierTypes
<1>3. /\ r \in OutboxEvent /\ r # None /\ row[e] # None
      /\ r.published /\ r.owner = None /\ r.leaseEnd = None
      /\ r.attempts = row[e].attempts /\ r.lastAt = row[e].lastAt
  BY <1>2, NoneAssumption DEF OutboxEvent
<1> HIDE DEF r
<1> QED
  BY <1>1, <1>3, SettleEffect

\* The record such a worker leaves after a send that raised.
LEMMA ReleaseEffect ==
  ASSUME TypeOK, NEW w \in Workers, release_for_retry(w)
  PROVE  LET e == claimed[w].event IN
         /\ e \in Events /\ pc[w] = "releasing"
         /\ row' \in [Events -> OutboxEvent \union {None}]
         /\ \A f \in Events : f # e => row'[f] = row[f]
         /\ row[e] # None /\ row'[e] # None
         /\ row[e].owner # w => row'[e] = row[e]
         /\ row[e].owner = w =>
              /\ ~ RowLocked(e)
              /\ row'[e].published = row[e].published
              /\ row'[e].owner = None /\ row'[e].leaseEnd = None
              /\ row'[e].attempts = row[e].attempts
              /\ row'[e].lastAt = row[e].lastAt
              /\ row'[e].nextAt = now[w] + backoff_delay(claimed[w].attempts)
<1> DEFINE e == claimed[w].event
           t == now[w] + backoff_delay(claimed[w].attempts)
           r == [row[e] EXCEPT !.owner = None, !.leaseEnd = None, !.nextAt = t]
<1>1. claimed[w] # None /\ now[w] \in Nat /\ Settle(w, r) /\ pc[w] = "releasing"
  BY DEF release_for_retry, TypeOK
<1>2. row[e] \in OutboxEvent
  BY <1>1, CarrierTypes
<1>3. t \in Nat
  BY <1>1, CarrierTypes, BackoffBounds
<1>4. t = now[w] + backoff_delay(claimed[w].attempts)
  OBVIOUS
<1> HIDE DEF t
<1>5. /\ r \in OutboxEvent /\ r # None /\ row[e] # None
      /\ r.published = row[e].published
      /\ r.owner = None /\ r.leaseEnd = None
      /\ r.attempts = row[e].attempts /\ r.lastAt = row[e].lastAt
      /\ r.nextAt = t
  BY <1>2, <1>3, NoneAssumption DEF OutboxEvent
<1> HIDE DEF r
<1> QED
  BY <1>1, <1>4, <1>5, SettleEffect

\* Leaving run_once keeps the worker's variables typed.
LEMMA LeaveRunOnceTypes ==
  ASSUME TypeOK, NEW w \in Workers, NEW label \in {"loop", "crashed"},
         LeaveRunOnce(w, label)
  PROVE  /\ pc' \in [Workers -> Running \union {"off", "stopped", "crashed"}]
         /\ now' \in [Workers -> Nat \union {None}]
         /\ claimed' \in [Workers -> ClaimedEvent \union {None}]
         /\ tries' \in [Workers -> 0 .. SdkRetryTotal]
         /\ pc'[w] = label /\ now'[w] = None /\ claimed'[w] = None
         /\ \A v \in Workers : v # w =>
              pc'[v] = pc[v] /\ now'[v] = now[v] /\ claimed'[v] = claimed[v]
  BY DurationsAssumption DEF TypeOK, LeaveRunOnce, Goto, Running

\* Every step keeps the types.
LEMMA TypeOKStep == ASSUME TypeOK, [Next]_vars PROVE TypeOK'
<1> USE DurationsAssumption, NoneAssumption
<1>1. ASSUME NEW e \in Events, place_order(e) PROVE TypeOK'
  BY <1>1 DEF TypeOK, Placed, place_order, workerVars, OutboxEvent
<1>2. ASSUME NEW w \in Workers, StartWorker(w) PROVE TypeOK'
  BY <1>2 DEF TypeOK, Placed, StartWorker, Goto, Running
<1>3. ASSUME NEW w \in Workers, RequestShutdown(w) PROVE TypeOK'
  BY <1>3 DEF TypeOK, Placed, RequestShutdown
<1>4. ASSUME NEW w \in Workers, StopLoop(w) PROVE TypeOK'
  BY <1>4 DEF TypeOK, Placed, StopLoop, Goto, Running
<1>5. ASSUME NEW w \in Workers, Crash(w) PROVE TypeOK'
  BY <1>5 DEF TypeOK, Placed, Crash, LeaveRunOnce, Goto, Running
<1>6. ASSUME NEW w \in Workers, BeginClaim(w) PROVE TypeOK'
  BY <1>6 DEF TypeOK, Placed, BeginClaim, Goto, Running
<1>7. ASSUME NEW w \in Workers, LockDueRow(w) PROVE TypeOK'
  <2>1. PICK e \in Events :
           /\ Claimable(e, now[w])
           /\ claimed' = [claimed EXCEPT ![w] =
                            [event |-> e, attempts |-> row[e].attempts + 1,
                             claimedAt |-> now[w]]]
    BY <1>7 DEF LockDueRow
  <2>2. row[e] \in OutboxEvent /\ now[w] \in Nat
    BY <1>7, <2>1 DEF TypeOK, LockDueRow, Claimable, Due, Placed
  <2>3. [event |-> e, attempts |-> row[e].attempts + 1, claimedAt |-> now[w]]
          \in ClaimedEvent
    BY <2>2 DEF OutboxEvent, ClaimedEvent
  <2>4. claimed'[w] # None
    BY <2>1, <2>3 DEF TypeOK, Placed, ClaimedEvent
  <2>5. row[e] # None
    BY <2>1 DEF Claimable, Due, Placed
  <2>6. /\ claimed'[w].event = e
        /\ claimed' \in [Workers -> ClaimedEvent \union {None}]
        /\ \A v \in Workers : v # w => claimed'[v] = claimed[v]
    BY <2>1, <2>3 DEF TypeOK
  <2>7. /\ pc[w] = "claiming"
        /\ pc' = [pc EXCEPT ![w] = "locked"]
        /\ UNCHANGED <<clock, row, now, tries, shutdown, copies>>
    BY <1>7 DEF LockDueRow, Goto
  <2> QED
    BY <2>4, <2>5, <2>6, <2>7 DEF TypeOK, Placed, Running
<1>8. ASSUME NEW w \in Workers, FindNothingDue(w) PROVE TypeOK'
  BY <1>8 DEF TypeOK, Placed, FindNothingDue, LeaveRunOnce, Goto, Running
<1>9. ASSUME NEW w \in Workers, CommitClaim(w) PROVE TypeOK'
  <2>1. pc[w] = "locked" /\ WriteClaim(w)
    BY <1>9 DEF CommitClaim
  <2>2. /\ row' \in [Events -> OutboxEvent \union {None}]
        /\ \A e \in Events : row[e] # None => row'[e] # None
    BY <2>1, WriteClaimEffect
  <2> QED
    BY <1>9, <2>2 DEF TypeOK, Placed, CommitClaim, Goto, Running, ClaimedEvent
<1>10. ASSUME NEW w \in Workers, CommitClaimUnseen(w) PROVE TypeOK'
  <2>1. pc[w] = "locked" /\ WriteClaim(w)
    BY <1>10 DEF CommitClaimUnseen
  <2>2. /\ row' \in [Events -> OutboxEvent \union {None}]
        /\ \A e \in Events : row[e] # None => row'[e] # None
    BY <2>1, WriteClaimEffect
  <2> QED
    BY <1>10, <2>2, LeaveRunOnceTypes
       DEF TypeOK, Placed, CommitClaimUnseen, ClaimedEvent
<1>11. ASSUME NEW w \in Workers, ClaimFails(w) PROVE TypeOK'
  BY <1>11 DEF TypeOK, Placed, ClaimFails, LeaveRunOnce, Goto, Running
<1>12. ASSUME NEW w \in Workers, SendAcknowledged(w) PROVE TypeOK'
  BY <1>12 DEF TypeOK, Placed, SendAcknowledged, Accept, Goto, Running, ClaimedEvent
<1>13. ASSUME NEW w \in Workers, SendFails(w) PROVE TypeOK'
  BY <1>13 DEF TypeOK, Placed, SendFails, Accept, Goto, Running, ClaimedEvent
<1>14. ASSUME NEW w \in Workers, mark_published(w) PROVE TypeOK'
  <2>1. /\ row' \in [Events -> OutboxEvent \union {None}]
        /\ \A e \in Events : row[e] # None => row'[e] # None
    BY <1>14, MarkEffect
  <2> QED
    BY <1>14, <2>1, LeaveRunOnceTypes DEF TypeOK, Placed, mark_published, ClaimedEvent
<1>15. ASSUME NEW w \in Workers, BeginRelease(w) PROVE TypeOK'
  BY <1>15 DEF TypeOK, Placed, BeginRelease, Goto, Running
<1>16. ASSUME NEW w \in Workers, release_for_retry(w) PROVE TypeOK'
  <2>1. /\ row' \in [Events -> OutboxEvent \union {None}]
        /\ \A e \in Events : row[e] # None => row'[e] # None
    BY <1>16, ReleaseEffect
  <2> QED
    BY <1>16, <2>1, LeaveRunOnceTypes
       DEF TypeOK, Placed, release_for_retry, ClaimedEvent
<1>17. ASSUME NEW w \in Workers, SettleFails(w) PROVE TypeOK'
  BY <1>17 DEF TypeOK, Placed, SettleFails, LeaveRunOnce, Goto, Running
<1>18. CASE Tick
  BY <1>18 DEF TypeOK, Placed, Tick, workerVars
<1>19. CASE UNCHANGED vars
  BY <1>19 DEF TypeOK, Placed, vars
<1> QED
  BY <1>1, <1>2, <1>3, <1>4, <1>5, <1>6, <1>7, <1>8, <1>9, <1>10, <1>11, <1>12,
     <1>13, <1>14, <1>15, <1>16, <1>17, <1>18, <1>19
     DEF Next, LoopStep, ClaimStep, PublishStep, SettleStep

\* TypeOK holds in every reachable state.
THEOREM Typing == Spec => []TypeOK
<1>1. Init => TypeOK
  BY DurationsAssumption, NoneAssumption DEF Init, TypeOK, Placed, Running
<1>2. TypeOK /\ [Next]_vars => TypeOK'
  BY TypeOKStep
<1> QED
  BY <1>1, <1>2, PTL DEF Spec

-----------------------------------------------------------------------------
(* The inductive invariant *)

\* Every step preserves the inductive invariant.
LEMMA InvariantStep ==
  ASSUME OutboxInvariant, [Next]_vars PROVE OutboxInvariant'
<1> USE DurationsAssumption, NoneAssumption DEF OutboxInvariant
<1> TypeOK'
  BY TypeOKStep
<1>1. ASSUME NEW e \in Events, place_order(e) PROVE OutboxInvariant'
  BY <1>1
     DEF place_order, workerVars, TypeOK, Placed, Holds, OutboxEvent, ClaimedEvent,
         Due, PublishedWasAccepted, TableConstraints, TimesPast, LockedRowUnchanged,
         LocksExclusive, HolderKnows, RowTimes, ClaimsAreDistinct
<1>2. ASSUME NEW w \in Workers, StartWorker(w) PROVE OutboxInvariant'
  BY <1>2
     DEF StartWorker, Goto, TypeOK, Placed, Holds, OutboxEvent, ClaimedEvent, Due,
         PublishedWasAccepted, TableConstraints, TimesPast, LockedRowUnchanged,
         LocksExclusive, HolderKnows, RowTimes, ClaimsAreDistinct
<1>3. ASSUME NEW w \in Workers, RequestShutdown(w) PROVE OutboxInvariant'
  BY <1>3
     DEF RequestShutdown, TypeOK, Placed, Holds, OutboxEvent, ClaimedEvent, Due,
         PublishedWasAccepted, TableConstraints, TimesPast, LockedRowUnchanged,
         LocksExclusive, HolderKnows, RowTimes, ClaimsAreDistinct
<1>4. ASSUME NEW w \in Workers, StopLoop(w) PROVE OutboxInvariant'
  BY <1>4
     DEF StopLoop, Goto, TypeOK, Placed, Holds, OutboxEvent, ClaimedEvent, Due,
         PublishedWasAccepted, TableConstraints, TimesPast, LockedRowUnchanged,
         LocksExclusive, HolderKnows, RowTimes, ClaimsAreDistinct
<1>5. ASSUME NEW w \in Workers, Crash(w) PROVE OutboxInvariant'
  BY <1>5
     DEF Crash, LeaveRunOnce, Goto, TypeOK, Placed, Holds, OutboxEvent, ClaimedEvent,
         Due, PublishedWasAccepted, TableConstraints, TimesPast, LockedRowUnchanged,
         LocksExclusive, HolderKnows, RowTimes, ClaimsAreDistinct
<1>6. ASSUME NEW w \in Workers, BeginClaim(w) PROVE OutboxInvariant'
  BY <1>6
     DEF BeginClaim, Goto, TypeOK, Placed, Holds, OutboxEvent, ClaimedEvent, Due,
         PublishedWasAccepted, TableConstraints, TimesPast, LockedRowUnchanged,
         LocksExclusive, HolderKnows, RowTimes, ClaimsAreDistinct
<1>7. ASSUME NEW w \in Workers, LockDueRow(w) PROVE OutboxInvariant'
  BY <1>7
     DEF LockDueRow, Goto, Claimable, RowLocked, TypeOK, Placed, Holds, OutboxEvent,
         ClaimedEvent, Due, PublishedWasAccepted, TableConstraints, TimesPast,
         LockedRowUnchanged, LocksExclusive, HolderKnows, RowTimes, ClaimsAreDistinct
<1>8. ASSUME NEW w \in Workers, FindNothingDue(w) PROVE OutboxInvariant'
  BY <1>8
     DEF FindNothingDue, LeaveRunOnce, Goto, TypeOK, Placed, Holds, OutboxEvent,
         ClaimedEvent, Due, PublishedWasAccepted, TableConstraints, TimesPast,
         LockedRowUnchanged, LocksExclusive, HolderKnows, RowTimes, ClaimsAreDistinct
<1>9. ASSUME NEW w \in Workers, CommitClaim(w) PROVE OutboxInvariant'
  <2>1. PublishedWasAccepted'
    BY <1>9, WriteClaimEffect
       DEF CommitClaim, Goto, PublishedWasAccepted, Placed, TypeOK, LockedRowUnchanged,
           Due
  <2>2. TableConstraints'
    BY <1>9, WriteClaimEffect
       DEF CommitClaim, Goto, TableConstraints, Placed, LockedRowUnchanged, Due, TypeOK
  <2>3. TimesPast'
    BY <1>9, WriteClaimEffect DEF CommitClaim, Goto, TimesPast, TypeOK
  <2>4. LockedRowUnchanged'
    BY <1>9, WriteClaimEffect
       DEF CommitClaim, Goto, LockedRowUnchanged, LocksExclusive, Due, Placed, TypeOK,
           OutboxEvent, ClaimedEvent
  <2>5. LocksExclusive'
    BY <1>9, WriteClaimEffect DEF CommitClaim, Goto, LocksExclusive, TypeOK
  <2>6. HolderKnows'
    BY <1>9, WriteClaimEffect
       DEF CommitClaim, Goto, HolderKnows, Holds, LockedRowUnchanged, LocksExclusive,
           Due, TimesPast, RowTimes, TableConstraints, Placed, TypeOK, OutboxEvent,
           ClaimedEvent
  <2>7. RowTimes'
    BY <1>9, WriteClaimEffect
       DEF CommitClaim, Goto, RowTimes, LockedRowUnchanged, Due, Placed, TypeOK,
           OutboxEvent, ClaimedEvent
  <2>8. ClaimsAreDistinct'
    BY <1>9, WriteClaimEffect
       DEF CommitClaim, Goto, ClaimsAreDistinct, HolderKnows, Holds,
           LockedRowUnchanged, LocksExclusive, TypeOK, ClaimedEvent, OutboxEvent, Placed
  <2> QED
    BY <2>1, <2>2, <2>3, <2>4, <2>5, <2>6, <2>7, <2>8
<1>10. ASSUME NEW w \in Workers, CommitClaimUnseen(w) PROVE OutboxInvariant'
  <2>1. PublishedWasAccepted'
    BY <1>10, WriteClaimEffect
       DEF CommitClaimUnseen, LeaveRunOnce, Goto, PublishedWasAccepted, Placed, TypeOK,
           LockedRowUnchanged, Due
  <2>2. TableConstraints'
    BY <1>10, WriteClaimEffect
       DEF CommitClaimUnseen, LeaveRunOnce, Goto, TableConstraints, Placed,
           LockedRowUnchanged, Due, TypeOK
  <2>3. TimesPast'
    BY <1>10, WriteClaimEffect
       DEF CommitClaimUnseen, LeaveRunOnce, Goto, TimesPast, TypeOK
  <2>4. LockedRowUnchanged'
    BY <1>10, WriteClaimEffect
       DEF CommitClaimUnseen, LeaveRunOnce, Goto, LockedRowUnchanged, LocksExclusive,
           Due, Placed, TypeOK, OutboxEvent, ClaimedEvent
  <2>5. LocksExclusive'
    BY <1>10, WriteClaimEffect
       DEF CommitClaimUnseen, LeaveRunOnce, Goto, LocksExclusive, TypeOK
  <2>6. HolderKnows'
    BY <1>10, WriteClaimEffect
       DEF CommitClaimUnseen, LeaveRunOnce, Goto, HolderKnows, Holds,
           LockedRowUnchanged, LocksExclusive, Due, TimesPast, RowTimes, TableConstraints,
           Placed, TypeOK, OutboxEvent, ClaimedEvent
  <2>7. RowTimes'
    BY <1>10, WriteClaimEffect
       DEF CommitClaimUnseen, LeaveRunOnce, Goto, RowTimes, LockedRowUnchanged, Due,
           Placed, TypeOK, OutboxEvent, ClaimedEvent
  <2>8. ClaimsAreDistinct'
    BY <1>10, WriteClaimEffect
       DEF CommitClaimUnseen, LeaveRunOnce, Goto, ClaimsAreDistinct, HolderKnows,
           Holds, LockedRowUnchanged, LocksExclusive, TypeOK, ClaimedEvent, OutboxEvent,
           Placed
  <2> QED
    BY <2>1, <2>2, <2>3, <2>4, <2>5, <2>6, <2>7, <2>8
<1>11. ASSUME NEW w \in Workers, ClaimFails(w) PROVE OutboxInvariant'
  BY <1>11
     DEF ClaimFails, LeaveRunOnce, Goto, TypeOK, Placed, Holds, OutboxEvent,
         ClaimedEvent, Due, PublishedWasAccepted, TableConstraints, TimesPast,
         LockedRowUnchanged, LocksExclusive, HolderKnows, RowTimes, ClaimsAreDistinct
<1>12. ASSUME NEW w \in Workers, SendAcknowledged(w) PROVE OutboxInvariant'
  BY <1>12
     DEF SendAcknowledged, Accept, Goto, TypeOK, Placed, Holds, OutboxEvent,
         ClaimedEvent, Due, PublishedWasAccepted, TableConstraints, TimesPast,
         LockedRowUnchanged, LocksExclusive, HolderKnows, RowTimes, ClaimsAreDistinct
<1>13. ASSUME NEW w \in Workers, SendFails(w) PROVE OutboxInvariant'
  <2>0. /\ UNCHANGED <<clock, row, now, claimed>>
        /\ \A v \in Workers :
             /\ pc'[v] \in {"sending", "sent", "failed", "releasing"} =>
                  pc[v] \in {"sending", "sent", "failed", "releasing"}
             /\ pc'[v] = "sent" => pc[v] = "sent"
             /\ pc'[v] = "releasing" => pc[v] = "releasing"
        /\ \A e \in Events : copies[e] >= 1 => copies'[e] >= 1
    BY <1>13 DEF SendFails, Accept, Goto, TypeOK
  <2>1. PublishedWasAccepted'
    BY <1>13 DEF SendFails, Accept, Goto, PublishedWasAccepted, Placed, TypeOK
  <2>2. TableConstraints'
    BY <1>13 DEF SendFails, Accept, Goto, TableConstraints, Placed
  <2>3. TimesPast'
    BY <1>13 DEF SendFails, Accept, Goto, TimesPast, TypeOK
  <2>4. LockedRowUnchanged'
    BY <1>13 DEF SendFails, Accept, Goto, LockedRowUnchanged, Due, Placed, TypeOK
  <2>5. LocksExclusive'
    BY <1>13 DEF SendFails, Accept, Goto, LocksExclusive, TypeOK
  <2>6. HolderKnows'
    BY <2>0 DEF HolderKnows, Holds, Placed
  <2>7. RowTimes'
    BY <1>13 DEF SendFails, Accept, Goto, RowTimes, Placed
  <2>8. ClaimsAreDistinct'
    BY <1>13 DEF SendFails, Accept, Goto, ClaimsAreDistinct
  <2> QED
    BY <2>1, <2>2, <2>3, <2>4, <2>5, <2>6, <2>7, <2>8
<1>14. ASSUME NEW w \in Workers, mark_published(w) PROVE OutboxInvariant'
  <2> DEFINE e == claimed[w].event
  <2>1. /\ e \in Events /\ pc[w] = "sent"
        /\ \A f \in Events : f # e => row'[f] = row[f]
        /\ row[e] # None
        /\ row[e].owner # w => row'[e] = row[e]
        /\ row[e].owner = w =>
             /\ ~ RowLocked(e)
             /\ row'[e].published
             /\ row'[e].owner = None /\ row'[e].leaseEnd = None
             /\ row'[e].attempts = row[e].attempts
             /\ row'[e].lastAt = row[e].lastAt
    BY <1>14, MarkEffect
  <2>2. /\ pc'[w] = "loop" /\ now'[w] = None /\ claimed'[w] = None
        /\ \A v \in Workers : v # w =>
             pc'[v] = pc[v] /\ now'[v] = now[v] /\ claimed'[v] = claimed[v]
        /\ clock' = clock /\ copies' = copies
    BY <1>14, LeaveRunOnceTypes DEF mark_published
  <2>3. PublishedWasAccepted'
    BY <2>1, <2>2 DEF PublishedWasAccepted, Placed, TypeOK, HolderKnows, Holds
  <2>4. TableConstraints'
    BY <2>1, <2>2 DEF TableConstraints, Placed, TypeOK
  <2>5. TimesPast'
    BY <2>1, <2>2 DEF TimesPast, TypeOK
  <2>6. LockedRowUnchanged'
    BY <2>1, <2>2
       DEF LockedRowUnchanged, LocksExclusive, Due, Placed, TypeOK, OutboxEvent,
           ClaimedEvent, RowLocked
  <2>7. LocksExclusive'
    BY <2>1, <2>2 DEF LocksExclusive, TypeOK
  <2>8. HolderKnows'
    BY <2>1, <2>2
       DEF HolderKnows, Holds, LockedRowUnchanged, LocksExclusive, Due, TimesPast,
           RowTimes, TableConstraints, Placed, TypeOK, OutboxEvent, ClaimedEvent
  <2>9. RowTimes'
    BY <2>1, <2>2
       DEF RowTimes, LockedRowUnchanged, Due, Placed, TypeOK, OutboxEvent, ClaimedEvent
  <2>10. ClaimsAreDistinct'
    BY <2>1, <2>2
       DEF ClaimsAreDistinct, HolderKnows, Holds, LockedRowUnchanged, LocksExclusive,
           TypeOK, ClaimedEvent, OutboxEvent, Placed
  <2> QED
    BY <2>3, <2>4, <2>5, <2>6, <2>7, <2>8, <2>9, <2>10
<1>15. ASSUME NEW w \in Workers, BeginRelease(w) PROVE OutboxInvariant'
  BY <1>15
     DEF BeginRelease, Goto, TypeOK, Placed, Holds, OutboxEvent, ClaimedEvent, Due,
         PublishedWasAccepted, TableConstraints, TimesPast, LockedRowUnchanged,
         LocksExclusive, HolderKnows, RowTimes, ClaimsAreDistinct
<1>16. ASSUME NEW w \in Workers, release_for_retry(w) PROVE OutboxInvariant'
  <2> DEFINE e == claimed[w].event
  <2>1. /\ e \in Events /\ pc[w] = "releasing"
        /\ \A f \in Events : f # e => row'[f] = row[f]
        /\ row[e] # None
        /\ row[e].owner # w => row'[e] = row[e]
        /\ row[e].owner = w =>
             /\ ~ RowLocked(e)
             /\ row'[e].published = row[e].published
             /\ row'[e].owner = None /\ row'[e].leaseEnd = None
             /\ row'[e].attempts = row[e].attempts
             /\ row'[e].lastAt = row[e].lastAt
             /\ row'[e].nextAt = now[w] + backoff_delay(claimed[w].attempts)
    BY <1>16, ReleaseEffect
  <2>2. /\ pc'[w] = "loop" /\ now'[w] = None /\ claimed'[w] = None
        /\ \A v \in Workers : v # w =>
             pc'[v] = pc[v] /\ now'[v] = now[v] /\ claimed'[v] = claimed[v]
        /\ clock' = clock /\ copies' = copies
    BY <1>16, LeaveRunOnceTypes DEF release_for_retry
  <2>0. /\ backoff_delay(claimed[w].attempts) \in Nat
        /\ now[w] \in Nat
    BY <2>1, CarrierTypes, BackoffBounds DEF TypeOK
  <2>3. PublishedWasAccepted'
    BY <2>1, <2>2 DEF PublishedWasAccepted, Placed, TypeOK
  <2>4. TableConstraints'
    BY <2>1, <2>2 DEF TableConstraints, Placed, TypeOK, HolderKnows, Holds
  <2>5. TimesPast'
    BY <2>1, <2>2 DEF TimesPast, TypeOK
  <2>6. LockedRowUnchanged'
    BY <2>1, <2>2
       DEF LockedRowUnchanged, LocksExclusive, Due, Placed, TypeOK, OutboxEvent,
           ClaimedEvent, RowLocked
  <2>7. LocksExclusive'
    BY <2>1, <2>2 DEF LocksExclusive, TypeOK
  <2>8. HolderKnows'
    BY <2>1, <2>2 DEF HolderKnows, Holds, Placed, TypeOK, OutboxEvent, ClaimedEvent
  <2>9. RowTimes'
    BY <2>1, <2>2, <2>0
       DEF RowTimes, LockedRowUnchanged, Due, Placed, TypeOK, OutboxEvent,
           ClaimedEvent, HolderKnows, Holds
  <2>10. ClaimsAreDistinct'
    BY <2>1, <2>2
       DEF ClaimsAreDistinct, HolderKnows, Holds, LockedRowUnchanged, LocksExclusive,
           TypeOK, ClaimedEvent, OutboxEvent, Placed
  <2> QED
    BY <2>3, <2>4, <2>5, <2>6, <2>7, <2>8, <2>9, <2>10
<1>17. ASSUME NEW w \in Workers, SettleFails(w) PROVE OutboxInvariant'
  BY <1>17
     DEF SettleFails, LeaveRunOnce, Goto, TypeOK, Placed, Holds, OutboxEvent,
         ClaimedEvent, Due, PublishedWasAccepted, TableConstraints, TimesPast,
         LockedRowUnchanged, LocksExclusive, HolderKnows, RowTimes, ClaimsAreDistinct
<1>18. CASE Tick
  BY <1>18
     DEF Tick, workerVars, TypeOK, Placed, Holds, OutboxEvent, ClaimedEvent, Due,
         PublishedWasAccepted, TableConstraints, TimesPast, LockedRowUnchanged,
         LocksExclusive, HolderKnows, RowTimes, ClaimsAreDistinct
<1>19. CASE UNCHANGED vars
  BY <1>19
     DEF vars, Placed, Holds, OutboxEvent, ClaimedEvent, Due, PublishedWasAccepted,
         TableConstraints, TimesPast, LockedRowUnchanged, LocksExclusive, HolderKnows,
         RowTimes, ClaimsAreDistinct
<1> QED
  BY <1>1, <1>2, <1>3, <1>4, <1>5, <1>6, <1>7, <1>8, <1>9, <1>10,
     <1>11, <1>12, <1>13, <1>14, <1>15, <1>16, <1>17, <1>18, <1>19
     DEF Next, LoopStep, ClaimStep, PublishStep, SettleStep

\* The inductive invariant holds in every reachable state.
THEOREM InvariantHolds == Spec => []OutboxInvariant
<1>1. Init => OutboxInvariant
  <2>1. Init => TypeOK
    BY DurationsAssumption, NoneAssumption DEF Init, TypeOK, Placed, Running
  <2> QED
    BY <2>1 DEF Init, OutboxInvariant, PublishedWasAccepted, TableConstraints, TimesPast,
           LockedRowUnchanged, LocksExclusive, HolderKnows, RowTimes, ClaimsAreDistinct,
           Placed, Holds
<1>2. OutboxInvariant /\ [Next]_vars => OutboxInvariant'
  BY InvariantStep
<1> QED
  BY <1>1, <1>2, PTL DEF Spec

-----------------------------------------------------------------------------
(* Safety *)

\* No row is recorded as published before the broker accepted its event.
THEOREM PublishedOnlyAfterAcceptance == Spec => []PublishedWasAccepted
<1>1. OutboxInvariant => PublishedWasAccepted
  BY DEF OutboxInvariant
<1> QED
  BY <1>1, InvariantHolds, PTL

\* The table's check constraints never refuse an UPDATE.
THEOREM ConstraintsHold == Spec => []TableConstraints
<1>1. OutboxInvariant => TableConstraints
  BY DEF OutboxInvariant
<1> QED
  BY <1>1, InvariantHolds, PTL

\* A worker in the middle of an event owns its lease or has outlived it.
THEOREM LeaseSafety == Spec => []HolderOwnsOrExpired
<1>1. OutboxInvariant => HolderOwnsOrExpired
  <2> SUFFICES ASSUME OutboxInvariant, NEW w \in Workers, NEW e \in Events,
                      Holds(w, e), row[e].owner = w
               PROVE  /\ row[e].attempts = claimed[w].attempts
                      /\ ~ row[e].published
    BY DEF HolderOwnsOrExpired, OutboxInvariant, HolderKnows
  <2>1. Placed(e) /\ row[e].attempts = claimed[w].attempts
    BY DEF OutboxInvariant, HolderKnows
  <2>2. ~ row[e].published
    BY <2>1, NoneAssumption DEF OutboxInvariant, TableConstraints
  <2> QED
    BY <2>1, <2>2
<1> QED
  BY <1>1, InvariantHolds, PTL

\* No two workers carry the same attempt at the same event.
THEOREM DistinctAttempts == Spec => []ClaimsAreDistinct
<1>1. OutboxInvariant => ClaimsAreDistinct
  BY DEF OutboxInvariant
<1> QED
  BY <1>1, InvariantHolds, PTL

-----------------------------------------------------------------------------
(* What a step may do to a row *)

\* A step that changes a row places it, commits a claim on it, or settles it for
\* the worker that owns its lease.
LEMMA RowChange ==
  ASSUME OutboxInvariant, [Next]_vars, NEW e \in Events, row'[e] # row[e], Placed(e)
  PROVE  \E w \in Workers :
           /\ claimed[w] # None /\ claimed[w].event = e
           /\ Placed(e)'
           /\ \/ /\ pc[w] = "locked"
                 /\ row'[e].attempts = row[e].attempts + 1
                 /\ row'[e].lastAt = now[w]
              \/ /\ pc[w] \in {"sent", "releasing"}
                 /\ row[e].owner = w
                 /\ row'[e].owner = None
                 /\ row'[e].attempts = row[e].attempts
<1> USE DEF OutboxInvariant
<1>1. CASE \E f \in Events : place_order(f)
  BY <1>1 DEF place_order, Placed, TypeOK
<1>2. ASSUME NEW w \in Workers, pc[w] = "locked", WriteClaim(w)
      PROVE  /\ claimed[w] # None /\ claimed[w].event = e
             /\ Placed(e)'
             /\ row'[e].attempts = row[e].attempts + 1
             /\ row'[e].lastAt = now[w]
  BY <1>2, WriteClaimEffect, NoneAssumption DEF LockedRowUnchanged, TypeOK, Placed
<1>3. ASSUME NEW w \in Workers, mark_published(w)
      PROVE  /\ pc[w] = "sent"
             /\ claimed[w] # None /\ claimed[w].event = e
             /\ Placed(e)'
             /\ row[e].owner = w
             /\ row'[e].owner = None
             /\ row'[e].attempts = row[e].attempts
  BY <1>3, MarkEffect DEF TypeOK, Placed
<1>4. ASSUME NEW w \in Workers, release_for_retry(w)
      PROVE  /\ pc[w] = "releasing"
             /\ claimed[w] # None /\ claimed[w].event = e
             /\ Placed(e)'
             /\ row[e].owner = w
             /\ row'[e].owner = None
             /\ row'[e].attempts = row[e].attempts
  BY <1>4, ReleaseEffect DEF TypeOK, Placed
<1>5. \/ \E f \in Events : place_order(f)
      \/ \E w \in Workers : pc[w] = "locked" /\ WriteClaim(w)
      \/ \E w \in Workers : mark_published(w)
      \/ \E w \in Workers : release_for_retry(w)
  BY DEF Next, vars, LoopStep, ClaimStep, PublishStep, SettleStep, StartWorker,
         RequestShutdown, StopLoop, Crash, BeginClaim, LockDueRow, FindNothingDue,
         CommitClaim, CommitClaimUnseen, ClaimFails, SendAcknowledged, SendFails,
         BeginRelease, SettleFails, Tick
<1> QED
  BY <1>1, <1>2, <1>3, <1>4, <1>5

\* Nothing but its owner's settlement touches a row under an unexpired lease.
THEOREM LeaseProtection == Spec => LeaseProtectsRow
<1>1. ASSUME OutboxInvariant, [Next]_vars, NEW e \in Events, Placed(e),
             row[e].leaseEnd # None, row[e].leaseEnd > clock, row'[e] # row[e]
      PROVE  /\ pc[row[e].owner] \in {"sent", "releasing"}
             /\ claimed[row[e].owner].event = e
             /\ row'[e].owner = None
  <2>1. ASSUME NEW w \in Workers, pc[w] = "locked", claimed[w].event = e PROVE FALSE
    <3>1. row[e].leaseEnd <= now[w]
      BY <1>1, <2>1 DEF OutboxInvariant, LockedRowUnchanged, Due
    <3>2. now[w] <= clock /\ now[w] \in Nat
      BY <2>1, <1>1 DEF OutboxInvariant, TimesPast, TypeOK
    <3>3. row[e].leaseEnd \in Nat /\ clock \in Nat
      BY <1>1 DEF OutboxInvariant, TypeOK, Placed, OutboxEvent
    <3> QED
      BY <1>1, <3>1, <3>2, <3>3
  <2> QED
    BY <1>1, <2>1, RowChange
<1>2. OutboxInvariant /\ [Next]_vars =>
        [\A e \in Events :
           /\ Placed(e)
           /\ row[e].leaseEnd # None /\ row[e].leaseEnd > clock
           /\ row'[e] # row[e]
           => /\ pc[row[e].owner] \in {"sent", "releasing"}
              /\ claimed[row[e].owner].event = e
              /\ row'[e].owner = None]_vars
  BY <1>1
<1> QED
  BY <1>2, InvariantHolds, PTL DEF Spec, LeaseProtectsRow

\* A published row never changes again.
THEOREM PublicationIsFinal == Spec => PublishedIsFinal
<1>1. ASSUME OutboxInvariant, [Next]_vars, NEW e \in Events,
             Placed(e), row[e].published
      PROVE  row'[e] = row[e]
  <2>1. row[e].owner \notin Workers
    BY <1>1, NoneAssumption DEF OutboxInvariant, TableConstraints
  <2>2. ASSUME NEW w \in Workers, pc[w] = "locked", claimed[w].event = e PROVE FALSE
    BY <1>1, <2>2 DEF OutboxInvariant, LockedRowUnchanged, Due
  <2> QED
    BY <1>1, <2>1, <2>2, RowChange
<1>2. OutboxInvariant /\ [Next]_vars =>
        [\A e \in Events : Placed(e) /\ row[e].published => row'[e] = row[e]]_vars
  BY <1>1
<1> QED
  BY <1>2, InvariantHolds, PTL DEF Spec, PublishedIsFinal

\* Two attempts at one event are at least a lease or a backoff apart.
THEOREM RetriesArePaced == Spec => RetryPacing
<1>1. ASSUME OutboxInvariant, [Next]_vars, NEW e \in Events, Placed(e),
             row[e].attempts >= 1, row'[e].attempts # row[e].attempts
      PROVE  /\ row'[e].attempts = row[e].attempts + 1
             /\ row'[e].lastAt >= row[e].lastAt
                    + AtMost(LeaseDuration, backoff_delay(row[e].attempts))
  <2>1. PICK w \in Workers :
          /\ claimed[w] # None /\ claimed[w].event = e /\ pc[w] = "locked"
          /\ row'[e].attempts = row[e].attempts + 1
          /\ row'[e].lastAt = now[w]
    BY <1>1, RowChange
  <2> DEFINE d == backoff_delay(row[e].attempts)
  <2>2. row[e] \in OutboxEvent /\ row[e].attempts \in Nat /\ now[w] \in Nat
    BY <1>1, <2>1 DEF OutboxInvariant, TypeOK, Placed, OutboxEvent
  <2>3. d \in Nat /\ LeaseDuration \in Nat
    BY <1>1, <2>2, BackoffBounds, DurationsAssumption
  <2>4. row[e].lastAt \in Nat /\ row[e].nextAt \in Nat
    BY <1>1, <2>2 DEF OutboxInvariant, RowTimes, OutboxEvent
  <2>5. /\ ~ row[e].published
        /\ row[e].nextAt <= now[w]
        /\ row[e].leaseEnd # None => row[e].leaseEnd <= now[w]
    BY <1>1, <2>1 DEF OutboxInvariant, LockedRowUnchanged, Due
  <2>6. \/ row[e].leaseEnd = row[e].lastAt + LeaseDuration /\ row[e].leaseEnd # None
        \/ row[e].nextAt >= row[e].lastAt + d
    BY <1>1, <2>5 DEF OutboxInvariant, RowTimes, TableConstraints
  <2> HIDE DEF d
  <2>7. now[w] >= row[e].lastAt + AtMost(LeaseDuration, d)
    BY <2>2, <2>3, <2>4, <2>5, <2>6 DEF AtMost
  <2> QED
    BY <2>1, <2>7 DEF d
<1>2. OutboxInvariant /\ [Next]_vars =>
        [\A e \in Events :
           /\ Placed(e)
           /\ row[e].attempts >= 1
           /\ row'[e].attempts # row[e].attempts
           => /\ row'[e].attempts = row[e].attempts + 1
              /\ row'[e].lastAt >= row[e].lastAt
                     + AtMost(LeaseDuration, backoff_delay(row[e].attempts))]_vars
  BY <1>1
<1> QED
  BY <1>2, InvariantHolds, PTL DEF Spec, RetryPacing

-----------------------------------------------------------------------------
(* Copies on the topic *)

\* The sends the recorded attempts of an event allow, named by attempt and retry.
Sends(e) == (1 .. row[e].attempts) \X (0 .. SdkRetryTotal)

\* A worker that is sending has the current try and the later ones before it.
Pending(e, s) ==
    \E w \in Workers :
        /\ pc[w] = "sending" /\ claimed[w].event = e
        /\ s[1] = claimed[w].attempts
        /\ s[2] >= tries[w]

Spent(e) == {s \in Sends(e) : ~ Pending(e, s)}

\* Every copy on the topic is accounted for by a send that is over.
CopiesAccounted ==
    \A e \in Events : copies[e] <= IF Placed(e) THEN Cardinality(Spent(e)) ELSE 0

\* A finite number of attempts with as many tries each.
LEMMA TriesFinite ==
  ASSUME NEW n \in Nat
  PROVE  /\ IsFiniteSet((1 .. n) \X (0 .. SdkRetryTotal))
         /\ Cardinality((1 .. n) \X (0 .. SdkRetryTotal)) = n * (1 + SdkRetryTotal)
<1> DEFINE A == 1 .. n
           K == 0 .. SdkRetryTotal
<1>1. IsFiniteSet(A) /\ Cardinality(A) = n
  BY FS_Interval, SMT
<1>2. IsFiniteSet(K) /\ Cardinality(K) = 1 + SdkRetryTotal
  BY DurationsAssumption, FS_Interval, SMT
<1> HIDE DEF A, K
<1>3. IsFiniteSet(A \X K) /\ Cardinality(A \X K) = Cardinality(A) * Cardinality(K)
  BY <1>1, <1>2, FS_Product, Zenon
<1> QED
  BY <1>1, <1>2, <1>3 DEF A, K

\* Sends(e) is finite, with as many members as the bound allows copies.
LEMMA SendsFinite ==
  ASSUME TypeOK, NEW e \in Events, Placed(e)
  PROVE  /\ row[e].attempts \in Nat
         /\ IsFiniteSet(Sends(e))
         /\ Cardinality(Sends(e)) = row[e].attempts * (1 + SdkRetryTotal)
<1>1. row[e].attempts \in Nat
  BY DEF TypeOK, Placed, OutboxEvent
<1> QED
  BY <1>1, TriesFinite DEF Sends

\* What a step does to a worker that is sending after it: it was sending before,
\* with the same claim and no later try, or it commits the claim of a new attempt.
LEMMA SendersAfter ==
  ASSUME OutboxInvariant, [Next]_vars, NEW v \in Workers, pc'[v] = "sending"
  PROVE  /\ claimed'[v] = claimed[v]
         /\ \/ pc[v] = "sending" /\ tries'[v] >= tries[v]
            \/ pc[v] = "locked" /\ row[claimed[v].event].attempts < claimed[v].attempts
<1> USE DEF OutboxInvariant
<1>1. ASSUME NEW w \in Workers, CommitClaim(w)
      PROVE  /\ claimed' = claimed /\ tries' = tries
             /\ \A u \in Workers : u # w => pc'[u] = pc[u]
             /\ pc[w] = "locked"
             /\ row[claimed[w].event].attempts < claimed[w].attempts
  <2>1. pc[w] = "locked" /\ claimed[w] # None /\ Placed(claimed[w].event)
    BY <1>1 DEF CommitClaim, TypeOK
  <2>2. /\ claimed[w].attempts = row[claimed[w].event].attempts + 1
        /\ row[claimed[w].event].attempts \in Nat
    BY <2>1, CarrierTypes DEF LockedRowUnchanged, OutboxEvent
  <2> QED
    BY <1>1, <2>1, <2>2 DEF CommitClaim, Goto, TypeOK
<1>2. ASSUME NEW w \in Workers, SendFails(w)
      PROVE  /\ claimed' = claimed
             /\ \A u \in Workers : u # w => pc'[u] = pc[u] /\ tries'[u] = tries[u]
             /\ pc[w] = "sending"
             /\ pc'[w] = "sending" => tries'[w] >= tries[w]
  BY <1>2, DurationsAssumption DEF SendFails, Goto, TypeOK
<1>3. ASSUME UNCHANGED <<pc, claimed, tries>>
      PROVE  /\ claimed'[v] = claimed[v] /\ pc[v] = "sending" /\ tries'[v] >= tries[v]
  <2>1. tries[v] \in 0 .. SdkRetryTotal
    BY DEF TypeOK
  <2> QED
    BY <1>3, <2>1, DurationsAssumption
<1>4. ASSUME NEW w \in Workers, pc'[w] # "sending",
             \A u \in Workers : u # w =>
                pc'[u] = pc[u] /\ claimed'[u] = claimed[u] /\ tries'[u] = tries[u]
      PROVE  /\ claimed'[v] = claimed[v] /\ pc[v] = "sending" /\ tries'[v] >= tries[v]
  <2>1. tries[v] \in 0 .. SdkRetryTotal
    BY DEF TypeOK
  <2> QED
    BY <1>4, <2>1, DurationsAssumption
<1>5. \/ UNCHANGED <<pc, claimed, tries>>
      \/ \E w \in Workers :
           \/ CommitClaim(w)
           \/ SendFails(w)
           \/ /\ pc'[w] # "sending"
              /\ \A u \in Workers : u # w =>
                   pc'[u] = pc[u] /\ claimed'[u] = claimed[u] /\ tries'[u] = tries[u]
  <2>1. CASE UNCHANGED vars
    BY <2>1 DEF vars
  <2>2. CASE Tick \/ \E e \in Events : place_order(e)
    BY <2>2 DEF Tick, place_order, workerVars
  <2>3. CASE \E w \in Workers : LoopStep(w)
    BY <2>3 DEF LoopStep, StartWorker, RequestShutdown, StopLoop, Crash, LeaveRunOnce,
                Goto, TypeOK
  <2>4. CASE \E w \in Workers : ClaimStep(w)
    BY <2>4 DEF ClaimStep, BeginClaim, LockDueRow, FindNothingDue, CommitClaimUnseen,
                ClaimFails, LeaveRunOnce, Goto, TypeOK
  <2>5. CASE \E w \in Workers : PublishStep(w)
    BY <2>5 DEF PublishStep, SendAcknowledged, Goto, TypeOK
  <2>6. CASE \E w \in Workers : SettleStep(w)
    BY <2>6 DEF SettleStep, mark_published, BeginRelease, release_for_retry, SettleFails,
                LeaveRunOnce, Goto, TypeOK
  <2> QED
    BY <2>1, <2>2, <2>3, <2>4, <2>5, <2>6 DEF Next
<1> HIDE DEF OutboxInvariant
<1>6. CASE \E w \in Workers : CommitClaim(w)
  <2>1. PICK w \in Workers : CommitClaim(w)
    BY <1>6
  <2>2. tries[v] \in 0 .. SdkRetryTotal
    BY DEF OutboxInvariant, TypeOK
  <2>3. CASE v = w
    BY <1>1, <2>1, <2>3
  <2>4. CASE v # w
    BY <1>1, <2>1, <2>2, <2>4, DurationsAssumption
  <2> QED
    BY <2>3, <2>4
<1>7. CASE \E w \in Workers : SendFails(w)
  <2>1. PICK w \in Workers : SendFails(w)
    BY <1>7
  <2>2. tries[v] \in 0 .. SdkRetryTotal
    BY DEF OutboxInvariant, TypeOK
  <2>3. CASE v = w
    BY <1>2, <2>1, <2>3
  <2>4. CASE v # w
    BY <1>2, <2>1, <2>2, <2>4, DurationsAssumption
  <2> QED
    BY <2>3, <2>4
<1> QED
  BY <1>3, <1>4, <1>5, <1>6, <1>7

\* Attempts never decrease and a send that is over stays over: what an event has
\* spent is never given back.
LEMMA SpentGrows ==
  ASSUME OutboxInvariant, [Next]_vars, NEW e \in Events, Placed(e)
  PROVE  Placed(e)' /\ Spent(e) \subseteq Spent(e)'
<1>1. TypeOK /\ row[e].attempts \in Nat
  BY SendsFinite DEF OutboxInvariant
<1>2. Placed(e)' /\ row'[e].attempts \in {row[e].attempts, row[e].attempts + 1}
  BY RowChange DEF Placed
<1>3. ASSUME NEW s \in Sends(e), ~ Pending(e, s)
      PROVE  s \in Sends(e)' /\ ~ Pending(e, s)'
  <2>1. s[1] \in 1 .. row[e].attempts /\ s \in Sends(e)' /\ s[2] \in 0 .. SdkRetryTotal
    BY <1>1, <1>2, <1>3 DEF Sends
  <2>2. ASSUME NEW v \in Workers, pc'[v] = "sending", claimed'[v].event = e,
               s[1] = claimed'[v].attempts, s[2] >= tries'[v]
        PROVE  FALSE
    <3>1. claimed'[v] = claimed[v]
      BY <2>2, SendersAfter
    <3>2. CASE pc[v] = "sending" /\ tries'[v] >= tries[v]
      <4>1. tries[v] \in 0 .. SdkRetryTotal /\ tries'[v] \in 0 .. SdkRetryTotal
        BY <1>1, TypeOKStep DEF TypeOK
      <4>2. s[2] >= tries[v]
        BY <2>1, <2>2, <3>2, <4>1, DurationsAssumption
      <4> QED
        BY <1>3, <2>2, <3>1, <3>2, <4>2 DEF Pending
    <3>3. CASE row[claimed[v].event].attempts < claimed[v].attempts
      BY <1>1, <2>1, <2>2, <3>1, <3>3
    <3> QED
      BY <2>2, <3>2, <3>3, SendersAfter
  <2> QED
    BY <2>1, <2>2 DEF Pending
<1> QED
  BY <1>2, <1>3 DEF Spent

\* A copy reaches the topic only by a send that was pending and is over after it.
LEMMA SendSpends ==
  ASSUME OutboxInvariant, NEW w \in Workers, pc[w] = "sending",
         SendAcknowledged(w) \/ SendFails(w),
         NEW e \in Events, e = claimed[w].event,
         NEW n, n = claimed[w].attempts,
         NEW k, k = tries[w]
  PROVE  <<n, k>> \notin Spent(e) /\ <<n, k>> \in Spent(e)'
<1>1. TypeOK /\ ClaimsAreDistinct /\ HolderKnows
  BY DEF OutboxInvariant
<1>2. /\ claimed[w] # None
      /\ n \in Nat /\ n >= 1
      /\ k \in 0 .. SdkRetryTotal /\ SdkRetryTotal \in Nat
  BY <1>1, CarrierTypes, DurationsAssumption DEF TypeOK
<1>3. n <= row[e].attempts /\ row[e].attempts \in Nat
  BY <1>1, <1>2, SendsFinite DEF HolderKnows, Holds
<1>4. UNCHANGED <<row, claimed>>
  BY DEF SendAcknowledged, SendFails
<1>5. <<n, k>> \in Sends(e) /\ <<n, k>> \in Sends(e)'
  BY <1>2, <1>3, <1>4 DEF Sends
<1>6. Pending(e, <<n, k>>)
  BY <1>2 DEF Pending
<1>7. ASSUME NEW v \in Workers, pc'[v] = "sending", claimed[v].event = e,
             n = claimed[v].attempts, k >= tries'[v]
      PROVE  FALSE
  <2>1. CASE v = w
    BY <1>1, <1>2, <1>7, <2>1 DEF SendAcknowledged, SendFails, Goto, TypeOK
  <2>2. CASE v # w
    <3>1. pc[v] = "sending"
      BY <1>1, <1>7, <2>2 DEF SendAcknowledged, SendFails, Goto, TypeOK
    <3>2. claimed[v] # None
      BY <1>1, <3>1 DEF TypeOK
    <3> QED
      BY <1>1, <1>2, <1>7, <2>2, <3>2 DEF ClaimsAreDistinct
  <2> QED
    BY <2>1, <2>2
<1>8. ~ Pending(e, <<n, k>>)'
  BY <1>4, <1>7 DEF Pending
<1> QED
  BY <1>5, <1>6, <1>8 DEF Spent

\* Every step accounts for the copies it puts on the topic.
LEMMA CopiesAccountedStep ==
  ASSUME OutboxInvariant, CopiesAccounted, [Next]_vars PROVE CopiesAccounted'
<1> SUFFICES ASSUME NEW e \in Events
             PROVE  copies'[e] <= IF Placed(e)' THEN Cardinality(Spent(e)') ELSE 0
  BY DEF CopiesAccounted
<1>1. TypeOK /\ TypeOK'
  BY TypeOKStep DEF OutboxInvariant
<1>2. copies[e] \in Nat /\ copies'[e] \in Nat
  BY <1>1 DEF TypeOK
<1>3. ASSUME Placed(e)'
      PROVE  IsFiniteSet(Spent(e)') /\ Cardinality(Spent(e)') \in Nat
  <2>1. row'[e].attempts \in Nat
    BY <1>1, <1>3 DEF TypeOK, Placed, OutboxEvent
  <2>2. IsFiniteSet((1 .. row'[e].attempts) \X (0 .. SdkRetryTotal))
    BY <2>1, TriesFinite
  <2>3. Spent(e)' \in SUBSET ((1 .. row'[e].attempts) \X (0 .. SdkRetryTotal))
    BY DEF Spent, Sends
  <2> QED
    BY <2>2, <2>3, FS_Subset, FS_CardinalityType
<1>4. ASSUME Placed(e)
      PROVE  /\ Placed(e)' /\ Spent(e) \subseteq Spent(e)'
             /\ IsFiniteSet(Spent(e)) /\ Cardinality(Spent(e)) \in Nat
             /\ Cardinality(Spent(e)) <= Cardinality(Spent(e)')
             /\ copies[e] <= Cardinality(Spent(e))
  BY <1>3, <1>4, SpentGrows, FS_Subset, FS_CardinalityType DEF CopiesAccounted
<1>5. CASE copies'[e] = copies[e]
  BY <1>2, <1>3, <1>4, <1>5 DEF CopiesAccounted
<1>6. CASE copies'[e] # copies[e]
  <2>1. PICK w \in Workers : /\ pc[w] = "sending" /\ Accept(claimed[w].event)
                             /\ SendAcknowledged(w) \/ SendFails(w)
    BY <1>6 DEF Next, vars, LoopStep, ClaimStep, PublishStep, SettleStep, StartWorker,
         RequestShutdown, StopLoop, Crash, BeginClaim, LockDueRow, FindNothingDue,
         CommitClaim, CommitClaimUnseen, ClaimFails, SendAcknowledged, SendFails,
         mark_published, BeginRelease, release_for_retry, SettleFails, place_order, Tick
  <2>2. claimed[w].event = e /\ copies'[e] = copies[e] + 1
    BY <1>1, <1>6, <2>1 DEF Accept, TypeOK
  <2>3. Placed(e)
    BY <1>1, <2>1, <2>2 DEF TypeOK
  <2>4. PICK s : s \notin Spent(e) /\ s \in Spent(e)'
    <3>1. PICK n, k : n = claimed[w].attempts /\ k = tries[w]
      OBVIOUS
    <3>2. <<n, k>> \notin Spent(e) /\ <<n, k>> \in Spent(e)'
      BY <2>1, <2>2, <3>1, SendSpends
    <3> QED
      BY <3>2
  <2>5. /\ Cardinality(Spent(e) \union {s}) = Cardinality(Spent(e)) + 1
        /\ Spent(e) \union {s} \in SUBSET Spent(e)'
    BY <1>4, <2>3, <2>4, FS_AddElement
  <2>6. Cardinality(Spent(e) \union {s}) <= Cardinality(Spent(e)')
    BY <1>3, <1>4, <2>3, <2>5, FS_Subset
  <2> QED
    BY <1>2, <1>3, <1>4, <2>2, <2>3, <2>5, <2>6
<1> QED
  BY <1>5, <1>6

\* Every attempt puts at most one copy more on the topic than the SDK retries: the
\* sends the attempts allow bound the copies, however slow a worker that lost its
\* lease still is.
THEOREM CopiesAreBounded == Spec => []CopiesBounded
<1>1. Init => CopiesAccounted
  <2> SUFFICES ASSUME Init, NEW e \in Events
               PROVE  copies[e] <= IF Placed(e) THEN Cardinality(Spent(e)) ELSE 0
    BY DEF CopiesAccounted
  <2>1. ~ Placed(e) /\ copies[e] = 0
    BY DEF Init, Placed
  <2> QED
    BY <2>1
<1>2. ASSUME OutboxInvariant, CopiesAccounted PROVE CopiesBounded
  <2> SUFFICES ASSUME NEW e \in Events
               PROVE  copies[e] <= IF Placed(e)
                                   THEN row[e].attempts * (1 + SdkRetryTotal) ELSE 0
    BY DEF CopiesBounded
  <2>1. CASE Placed(e)
    <3>1. /\ IsFiniteSet(Sends(e)) /\ Spent(e) \in SUBSET Sends(e)
          /\ Cardinality(Sends(e)) = row[e].attempts * (1 + SdkRetryTotal)
      BY <1>2, <2>1, SendsFinite DEF OutboxInvariant, Spent
    <3>2. /\ Cardinality(Spent(e)) <= Cardinality(Sends(e))
          /\ Cardinality(Spent(e)) \in Nat /\ Cardinality(Sends(e)) \in Nat
      BY <3>1, FS_Subset, FS_CardinalityType
    <3>3. copies[e] <= Cardinality(Spent(e)) /\ copies[e] \in Nat
      BY <1>2, <2>1 DEF CopiesAccounted, OutboxInvariant, TypeOK
    <3>4. copies[e] <= Cardinality(Sends(e))
      BY <3>2, <3>3
    <3> QED
      BY <2>1, <3>1, <3>4
  <2>2. CASE ~ Placed(e)
    BY <1>2, <2>2 DEF CopiesAccounted
  <2> QED
    BY <2>1, <2>2
<1>3. OutboxInvariant /\ CopiesAccounted /\ [Next]_vars => CopiesAccounted'
  BY CopiesAccountedStep
<1>4. OutboxInvariant /\ CopiesAccounted => CopiesBounded
  BY <1>2
<1> QED
  BY <1>1, <1>3, <1>4, InvariantHolds, PTL DEF Spec

-----------------------------------------------------------------------------
(* Shutdown, where no transaction fails *)

\* A live worker owns only the row of the event it carries.
OwnsOnlyWhatItHolds ==
    \A w \in Workers, e \in Events :
        Placed(e) /\ row[e].owner = w => pc[w] = "crashed" \/ Holds(w, e)

\* Without failing transactions no step lets a worker go while it owns a lease.
LEMMA OwnershipStep ==
  ASSUME ~ DatabaseFaults, OutboxInvariant, OwnsOnlyWhatItHolds, [Next]_vars
  PROVE  OwnsOnlyWhatItHolds'
<1> SUFFICES ASSUME NEW v \in Workers, NEW e \in Events, Placed(e)', row'[e].owner = v
             PROVE  pc'[v] = "crashed" \/ Holds(v, e)'
  BY DEF OwnsOnlyWhatItHolds
<1>1. TypeOK /\ TypeOK'
  BY TypeOKStep DEF OutboxInvariant
<1>2. ASSUME row'[e] = row[e]
      PROVE  pc[v] = "crashed" \/ Holds(v, e)
  BY <1>2 DEF OwnsOnlyWhatItHolds, Placed
<1>3. ASSUME row'[e] = row[e], pc'[v] = pc[v], claimed'[v] = claimed[v]
      PROVE  pc'[v] = "crashed" \/ Holds(v, e)'
  BY <1>2, <1>3 DEF Holds
<1>4. ASSUME NEW f \in Events, place_order(f) PROVE pc'[v] = "crashed" \/ Holds(v, e)'
  <2>1. pc' = pc /\ claimed' = claimed
    BY <1>4 DEF place_order, workerVars
  <2>2. CASE e # f
    BY <1>1, <1>3, <1>4, <2>1, <2>2 DEF place_order, TypeOK
  <2>3. CASE e = f
    BY <1>1, <1>4, <2>3, NoneAssumption DEF place_order, TypeOK
  <2> QED
    BY <2>2, <2>3
<1>5. ASSUME NEW w \in Workers, CommitClaim(w) PROVE pc'[v] = "crashed" \/ Holds(v, e)'
  <2>1. /\ pc[w] = "locked" /\ WriteClaim(w) /\ claimed' = claimed
        /\ pc'[w] = "sending" /\ \A u \in Workers : u # w => pc'[u] = pc[u]
    BY <1>1, <1>5 DEF CommitClaim, Goto, TypeOK
  <2>2. CASE claimed[w].event = e
    BY <1>1, <2>1, <2>2, WriteClaimEffect DEF Holds
  <2>3. CASE claimed[w].event # e
    <3>1. row'[e] = row[e]
      BY <1>1, <2>1, <2>3, WriteClaimEffect
    <3>2. CASE v # w
      BY <1>3, <2>1, <3>1, <3>2
    <3>3. CASE v = w
      BY <1>2, <2>1, <3>1, <3>3 DEF Holds
    <3> QED
      BY <3>2, <3>3
  <2> QED
    BY <2>2, <2>3
<1>6. ASSUME NEW w \in Workers, mark_published(w) \/ release_for_retry(w)
      PROVE  pc'[v] = "crashed" \/ Holds(v, e)'
  <2>1. \A u \in Workers : u # w => pc'[u] = pc[u] /\ claimed'[u] = claimed[u]
    BY <1>1, <1>6 DEF mark_published, release_for_retry, LeaveRunOnce, Goto, TypeOK
  <2>2. /\ claimed[w].event # e => row'[e] = row[e]
        /\ claimed[w].event = e => \/ row'[e] = row[e] /\ row[e].owner # w
                                   \/ row'[e].owner = None
    BY <1>1, <1>6, MarkEffect, ReleaseEffect
  <2>3. row'[e].owner # None
    BY NoneAssumption
  <2>4. CASE v # w
    BY <1>3, <2>1, <2>2, <2>3, <2>4
  <2>5. CASE v = w
    <3>1. pc[w] \in {"sent", "releasing"}
      BY <1>6 DEF mark_published, release_for_retry
    <3> QED
      BY <1>2, <2>2, <2>3, <2>5, <3>1 DEF Holds
  <2> QED
    BY <2>4, <2>5
<1>7. ASSUME row' = row,
             NEW w \in Workers,
             \A u \in Workers : u # w => pc'[u] = pc[u] /\ claimed'[u] = claimed[u],
             \/ pc'[w] = "crashed"
             \/ pc[w] \in {"off", "loop", "claiming"}
             \/ /\ pc[w] # "crashed"
                /\ pc'[w] \in {"sending", "sent", "failed", "releasing"}
                /\ claimed'[w] = claimed[w]
      PROVE  pc'[v] = "crashed" \/ Holds(v, e)'
  BY <1>2, <1>3, <1>7 DEF Holds
<1>8. ASSUME UNCHANGED <<row, pc, claimed>> PROVE pc'[v] = "crashed" \/ Holds(v, e)'
  BY <1>3, <1>8
<1>9. ASSUME NEW w \in Workers,
             LoopStep(w) \/ BeginClaim(w) \/ LockDueRow(w) \/ FindNothingDue(w)
               \/ PublishStep(w) \/ BeginRelease(w)
      PROVE  \/ UNCHANGED <<row, pc, claimed>>
             \/ /\ row' = row
                /\ \A u \in Workers : u # w => pc'[u] = pc[u] /\ claimed'[u] = claimed[u]
                /\ \/ pc'[w] = "crashed"
                   \/ pc[w] \in {"off", "loop", "claiming"}
                   \/ /\ pc[w] # "crashed"
                      /\ pc'[w] \in {"sending", "sent", "failed", "releasing"}
                      /\ claimed'[w] = claimed[w]
  <2>1. CASE LoopStep(w)
    BY <1>1, <2>1 DEF LoopStep, StartWorker, RequestShutdown, StopLoop, Crash, LeaveRunOnce,
                      Goto, TypeOK
  <2>2. CASE BeginClaim(w) \/ LockDueRow(w) \/ FindNothingDue(w)
    BY <1>1, <2>2 DEF BeginClaim, LockDueRow, FindNothingDue, LeaveRunOnce, Goto, TypeOK
  <2>3. CASE PublishStep(w) \/ BeginRelease(w)
    BY <1>1, <2>3 DEF PublishStep, SendAcknowledged, SendFails, BeginRelease, Goto, TypeOK
  <2> QED
    BY <1>9, <2>1, <2>2, <2>3
<1>10. \/ \E f \in Events : place_order(f)
       \/ \E w \in Workers :
            \/ CommitClaim(w) \/ mark_published(w) \/ release_for_retry(w)
            \/ LoopStep(w) \/ BeginClaim(w) \/ LockDueRow(w) \/ FindNothingDue(w)
            \/ PublishStep(w) \/ BeginRelease(w)
       \/ UNCHANGED <<row, pc, claimed>>
  BY DEF Next, ClaimStep, SettleStep, CommitClaimUnseen, ClaimFails, SettleFails, Tick,
         workerVars, vars
<1> QED
  BY <1>4, <1>5, <1>6, <1>7, <1>8, <1>9, <1>10

\* A process that stopped left no row under its lease.
THEOREM StopsCleanly ==
  ASSUME ~ DatabaseFaults PROVE Spec => []StoppedLeavesNoLease
<1>1. Init => OwnsOnlyWhatItHolds
  BY DEF Init, OwnsOnlyWhatItHolds, Placed
<1>2. OutboxInvariant /\ OwnsOnlyWhatItHolds /\ [Next]_vars => OwnsOnlyWhatItHolds'
  BY OwnershipStep
<1>3. OwnsOnlyWhatItHolds => StoppedLeavesNoLease
  BY DEF OwnsOnlyWhatItHolds, StoppedLeavesNoLease, Holds
<1> QED
  BY <1>1, <1>2, <1>3, InvariantHolds, PTL DEF Spec

-----------------------------------------------------------------------------
(* Refinement *)

\* A step hands at most one copy to the broker.
LEMMA OneCopyAtATime ==
  ASSUME TypeOK, [Next]_vars
  PROVE  /\ \A e \in Events : copies'[e] = copies[e] \/ copies'[e] = copies[e] + 1
         /\ \A e, f \in Events : copies'[e] # copies[e] /\ copies'[f] # copies[f] => e = f
<1>1. \/ UNCHANGED copies
      \/ \E w \in Workers : pc[w] = "sending" /\ Accept(claimed[w].event)
  BY DEF Next, vars, LoopStep, ClaimStep, PublishStep, SettleStep, place_order, StartWorker,
         RequestShutdown, StopLoop, Crash, BeginClaim, LockDueRow, FindNothingDue,
         CommitClaim, CommitClaimUnseen, ClaimFails, SendAcknowledged, SendFails,
         mark_published, BeginRelease, release_for_retry, SettleFails, Tick
<1>2. ASSUME NEW w \in Workers, pc[w] = "sending", Accept(claimed[w].event)
      PROVE  \E e \in Events : copies' = [copies EXCEPT ![e] = @ + 1]
  BY <1>2, CarrierTypes DEF Accept, TypeOK
<1> QED
  BY <1>1, <1>2 DEF TypeOK

\* Every step of the outbox places, delivers or records one event as module
\* Delivery allows, or changes none of the three sets.
LEMMA DeliveryStep ==
  ASSUME OutboxInvariant, [Next]_vars
  PROVE  [D!DeliveryNext]_(D!deliveryVars)
<1> DEFINE placed == {e \in Events : Placed(e)}
           delivered == {e \in Events : copies[e] > 0}
           recorded == {e \in Events : Placed(e) /\ row[e].published}
<1> USE DEF OutboxInvariant
<1> SUFFICES \/ \E e \in Events : D!Place(e) \/ D!Deliver(e) \/ D!Record(e)
             \/ placed' = placed /\ delivered' = delivered /\ recorded' = recorded
  BY DEF D!DeliveryNext, D!deliveryVars
<1>1. ASSUME NEW e \in Events, place_order(e) PROVE D!Place(e)
  <2> DEFINE r == [published |-> FALSE, attempts |-> 0, nextAt |-> clock,
                   owner |-> None, leaseEnd |-> None, lastAt |-> None]
  <2>1. r \in OutboxEvent /\ r # None /\ ~ r.published
    <3>1. clock \in Nat
      BY DEF TypeOK
    <3>2. r \in OutboxEvent /\ ~ r.published
      BY <3>1 DEF OutboxEvent
    <3> QED
      BY <3>2, NoneAssumption
  <2>2. ~ Placed(e) /\ copies' = copies /\ row' = [row EXCEPT ![e] = r]
    BY <1>1 DEF place_order
  <2> HIDE DEF r
  <2>3. /\ row'[e] # None /\ ~ row'[e].published
        /\ \A f \in Events : f # e => row'[f] = row[f]
    BY <2>1, <2>2 DEF TypeOK
  <2> QED
    BY <2>2, <2>3 DEF D!Place, Placed
<1>2. ASSUME NEW w \in Workers, NEW e \in Events, e = claimed[w].event,
             Accept(claimed[w].event), pc[w] = "sending", row' = row
      PROVE  D!Deliver(e)
  <2>1. Placed(e)
    BY <1>2 DEF TypeOK
  <2>2. /\ \A f \in Events : f # e => copies'[f] = copies[f]
        /\ copies'[e] > 0
    BY <1>2 DEF Accept, TypeOK
  <2> QED
    BY <1>2, <2>1, <2>2 DEF D!Deliver, Placed
<1>3. ASSUME NEW w \in Workers, NEW e \in Events, e = claimed[w].event,
             mark_published(w), row[e].owner = w
      PROVE  D!Record(e)
  <2>1. /\ pc[w] = "sent"
        /\ \A f \in Events : f # e => row'[f] = row[f]
        /\ row[e] # None /\ row'[e] # None /\ row'[e].published
    BY <1>3, MarkEffect
  <2>2. copies' = copies
    BY <1>3 DEF mark_published
  <2>3. copies[e] > 0
    BY <1>3, <2>1 DEF HolderKnows, Holds, TypeOK
  <2>4. ~ row[e].published
    BY <1>3, <2>1, NoneAssumption DEF TableConstraints, Placed
  <2> QED
    BY <2>1, <2>2, <2>3, <2>4 DEF D!Record, Placed
<1>4. ASSUME UNCHANGED copies,
             \A f \in Events : Placed(f)' = Placed(f),
             \A f \in Events : Placed(f) => row'[f].published = row[f].published
      PROVE  placed' = placed /\ delivered' = delivered /\ recorded' = recorded
  BY <1>4
<1>5. ASSUME NEW w \in Workers, mark_published(w), row[claimed[w].event].owner # w
      PROVE  placed' = placed /\ delivered' = delivered /\ recorded' = recorded
  <2>1. UNCHANGED copies
    BY <1>5 DEF mark_published
  <2>2. \A f \in Events : row'[f] = row[f]
    BY <1>5, MarkEffect
  <2> QED
    BY <1>4, <2>1, <2>2 DEF Placed
<1>6. ASSUME NEW w \in Workers, release_for_retry(w)
      PROVE  placed' = placed /\ delivered' = delivered /\ recorded' = recorded
  <2>1. UNCHANGED copies
    BY <1>6 DEF release_for_retry
  <2>2. \A f \in Events : /\ Placed(f)' = Placed(f)
                          /\ row'[f].published = row[f].published
    BY <1>6, ReleaseEffect DEF Placed
  <2> QED
    BY <1>4, <2>1, <2>2
<1>7. ASSUME NEW w \in Workers, pc[w] = "locked", WriteClaim(w), UNCHANGED copies
      PROVE  placed' = placed /\ delivered' = delivered /\ recorded' = recorded
  <2>1. claimed[w] # None /\ row[claimed[w].event] # None
    BY <1>7 DEF TypeOK, Placed
  <2>2. \A f \in Events : /\ Placed(f)' = Placed(f)
                          /\ row'[f].published = row[f].published
    BY <1>7, <2>1, WriteClaimEffect, NoneAssumption DEF Placed
  <2> QED
    BY <1>4, <1>7, <2>2
<1>8. ASSUME UNCHANGED <<row, copies>>
      PROVE  placed' = placed /\ delivered' = delivered /\ recorded' = recorded
  BY <1>8 DEF Placed
<1>9. \/ \E e \in Events : place_order(e)
      \/ \E w \in Workers : /\ pc[w] = "sending"
                            /\ Accept(claimed[w].event)
                            /\ row' = row
      \/ \E w \in Workers : mark_published(w)
      \/ \E w \in Workers : release_for_retry(w)
      \/ \E w \in Workers : pc[w] = "locked" /\ WriteClaim(w) /\ UNCHANGED copies
      \/ UNCHANGED <<row, copies>>
  BY DEF Next, vars, LoopStep, ClaimStep, PublishStep, SettleStep, StartWorker,
         RequestShutdown, StopLoop, Crash, BeginClaim, LockDueRow, FindNothingDue,
         CommitClaim, CommitClaimUnseen, ClaimFails, SendAcknowledged, SendFails,
         BeginRelease, SettleFails, Tick
<1> HIDE DEF placed, delivered, recorded, OutboxInvariant
<1>10. CASE \E e \in Events : place_order(e)
  BY <1>1, <1>10
<1>11. CASE \E w \in Workers : /\ pc[w] = "sending"
                             /\ Accept(claimed[w].event)
                             /\ row' = row
  <2>1. PICK w \in Workers : pc[w] = "sending" /\ Accept(claimed[w].event) /\ row' = row
    BY <1>11
  <2>2. PICK e \in Events : e = claimed[w].event
    BY <2>1, CarrierTypes DEF OutboxInvariant, TypeOK
  <2>3. D!Deliver(e)
    BY <1>2, <2>1, <2>2
  <2> QED
    BY <2>3
<1>12. CASE \E w \in Workers : mark_published(w)
  <2>1. PICK w \in Workers : mark_published(w)
    BY <1>12
  <2>2. PICK e \in Events : e = claimed[w].event
    BY <2>1, MarkEffect DEF OutboxInvariant
  <2>3. CASE row[e].owner = w
    <3>1. D!Record(e)
      BY <1>3, <2>1, <2>2, <2>3
    <3> QED
      BY <3>1
  <2>4. CASE row[e].owner # w
    BY <1>5, <2>1, <2>2, <2>4
  <2> QED
    BY <2>3, <2>4
<1>13. CASE \E w \in Workers : release_for_retry(w)
  BY <1>6, <1>13
<1>14. CASE \E w \in Workers : pc[w] = "locked" /\ WriteClaim(w) /\ UNCHANGED copies
  BY <1>7, <1>14
<1> QED
  BY <1>8, <1>9, <1>10, <1>11, <1>12, <1>13, <1>14

\* The workers, their leases and retries implement at-least-once delivery.
THEOREM OutboxImplementsDelivery == Spec => ImplementsDelivery
<1>1. Init => D!DeliveryInit
  BY NoneAssumption DEF Init, D!DeliveryInit, Placed
<1>2. OutboxInvariant /\ [Next]_vars => [D!DeliveryNext]_(D!deliveryVars)
  BY DeliveryStep
<1> QED
  BY <1>1, <1>2, InvariantHolds, PTL DEF Spec, ImplementsDelivery, D!DeliverySpec
=============================================================================
