---------------------------- MODULE PipelineProofs ----------------------------
(***************************************************************************)
(* Proofs about module Pipeline.  The theorems about the two services are  *)
(* taken over as they stand: their steps are the steps of the pipeline, so *)
(* what is left to prove is that the topic keeps them in agreement.        *)
(***************************************************************************)
EXTENDS Pipeline, TLAPS

OP == INSTANCE OutboxProofs WITH
        pc <- publisherPc, shutdown <- publisherShutdown, DatabaseFaults <- PublisherFaults

FP == INSTANCE FulfilmentProofs WITH pc <- consumerPc, shutdown <- consumerShutdown

-----------------------------------------------------------------------------
(* The two services *)

\* The publishers' module is the one its theorems are about.
LEMMA SameOutboxInit == O!Init => OP!Init
  BY DEF O!Init, OP!Init

LEMMA SameOutboxNext == O!Next => OP!Next
<1> USE DEF O!Placed, OP!Placed, O!Goto, OP!Goto, O!LeaveRunOnce, OP!LeaveRunOnce,
            O!workerVars, OP!workerVars, O!Running, OP!Running
<1>1. ASSUME NEW e \in Events, O!place_order(e) PROVE OP!place_order(e)
  BY <1>1 DEF O!place_order, OP!place_order
<1>2. ASSUME NEW w \in Workers, O!LoopStep(w) PROVE OP!LoopStep(w)
  BY <1>2 DEF O!LoopStep, OP!LoopStep, O!StartWorker, OP!StartWorker,
     O!RequestShutdown, OP!RequestShutdown, O!StopLoop, OP!StopLoop, O!Crash, OP!Crash
<1>3. ASSUME NEW w \in Workers, O!ClaimStep(w) PROVE OP!ClaimStep(w)
  BY <1>3 DEF O!ClaimStep, OP!ClaimStep, O!BeginClaim, OP!BeginClaim,
     O!LockDueRow, OP!LockDueRow, O!FindNothingDue, OP!FindNothingDue,
     O!Claimable, OP!Claimable, O!Due, OP!Due, O!RowLocked, OP!RowLocked,
     O!WriteClaim, OP!WriteClaim, O!CommitClaim, OP!CommitClaim,
     O!CommitClaimUnseen, OP!CommitClaimUnseen, O!ClaimFails, OP!ClaimFails
<1>4. ASSUME NEW w \in Workers, O!PublishStep(w) PROVE OP!PublishStep(w)
  BY <1>4 DEF O!PublishStep, OP!PublishStep, O!SendAcknowledged, OP!SendAcknowledged,
     O!SendFails, OP!SendFails, O!Accept, OP!Accept
<1>5. ASSUME NEW w \in Workers, O!SettleStep(w) PROVE OP!SettleStep(w)
  BY <1>5 DEF O!SettleStep, OP!SettleStep, O!mark_published, OP!mark_published,
     O!BeginRelease, OP!BeginRelease, O!release_for_retry, OP!release_for_retry,
     O!SettleFails, OP!SettleFails, O!Settle, OP!Settle, O!RowLocked, OP!RowLocked,
     O!backoff_delay, OP!backoff_delay, O!AtMost, OP!AtMost,
     O!MAX_BACKOFF_EXPONENT, OP!MAX_BACKOFF_EXPONENT
<1>6. O!Tick => OP!Tick
  BY DEF O!Tick, OP!Tick
<1> QED
  BY <1>1, <1>2, <1>3, <1>4, <1>5, <1>6 DEF O!Next, OP!Next

\* And so is the consumers'.
LEMMA SameFulfilmentInit == F!Init => FP!Init
  BY DEF F!Init, FP!Init

LEMMA SameEnqueue == ASSUME NEW m \in Messages, F!Enqueue(m) PROVE FP!Enqueue(m)
  BY DEF F!Enqueue, FP!Enqueue, F!tableVars, FP!tableVars, F!Cardinality, FP!Cardinality

LEMMA SameFulfilmentNext == F!Next => FP!Next
<1> USE DEF F!Goto, FP!Goto, F!tableVars, FP!tableVars, F!brokerVars, FP!brokerVars,
            F!Running, FP!Running, F!Working, FP!Working, F!Ended, FP!Ended,
            F!Current, FP!Current, F!CurrentEvent, FP!CurrentEvent,
            F!EndProcess, FP!EndProcess
<1>1. ASSUME NEW m \in Messages, F!LockExpires(m) PROVE FP!LockExpires(m)
  BY <1>1 DEF F!LockExpires, FP!LockExpires, F!Returned, FP!Returned, F!Settled, FP!Settled
<1>2. ASSUME NEW c \in Consumers, F!StartConsumer(c) \/ F!RequestShutdown(c) \/ F!Crash(c)
      PROVE  FP!StartConsumer(c) \/ FP!RequestShutdown(c) \/ FP!Crash(c)
  BY <1>2 DEF F!StartConsumer, FP!StartConsumer, F!RequestShutdown, FP!RequestShutdown,
     F!Crash, FP!Crash
<1>3. ASSUME NEW c \in Consumers, F!Proceed(c) PROVE FP!Proceed(c)
  <2>1. CASE F!StopLoop(c) \/ F!BeginReceive(c)
    BY <2>1 DEF FP!Proceed, F!StopLoop, FP!StopLoop, F!BeginReceive, FP!BeginReceive
  <2>2. CASE F!Receive(c) \/ F!ReceiveNothing(c)
    BY <2>2 DEF FP!Proceed, F!Receive, FP!Receive, F!ReceiveNothing, FP!ReceiveNothing,
       F!LockFor, FP!LockFor, F!Active, FP!Active
  <2>3. CASE F!ReceiveFails(c)
    <3>1. FP!ReceiveFails(c)
      BY <2>3 DEF F!ReceiveFails, FP!ReceiveFails, F!LockFor, FP!LockFor,
         F!Active, FP!Active, F!Cardinality, FP!Cardinality
    <3> QED
      BY <3>1 DEF FP!Proceed
  <2>4. CASE F!ValidateEnvelope(c) \/ F!InsertRows(c) \/ F!CommitRows(c) \/ F!FulfilOrderFails(c)
    BY <2>4 DEF FP!Proceed, F!ValidateEnvelope, FP!ValidateEnvelope, F!InsertRows, FP!InsertRows,
       F!InsertedBy, FP!InsertedBy, F!CommitRows, FP!CommitRows,
       F!FulfilOrderFails, FP!FulfilOrderFails, F!WriteRows, FP!WriteRows
  <2>5. CASE F!SettleMessage(c) \/ F!SettleMessageFails(c)
    BY <2>5 DEF FP!Proceed, F!SettleMessage, FP!SettleMessage, F!SettleMessageFails,
       FP!SettleMessageFails, F!Settlement, FP!Settlement, F!NextMessage, FP!NextMessage,
       F!LockHeld, FP!LockHeld, F!Returned, FP!Returned, F!Settled, FP!Settled
  <2> QED
    BY <1>3, <2>1, <2>2, <2>3, <2>4, <2>5 DEF F!Proceed
<1> QED
  BY <1>1, <1>2, <1>3, SameEnqueue DEF F!Next, FP!Next

\* Their invariants are the same, too.
LEMMA SameOutboxInvariant == OP!OutboxInvariant <=> O!OutboxInvariant
  BY DEF O!OutboxInvariant, OP!OutboxInvariant, O!TypeOK, OP!TypeOK,
     O!OutboxEvent, OP!OutboxEvent, O!ClaimedEvent, OP!ClaimedEvent, O!Running, OP!Running,
     O!Placed, OP!Placed, O!PublishedWasAccepted, OP!PublishedWasAccepted,
     O!TableConstraints, OP!TableConstraints, O!TimesPast, OP!TimesPast,
     O!LockedRowUnchanged, OP!LockedRowUnchanged, O!Due, OP!Due,
     O!LocksExclusive, OP!LocksExclusive, O!HolderKnows, OP!HolderKnows, O!Holds, OP!Holds,
     O!RowTimes, OP!RowTimes, O!backoff_delay, OP!backoff_delay, O!AtMost, OP!AtMost,
     O!MAX_BACKOFF_EXPONENT, OP!MAX_BACKOFF_EXPONENT,
     O!ClaimsAreDistinct, OP!ClaimsAreDistinct

LEMMA SameFulfilmentInvariant == FP!FulfilmentInvariant <=> F!FulfilmentInvariant
  BY DEF F!FulfilmentInvariant, FP!FulfilmentInvariant, F!TypeOK, FP!TypeOK,
     F!Running, FP!Running, F!Working, FP!Working, F!Ended, FP!Ended,
     F!TablesAgree, FP!TablesAgree, F!CompletedWasFulfilled, FP!CompletedWasFulfilled,
     F!DeadOnlyAfterBudget, FP!DeadOnlyAfterBudget, F!DeliveriesLeft, FP!DeliveriesLeft,
     F!ConsumerKnows, FP!ConsumerKnows, F!Current, FP!Current,
     F!CurrentEvent, FP!CurrentEvent, F!InsertsExclusive, FP!InsertsExclusive,
     F!InsertedBy, FP!InsertedBy, F!LocksCarried, FP!LocksCarried,
     F!LockHeld, FP!LockHeld, F!OnlyArrivals, FP!OnlyArrivals

-----------------------------------------------------------------------------
(* Their steps *)

\* A step of the pipeline is a step of each service or leaves it alone, and what the
\* topic lets through is a message that had not arrived.
LEMMA PipelineStep ==
  ASSUME [Next]_vars
  PROVE  [OP!Next]_(OP!vars) /\ [FP!Next]_(FP!vars)
<1>1. ASSUME NEW e \in Events, Arrive(e) PROVE [FP!Next]_(FP!vars)
  <2>1. CASE UNCHANGED fulfilmentVars
    BY <2>1 DEF fulfilmentVars, FP!vars, FP!brokerVars, FP!tableVars
  <2>2. CASE \E m \in Messages : F!Enqueue(m)
    BY <2>2, SameEnqueue DEF FP!Next
  <2> QED
    BY <1>1, <2>1, <2>2 DEF Arrive
<1>2. ASSUME UNCHANGED fulfilmentVars PROVE [FP!Next]_(FP!vars)
  BY <1>2 DEF fulfilmentVars, FP!vars, FP!brokerVars, FP!tableVars
<1>3. CASE PublisherStep
  BY <1>1, <1>2, <1>3, SameOutboxNext DEF PublisherStep
<1>4. ASSUME UNCHANGED outboxVars PROVE [OP!Next]_(OP!vars)
  BY <1>4 DEF outboxVars, OP!vars
<1>5. CASE ConsumerStep
  BY <1>4, <1>5, SameFulfilmentNext DEF ConsumerStep
<1>6. CASE UNCHANGED vars
  BY <1>2, <1>4, <1>6 DEF vars
<1> QED
  BY <1>3, <1>5, <1>6 DEF Next

\* Sharing the topic lets neither service do what it does not do alone: the pipeline is
\* an outbox and a fulfilment service, with all that is proved of them.
THEOREM PipelineRunsBoth == Spec => OP!Spec /\ FP!Spec
<1>1. Init => OP!Init /\ FP!Init
  BY SameOutboxInit, SameFulfilmentInit DEF Init
<1>2. [Next]_vars => [OP!Next]_(OP!vars) /\ [FP!Next]_(FP!vars)
  BY PipelineStep
<1> QED
  BY <1>1, <1>2, PTL DEF Spec, OP!Spec, FP!Spec

LEMMA OutboxHolds == OP!Spec => []OP!OutboxInvariant
  BY OutboxAssumption, OP!InvariantHolds
  DEF O!OutboxEvent, OP!OutboxEvent, O!ClaimedEvent, OP!ClaimedEvent

LEMMA FulfilmentHolds == FP!Spec => []FP!FulfilmentInvariant
  BY FulfilmentAssumption, FP!InvariantHolds

-----------------------------------------------------------------------------
(* The topic *)

Arrived(e) == \E m \in Messages : EventOf[m] = e /\ state[m] # "absent"

\* A copy the topic takes leaves the event arrived, whether it lets it through or not.
LEMMA ArriveEffect ==
  ASSUME F!FulfilmentInvariant, TopicAgrees, clock \in Nat, NEW e \in Events, Arrive(e)
  PROVE  /\ history' \in [Events -> Nat \union {None}]
         /\ history'[e] # None /\ Arrived(e)'
         /\ \A f \in Events \ {e} :
              history'[f] = history[f] /\ Arrived(f)' = Arrived(f)
<1>0. None \notin Nat
  BY OutboxAssumption
<1>1. CASE Remembered(e) /\ UNCHANGED <<fulfilmentVars, history>>
  <2>1. UNCHANGED <<state, history>>
    BY <1>1 DEF fulfilmentVars
  <2> QED
    BY <1>1, <2>1 DEF Remembered, TopicAgrees, Arrived
<1>2. CASE /\ \E m \in Messages : EventOf[m] = e /\ F!Enqueue(m)
           /\ history' = [history EXCEPT ![e] = clock]
  <2>1. PICK m \in Messages : EventOf[m] = e /\ F!Enqueue(m)
    BY <1>2
  <2>2. state' = [state EXCEPT ![m] = "active"] /\ state[m] = "absent" /\ m \in DOMAIN state
    BY <2>1 DEF F!Enqueue, F!FulfilmentInvariant, F!TypeOK
  <2>3. state'[m] # "absent" /\ \A n \in Messages \ {m} : state'[n] = state[n]
    BY <2>2
  <2>4. Arrived(e)' /\ \A f \in Events \ {e} : Arrived(f)' = Arrived(f)
    BY <2>1, <2>3 DEF Arrived
  <2> QED
    BY <1>0, <1>2, <2>4 DEF TopicAgrees
<1> QED
  BY <1>1, <1>2 DEF Arrive

\* Every step of the pipeline keeps copies, detection history and messages in agreement.
LEMMA TopicAgreesStep ==
  ASSUME O!OutboxInvariant, F!FulfilmentInvariant, TopicAgrees, [Next]_vars
  PROVE  TopicAgrees'
<1>1. OP!OutboxInvariant /\ FP!FulfilmentInvariant
  BY SameOutboxInvariant, SameFulfilmentInvariant
<1>2. OP!TypeOK /\ FP!TypeOK
  BY <1>1 DEF OP!OutboxInvariant, FP!FulfilmentInvariant
<1>3. clock \in Nat /\ copies \in [Events -> Nat]
  BY <1>2 DEF OP!TypeOK
<1>4. /\ \A e \in Events : copies'[e] = copies[e] \/ copies'[e] = copies[e] + 1
      /\ \A e, f \in Events : Accepted(e) /\ Accepted(f) => e = f
  BY <1>2, PipelineStep, OutboxAssumption, OP!OneCopyAtATime
  DEF Accepted, O!OutboxEvent, OP!OutboxEvent, O!ClaimedEvent, OP!ClaimedEvent
<1>5. ASSUME UNCHANGED history, \A e \in Events : copies'[e] = copies[e] /\ Arrived(e)' = Arrived(e)
      PROVE  TopicAgrees'
  BY <1>5 DEF TopicAgrees, Arrived
<1>6. CASE PublisherStep
  <2>1. CASE \E e \in Events : Accepted(e)
    <3>1. PICK e \in Events : Accepted(e) /\ Arrive(e)
      BY <1>6, <2>1 DEF PublisherStep
    <3>2. /\ history' \in [Events -> Nat \union {None}]
          /\ history'[e] # None /\ Arrived(e)'
          /\ \A f \in Events \ {e} :
               history'[f] = history[f] /\ Arrived(f)' = Arrived(f)
      BY <1>3, <3>1, ArriveEffect
    <3>3. copies'[e] > 0 /\ \A f \in Events \ {e} : copies'[f] = copies[f]
      BY <1>3, <1>4, <3>1 DEF Accepted
    <3> QED
      BY <3>2, <3>3 DEF TopicAgrees, Arrived
  <2>2. CASE ~ \E e \in Events : Accepted(e)
    <3>1. UNCHANGED <<fulfilmentVars, history>> /\ \A e \in Events : copies'[e] = copies[e]
      BY <1>6, <2>2 DEF PublisherStep, Accepted
    <3> QED
      BY <1>5, <3>1 DEF fulfilmentVars, Arrived
  <2> QED
    BY <2>1, <2>2
<1>7. CASE ConsumerStep
  <2>1. UNCHANGED <<copies, history>>
    BY <1>7 DEF ConsumerStep, outboxVars
  <2>2. \A m \in Messages : state[m] # "absent" => state'[m] # "absent"
    BY <1>2, PipelineStep, FulfilmentAssumption, FP!ArrivedStays
  <2>3. \A m \in Messages : state'[m] # "absent" <=> state[m] # "absent"
    BY <1>7, <2>2 DEF ConsumerStep
  <2> QED
    BY <1>5, <2>1, <2>3 DEF Arrived
<1>8. CASE UNCHANGED vars
  BY <1>5, <1>8 DEF vars, outboxVars, fulfilmentVars, Arrived
<1> QED
  BY <1>6, <1>7, <1>8 DEF Next

\* Whatever either service does, both keep their invariants and the topic agrees with them.
THEOREM InvariantHolds == Spec => []PipelineInvariant
<1>1. Init => TopicAgrees
  BY DEF Init, O!Init, F!Init, TopicAgrees
<1>2. O!OutboxInvariant /\ F!FulfilmentInvariant /\ TopicAgrees /\ [Next]_vars => TopicAgrees'
  BY TopicAgreesStep
<1>3. OP!OutboxInvariant => O!OutboxInvariant
  BY SameOutboxInvariant
<1>4. FP!FulfilmentInvariant => F!FulfilmentInvariant
  BY SameFulfilmentInvariant
<1>5. O!OutboxInvariant /\ F!FulfilmentInvariant /\ TopicAgrees => PipelineInvariant
  BY DEF PipelineInvariant
<1> QED
  BY <1>1, <1>2, <1>3, <1>4, <1>5, PipelineRunsBoth, OutboxHolds, FulfilmentHolds, PTL DEF Spec

\* No accepted order disappears between the services: once its row is recorded as
\* published the order is fulfilled, or a message of it is still to be handled, or one
\* went to the dead-letter queue after its last delivery (settle_message,
\* _mark_published, duplicate detection of the topic).
THEOREM NothingIsLost == Spec => []RecordedIsHandled
<1>1. ASSUME PipelineInvariant PROVE RecordedIsHandled
  <2> SUFFICES ASSUME NEW e \in Events, O!Placed(e), row[e].published, e \notin processed
               PROVE  \E m \in Messages :
                         /\ EventOf[m] = e
                         /\ \/ state[m] \in {"active", "locked"}
                            \/ state[m] = "dead" /\ deliveries[m] = MaxDeliveryCount
    BY DEF RecordedIsHandled
  <2>1. copies[e] >= 1
    BY <1>1 DEF PipelineInvariant, O!OutboxInvariant, O!PublishedWasAccepted
  <2>2. copies[e] > 0
    BY <1>1, <2>1 DEF PipelineInvariant, O!OutboxInvariant, O!TypeOK
  <2>3. PICK m \in Messages : EventOf[m] = e /\ state[m] # "absent"
    BY <1>1, <2>2 DEF PipelineInvariant, TopicAgrees
  <2>4. state[m] # "completed"
    BY <1>1, <2>3 DEF PipelineInvariant, F!FulfilmentInvariant, F!CompletedWasFulfilled
  <2>5. state[m] = "dead" => deliveries[m] = MaxDeliveryCount
    BY <1>1, PipelineAssumption
    DEF PipelineInvariant, F!FulfilmentInvariant, F!DeadOnlyAfterBudget
  <2>6. state[m] \in {"absent", "active", "locked", "completed", "dead"}
    BY <1>1 DEF PipelineInvariant, F!FulfilmentInvariant, F!TypeOK
  <2> QED
    BY <2>3, <2>4, <2>5, <2>6
<1>2. PipelineInvariant => RecordedIsHandled
  BY <1>1
<1> QED
  BY <1>2, InvariantHolds, PTL

-----------------------------------------------------------------------------
(* From the API to the fulfilment table *)

placed == {e \in Events : O!Placed(e)}
delivered == {EventOf[m] : m \in {n \in Messages : state[n] # "absent"}}
recorded == {e \in Events : O!Placed(e) /\ row[e].published}

\* The events of the messages that arrived are those of which a copy was accepted.
LEMMA DeliveredIsAccepted ==
  ASSUME PipelineInvariant, PipelineInvariant'
  PROVE  /\ delivered = {e \in Events : copies[e] > 0}
         /\ delivered' = {e \in Events : copies'[e] > 0}
<1>1. \A m \in Messages : EventOf[m] \in Events
  BY FulfilmentAssumption
<1>2. delivered = {e \in Events : copies[e] > 0}
  BY <1>1 DEF PipelineInvariant, TopicAgrees, delivered
<1>3. delivered' = {e \in Events : copies'[e] > 0}
  BY <1>1 DEF PipelineInvariant, TopicAgrees, delivered
<1> QED
  BY <1>2, <1>3

\* What the publishers do is delivery, and fulfils nothing.
LEMMA PublisherDelivers ==
  ASSUME PipelineInvariant, PipelineInvariant', PublisherStep
  PROVE  [C!CheckoutNext]_(C!checkoutVars)
<1>1. OP!OutboxInvariant /\ [OP!Next]_(OP!vars)
  BY SameOutboxInvariant, SameOutboxNext DEF PipelineInvariant, PublisherStep
<1>2. [OP!D!DeliveryNext]_(OP!D!deliveryVars)
  BY <1>1, OutboxAssumption, OP!DeliveryStep
  DEF O!OutboxEvent, OP!OutboxEvent, O!ClaimedEvent, OP!ClaimedEvent
<1>3. UNCHANGED fulfilments
  BY DEF PublisherStep, Arrive, fulfilmentVars, F!Enqueue, F!tableVars
<1>4. /\ delivered = {e \in Events : copies[e] > 0}
      /\ delivered' = {e \in Events : copies'[e] > 0}
  BY DeliveredIsAccepted
<1>5. /\ {e \in Events : OP!Placed(e)} = placed
      /\ {e \in Events : OP!Placed(e)}' = placed'
      /\ {e \in Events : OP!Placed(e) /\ row[e].published} = recorded
      /\ {e \in Events : OP!Placed(e) /\ row[e].published}' = recorded'
  BY DEF placed, recorded, O!Placed, OP!Placed
<1>6. CASE OP!D!DeliveryNext
  <2>1. \E e \in Events :
           \/ /\ e \notin placed
              /\ placed' = placed \union {e}
              /\ UNCHANGED <<delivered, recorded>>
           \/ /\ e \in placed
              /\ delivered' = delivered \union {e}
              /\ UNCHANGED <<placed, recorded>>
           \/ /\ e \in delivered \ recorded
              /\ recorded' = recorded \union {e}
              /\ UNCHANGED <<placed, delivered>>
    BY <1>4, <1>5, <1>6 DEF OP!D!DeliveryNext, OP!D!Place, OP!D!Deliver, OP!D!Record
  <2>2. C!DeliveryNext
    BY <2>1 DEF C!DeliveryNext, C!Place, C!Deliver, C!Record, placed, delivered, recorded
  <2> QED
    BY <1>3, <2>2 DEF C!CheckoutNext
<1>7. CASE UNCHANGED OP!D!deliveryVars
  <2>1. UNCHANGED <<placed, delivered, recorded>>
    BY <1>4, <1>5, <1>7 DEF OP!D!deliveryVars
  <2> QED
    BY <1>3, <2>1 DEF C!checkoutVars, C!deliveryVars, placed, delivered, recorded
<1> QED
  BY <1>2, <1>6, <1>7

\* What the consumers do fulfils a delivered order once, or shows nothing.
LEMMA ConsumerFulfils ==
  ASSUME PipelineInvariant, PipelineInvariant', ConsumerStep
  PROVE  [C!CheckoutNext]_(C!checkoutVars)
<1>1. FP!FulfilmentInvariant /\ [FP!Next]_(FP!vars)
  BY SameFulfilmentInvariant, SameFulfilmentNext DEF PipelineInvariant, ConsumerStep
<1>2. FP!E!ExactlyOnceNext \/ UNCHANGED FP!E!exactlyOnceVars
  BY <1>1, FulfilmentAssumption, FP!ExactlyOnceStep
<1>3. UNCHANGED <<row, copies>>
  BY DEF ConsumerStep, outboxVars
<1>4. UNCHANGED <<placed, recorded>>
  BY <1>3 DEF placed, recorded, O!Placed
<1>5. delivered' = delivered
  BY <1>3, DeliveredIsAccepted
<1>6. CASE \E e \in Events : FP!E!TakeEffect(e)
  <2>1. PICK e \in Events : /\ fulfilments[e] = 0
                            /\ fulfilments' = [fulfilments EXCEPT ![e] = 1]
    BY <1>6 DEF FP!E!TakeEffect
  <2>2. fulfilments'[e] = 1
    BY <2>1 DEF PipelineInvariant, F!FulfilmentInvariant, F!TypeOK
  <2>3. e \in processed'
    BY <2>2 DEF PipelineInvariant, F!FulfilmentInvariant, F!TablesAgree
  <2>4. e \in delivered
    BY <1>5, <2>3 DEF PipelineInvariant, F!FulfilmentInvariant, F!OnlyArrivals, delivered
  <2>5. C!Fulfil(e)
    BY <1>4, <1>5, <2>1, <2>4 DEF C!Fulfil, C!deliveryVars, placed, delivered, recorded
  <2> QED
    BY <2>5 DEF C!CheckoutNext
<1>7. CASE UNCHANGED fulfilments
  BY <1>4, <1>5, <1>7 DEF C!checkoutVars, C!deliveryVars, placed, delivered, recorded
<1> QED
  BY <1>2, <1>6, <1>7
  DEF FP!E!ExactlyOnceNext, FP!E!ReportDone, FP!E!exactlyOnceVars

\* From the API to the fulfilment table every step is one of module Checkout: an order
\* is fulfilled at most once, only after it was committed and delivered, and recorded as
\* published only after a message of it reached the subscription.
THEOREM PipelineImplementsCheckout == Spec => ImplementsCheckout
<1>1. Init => C!CheckoutInit
  <2> SUFFICES ASSUME Init PROVE C!CheckoutInit
    OBVIOUS
  <2>1. \A e \in Events : ~ O!Placed(e)
    BY DEF Init, O!Init, O!Placed
  <2>2. \A m \in Messages : state[m] = "absent"
    BY DEF Init, F!Init
  <2>3. fulfilments = [e \in Events |-> 0]
    BY DEF Init, F!Init
  <2> QED
    BY <2>1, <2>2, <2>3 DEF C!CheckoutInit, C!DeliveryInit
<1>2. ASSUME PipelineInvariant, PipelineInvariant', [Next]_vars
      PROVE  [C!CheckoutNext]_(C!checkoutVars)
  <2>1. CASE UNCHANGED vars
    BY <2>1 DEF vars, outboxVars, fulfilmentVars, C!checkoutVars, C!deliveryVars, O!Placed
  <2> QED
    BY <1>2, <2>1, PublisherDelivers, ConsumerFulfils DEF Next
<1>3. PipelineInvariant /\ PipelineInvariant' /\ [Next]_vars =>
        [C!CheckoutNext]_(C!checkoutVars)
  BY <1>2
<1> QED
  BY <1>1, <1>3, InvariantHolds, PTL DEF Spec, ImplementsCheckout, C!CheckoutSpec
=============================================================================
