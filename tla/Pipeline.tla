------------------------------ MODULE Pipeline ------------------------------
(***************************************************************************)
(* The whole way of an order: the outbox and its publishers (module        *)
(* Outbox), the topic, and the subscription with its consumers (module     *)
(* Fulfilment), sharing the topic and nothing else.                        *)
(*                                                                         *)
(* A send the broker accepts is one step of both: the publisher's step of  *)
(* Outbox and, unless the topic's duplicate detection discards the copy,   *)
(* the arrival of a message in Fulfilment.  message_id is the event id     *)
(* (to_service_bus_message), so every copy of an event within the window   *)
(* of an accepted one is discarded, whichever process sent it.             *)
(***************************************************************************)
EXTENDS Naturals, Sequences

CONSTANTS
    Events, None,
    Workers, LeaseDuration, BaseBackoff, MaxBackoff, SdkRetryTotal, MaxClock,
    Messages, EventOf, BodyOf, Consumers, MaxDeliveryCount, BatchSize,
    MaxMessages, MaxInterruptions,
    PublisherFaults,    \* DatabaseFaults of module Outbox
    DatabaseFaults,     \* DatabaseFaults of module Fulfilment
    BrokerFaults,
    DetectionWindow     \* duplicate_detection_history_time_window of the topic

\* to_service_bus_message writes nothing but valid envelopes.
ASSUME PipelineAssumption ==
    /\ DetectionWindow \in Nat \ {0}
    /\ \A m \in Messages : BodyOf[m] = "valid"

VARIABLES
    clock, row, publisherPc, now, claimed, tries, publisherShutdown, copies,
    state, holder, deliveries, processed, fulfilments,
    consumerPc, batch, consumerShutdown, interruptions,
    history     \* when the topic last let a message of each event through

outboxVars == <<clock, row, publisherPc, now, claimed, tries, publisherShutdown, copies>>

fulfilmentVars ==
    <<state, holder, deliveries, processed, fulfilments,
      consumerPc, batch, consumerShutdown, interruptions>>

vars == <<outboxVars, fulfilmentVars, history>>

O == INSTANCE Outbox WITH
        pc <- publisherPc, shutdown <- publisherShutdown, DatabaseFaults <- PublisherFaults

F == INSTANCE Fulfilment WITH pc <- consumerPc, shutdown <- consumerShutdown

\* What the two modules assume of their constants.
ASSUME OutboxAssumption ==
    /\ LeaseDuration \in Nat \ {0}
    /\ BaseBackoff \in Nat \ {0}
    /\ MaxBackoff \in Nat \ {0}
    /\ SdkRetryTotal \in Nat
    /\ MaxClock \in Nat
    /\ PublisherFaults \in BOOLEAN
    /\ None \notin Nat \union Workers \union O!OutboxEvent \union O!ClaimedEvent

ASSUME FulfilmentAssumption ==
    /\ EventOf \in [Messages -> Events]
    /\ BodyOf \in [Messages -> {"valid", "invalid", "undecodable"}]
    /\ None \notin Consumers
    /\ MaxDeliveryCount \in Nat \ {0}
    /\ BatchSize \in Nat \ {0}
    /\ DatabaseFaults \in BOOLEAN
    /\ BrokerFaults \in BOOLEAN
    /\ MaxMessages \in Nat
    /\ MaxInterruptions \in Nat

-----------------------------------------------------------------------------
Init ==
    /\ O!Init
    /\ F!Init
    /\ history = [e \in Events |-> None]

Remembered(e) == history[e] # None /\ clock < history[e] + DetectionWindow

\* Faulty: the topic lets a message through and does not remember it.
Arrive_ForgetsHistory(e) ==
    IF Remembered(e)
    THEN UNCHANGED <<fulfilmentVars, history>>
    ELSE /\ \E m \in Messages : EventOf[m] = e /\ F!Enqueue(m)
         /\ UNCHANGED history

\* The topic takes a copy: it discards it or hands a message to the subscription.
Arrive(e) ==
    IF Remembered(e)
    THEN UNCHANGED <<fulfilmentVars, history>>
    ELSE /\ \E m \in Messages : EventOf[m] = e /\ F!Enqueue(m)
         /\ history' = [history EXCEPT ![e] = clock]

Accepted(e) == copies'[e] # copies[e]

PublisherStep ==
    /\ O!Next
    /\ IF \E e \in Events : Accepted(e)
       THEN \E e \in Events : Accepted(e) /\ Arrive(e)
       ELSE UNCHANGED <<fulfilmentVars, history>>

\* Messages reach the subscription through Arrive alone.
ConsumerStep ==
    /\ F!Next
    /\ \A m \in Messages : state[m] = "absent" => state'[m] = "absent"
    /\ UNCHANGED <<outboxVars, history>>

Next == PublisherStep \/ ConsumerStep

Spec == Init /\ [][Next]_vars

-----------------------------------------------------------------------------
(* Properties *)

\* No accepted order disappears between the services: once its row is recorded as
\* published the order is fulfilled, or a message of it is still to be handled,
\* or one went to the dead-letter queue after its last delivery.  A copy is thus
\* discarded as a duplicate, or completed, only when another has done its work.
RecordedIsHandled ==
    \A e \in Events : O!Placed(e) /\ row[e].published =>
        \/ e \in processed
        \/ \E m \in Messages :
             /\ EventOf[m] = e
             /\ \/ state[m] \in {"active", "locked"}
                \/ state[m] = "dead" /\ deliveries[m] = MaxDeliveryCount

\* What the publishers sent, what the topic let through and what the subscription has:
\* a copy was accepted of just the events a message of which arrived.
TopicAgrees ==
    /\ history \in [Events -> Nat \union {None}]
    /\ \A e \in Events :
         /\ history[e] # None <=> copies[e] > 0
         /\ history[e] # None <=> \E m \in Messages : EventOf[m] = e /\ state[m] # "absent"

\* What every step preserves: the invariants of the two services, and that they agree.
PipelineInvariant ==
    /\ O!OutboxInvariant
    /\ F!FulfilmentInvariant
    /\ TopicAgrees

C == INSTANCE Checkout WITH
        placed <- {e \in Events : O!Placed(e)},
        delivered <- {EventOf[m] : m \in {n \in Messages : state[n] # "absent"}},
        recorded <- {e \in Events : O!Placed(e) /\ row[e].published},
        fulfilled <- fulfilments

\* From the API to the fulfilment table every step is one of module Checkout: an
\* order is fulfilled at most once, only after it was committed and delivered, and
\* recorded as published only after a message of it reached the subscription.
ImplementsCheckout == C!CheckoutSpec
=============================================================================
