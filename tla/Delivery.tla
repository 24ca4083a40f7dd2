------------------------------ MODULE Delivery ------------------------------
(***************************************************************************)
(* What the outbox promises about the delivery of an event, whatever its   *)
(* workers, leases and retries: an event may be handed to the broker any   *)
(* number of times once its order is committed, it is recorded as          *)
(* published only after that has happened, and the record is for ever.     *)
(***************************************************************************)
CONSTANT Events

VARIABLES
    placed,     \* events of committed orders
    delivered,  \* events the broker has accepted at least once
    recorded    \* events recorded as published

deliveryVars == <<placed, delivered, recorded>>

DeliveryInit ==
    /\ placed = {}
    /\ delivered = {}
    /\ recorded = {}

Place(e) ==
    /\ e \notin placed
    /\ placed' = placed \union {e}
    /\ UNCHANGED <<delivered, recorded>>

Deliver(e) ==
    /\ e \in placed
    /\ delivered' = delivered \union {e}
    /\ UNCHANGED <<placed, recorded>>

Record(e) ==
    /\ e \in delivered \ recorded
    /\ recorded' = recorded \union {e}
    /\ UNCHANGED <<placed, delivered>>

DeliveryNext == \E e \in Events : Place(e) \/ Deliver(e) \/ Record(e)

DeliverySpec == DeliveryInit /\ [][DeliveryNext]_deliveryVars
=============================================================================
