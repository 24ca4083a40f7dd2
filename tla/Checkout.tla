------------------------------ MODULE Checkout ------------------------------
(***************************************************************************)
(* What the order system promises from the API to the fulfilled order,     *)
(* whatever lies between: the delivery of module Delivery, and an order    *)
(* that is fulfilled at most once and only after its event was delivered.  *)
(***************************************************************************)
EXTENDS Delivery, Naturals

VARIABLE fulfilled      \* how many times each event's order was fulfilled

checkoutVars == <<deliveryVars, fulfilled>>

CheckoutInit ==
    /\ DeliveryInit
    /\ fulfilled = [e \in Events |-> 0]

Fulfil(e) ==
    /\ e \in delivered
    /\ fulfilled[e] = 0
    /\ fulfilled' = [fulfilled EXCEPT ![e] = 1]
    /\ UNCHANGED deliveryVars

CheckoutNext ==
    \/ DeliveryNext /\ UNCHANGED fulfilled
    \/ \E e \in Events : Fulfil(e)

CheckoutSpec == CheckoutInit /\ [][CheckoutNext]_checkoutVars
=============================================================================
