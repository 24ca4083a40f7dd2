----------------------------- MODULE ExactlyOnce -----------------------------
(***************************************************************************)
(* What the fulfilment service promises: an event takes effect at most     *)
(* once however often it is delivered, and the broker is told that a       *)
(* message is done with only after its event took effect.                  *)
(***************************************************************************)
EXTENDS Naturals

CONSTANTS Events, Messages, EventOf

VARIABLES
    effects,    \* how many times each event has taken effect
    done        \* messages reported to the broker as completed

exactlyOnceVars == <<effects, done>>

ExactlyOnceInit == effects = [e \in Events |-> 0] /\ done = {}

TakeEffect(e) ==
    /\ effects[e] = 0
    /\ effects' = [effects EXCEPT ![e] = 1]
    /\ UNCHANGED done

ReportDone(m) ==
    /\ effects[EventOf[m]] = 1
    /\ done' = done \union {m}
    /\ UNCHANGED effects

ExactlyOnceNext ==
    \/ \E e \in Events : TakeEffect(e)
    \/ \E m \in Messages : ReportDone(m)

ExactlyOnceSpec == ExactlyOnceInit /\ [][ExactlyOnceNext]_exactlyOnceVars
=============================================================================
