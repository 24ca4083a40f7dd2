---------------------------- MODULE MCFaultRunner ----------------------------
(* Small instances of FaultRunner for TLC. *)
EXTENDS FaultRunner, TLC

CONSTANTS topic, postgres, sendDisabled, outage

Disable(e) == [entity |-> e, status |-> "Disabled"]
Enable(e) == [entity |-> e, status |-> "Active"]

\* topic-send-disabled as shipped, and a fault of several steps, as the catalogue
\* allows, that shares an entity with it.
MCPlans ==
    (sendDisabled :> [inject |-> <<Disable(topic)>>, revert |-> <<Enable(topic)>>]) @@
    (outage :> [inject |-> <<Disable(postgres), Disable(topic)>>,
                revert |-> <<Enable(topic), Enable(postgres)>>])

\* Plans the catalogue accepts although one ends by disabling the topic again.
MCPlansReDisable ==
    (sendDisabled :> [inject |-> <<Disable(topic)>>,
                      revert |-> <<Enable(topic), Disable(topic)>>]) @@
    (outage :> [inject |-> <<Disable(postgres)>>, revert |-> <<Enable(postgres)>>])

MCRunners == Permutations(Runners)
=============================================================================
