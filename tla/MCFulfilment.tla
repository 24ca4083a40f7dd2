---------------------------- MODULE MCFulfilment ----------------------------
(* Small instances of Fulfilment for TLC. *)
EXTENDS Fulfilment, TLC

CONSTANTS m1, m2, m3, m4, e1, e2

\* Two copies of one event, an invalid envelope and a body that is not UTF-8.
MCEventOf == (m1 :> e1) @@ (m2 :> e1) @@ (m3 :> e2) @@ (m4 :> e2)

MCBodies ==
    (m1 :> "valid") @@ (m2 :> "valid") @@ (m3 :> "invalid") @@ (m4 :> "undecodable")
=============================================================================
