----------------------------- MODULE MCPipeline -----------------------------
(* A small instance of Pipeline for TLC. *)
EXTENDS Pipeline, TLC

CONSTANTS m1, m2, e1

MCEventOf == (m1 :> e1) @@ (m2 :> e1)
MCBodies == (m1 :> "valid") @@ (m2 :> "valid")

MCSymmetry == Permutations(Messages) \union Permutations(Workers) \union Permutations(Consumers)
=============================================================================
