-------------------------- MODULE MCOutboxProgress --------------------------
(* A small instance of OutboxProgress for TLC. *)
EXTENDS OutboxProgress, TLC
=============================================================================
