------------------------------ MODULE MCOutbox ------------------------------
(* Small instances of Outbox for TLC. *)
EXTENDS Outbox, TLC

MCSymmetry == Permutations(Events) \union Permutations(Workers)
=============================================================================
