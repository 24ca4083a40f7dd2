---------------------------- MODULE MCMigrations ----------------------------
(* A small instance of Migrations for TLC. *)
EXTENDS Migrations

CONSTANTS c1, c2, c3

MCCommands == Permutations(Commands)
=============================================================================
