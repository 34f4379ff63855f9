----------------------------- MODULE MCMigration -----------------------------
(* Model-checking instances of Migration. *)
EXTENDS Migration
=============================================================================
