---------------------------- MODULE MCMigrations ----------------------------
(***************************************************************************)
(* A deployment: a worker that may create, one that may not, and a         *)
(* migrator of the pipeline that races them.                               *)
(***************************************************************************)
EXTENDS Migrations
=============================================================================
