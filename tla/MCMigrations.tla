---------------------------- MODULE MCMigrations ----------------------------
(* The eight scripts from every earlier release, for TLC.                   *)
EXTENDS Migrations
=============================================================================
