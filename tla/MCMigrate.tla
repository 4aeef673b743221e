------------------------------ MODULE MCMigrate ------------------------------
(***************************************************************************)
(* A small instance of Migrate: a process of the previous release and one  *)
(* of the next start on the same database, in any state earlier releases   *)
(* may have left it.  No counter needs a bound: versions only grow.        *)
(***************************************************************************)
EXTENDS Migrate, TLC

CONSTANTS old, new

MCRelease == (old :> 1) @@ (new :> 2)
=============================================================================
