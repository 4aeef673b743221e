-------------------------- MODULE MCSharedSettings --------------------------
(***************************************************************************)
(* A small instance of SharedSettings: two admins, one with the page open  *)
(* and an HQ left in the browser, three saves or HQ writes, and what a     *)
(* deleted account and the left HQ add to them: six versions of the row.   *)
(***************************************************************************)
EXTENDS SharedSettings

CONSTANTS ann, bob
=============================================================================
