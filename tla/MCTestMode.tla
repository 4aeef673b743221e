----------------------------- MODULE MCTestMode -----------------------------
(***************************************************************************)
(* A small instance of TestMode: two starts, two admins who end the test,  *)
(* and two trackers; a scenario uses the first or both.                    *)
(***************************************************************************)
EXTENDS TestMode

CONSTANTS s1, s2, ann, bob, t1, t2

MCScenarios == [{t1} -> {"sos", "silent"}] \cup [{t1, t2} -> {"sos", "moving", "silent"}]

=============================================================================
