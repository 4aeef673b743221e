-------------------------- MODULE MCBrowserAlerts --------------------------
(***************************************************************************)
(* Small instances of BrowserAlerts.                                       *)
(***************************************************************************)
EXTENDS BrowserAlerts

CONSTANT a1
=============================================================================
