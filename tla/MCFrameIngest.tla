--------------------------- MODULE MCFrameIngest ---------------------------
(***************************************************************************)
(* Small instances of FrameIngest.  Three events are enough for SOS, a     *)
(* frame without it and SOS again; the faults are any of a failed          *)
(* statement, a restart and a lost confirmation.                           *)
(***************************************************************************)
EXTENDS FrameIngest

CONSTANTS d1
=============================================================================
