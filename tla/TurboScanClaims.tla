-------------------------- MODULE TurboScanClaims --------------------------
(***************************************************************************)
(* What comments, docstrings and dialogs of the program say of a scan and  *)
(* the code does not do.  Each is refuted by a run of its own.             *)
(***************************************************************************)
EXTENDS TurboScan

(* The dialog of a scan that paused itself: "Cancel to stop now and keep   *)
(* partial results".  A cancel of a paused scan ends the scan thread.      *)
CancelStops ==
  Alive /\ spc # "spawned" /\ state = "paused" /\ ctl = "cancelState" ~> ~Alive
=============================================================================

