---------------------------- MODULE MCTurboScan ----------------------------
(* TurboScan for TLC: the files of one duplicate group, as model values.    *)
EXTENDS TurboScan
=============================================================================
