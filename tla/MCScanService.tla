---------------------------- MODULE MCScanService ----------------------------
(* ScanService for TLC: two presses of Start are enough for one run to meet *)
(* another, two modes for a run to go on after its first terminal progress; *)
(* the run that it meets needs no second mode.                              *)
EXTENDS ScanService

TwoThenOne == <<2, 1>>
==============================================================================
