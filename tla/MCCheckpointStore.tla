--------------------------- MODULE MCCheckpointStore ---------------------------
(* CheckpointStore for TLC: a scan and its successors, new or resumed.        *)
EXTENDS CheckpointStore
==============================================================================
