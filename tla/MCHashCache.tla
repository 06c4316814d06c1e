----------------------------- MODULE MCHashCache -----------------------------
(* HashCache for TLC: a worker left behind by one scan, one or two scans    *)
(* after it, and a file that changes twice.                                 *)
EXTENDS HashCache
=============================================================================
