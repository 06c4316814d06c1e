--------------------------- MODULE MCPollingEngine ---------------------------
(* PollingEngine for TLC, for all eight engines at once.                    *)
EXTENDS PollingEngine

AllKinds == {"video", "music", "empty", "large", "similar", "document", "image", "burst"}
==============================================================================
