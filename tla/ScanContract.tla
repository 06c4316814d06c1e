---------------------------- MODULE ScanContract ----------------------------
(***************************************************************************)
(* What one scan engine promises to the services above it, with none of    *)
(* its threads: a scan is started, may be asked to cancel, stops accepting *)
(* cancel requests at one instant, and then finishes with an outcome.      *)
(* The two promises: a scan that was asked to cancel before that instant   *)
(* does not report completion, and a scan that reports completion has a    *)
(* result that lacks nothing but files of which a read failed.             *)
(***************************************************************************)
CONSTANT Files    \* the duplicate candidates under the scan roots

VARIABLES
  phase,      \* "idle", "running", "closing", "finished"
  request,    \* a cancel was requested during this scan
  binding,    \* the value of request when the scan stopped listening
  outcome,    \* "none", "completed", "cancelled", "error"
  unread,     \* files of which a read has failed
  results     \* the files of the duplicate groups the scan delivers

contractVars == <<phase, request, binding, outcome, unread, results>>

(* A duplicate group needs two members; a lone file is not a result. *)
Grouped(S) == IF \E f, g \in S : f # g THEN S ELSE {}

Init ==
  /\ phase = "idle"
  /\ request = FALSE
  /\ binding = FALSE
  /\ outcome = "none"
  /\ unread = {}
  /\ results = {}

Start ==
  /\ phase \in {"idle", "finished"}
  /\ phase' = "running"
  /\ request' = FALSE
  /\ binding' = FALSE
  /\ outcome' = "none"
  /\ unread' = {}
  /\ results' = {}

(* A request made between scans lingers until the next start forgets it. *)
RequestCancel ==
  /\ request' = TRUE
  /\ UNCHANGED <<phase, binding, outcome, unread, results>>

FailToRead ==
  /\ phase = "running"
  /\ unread' \in SUBSET Files
  /\ unread \subseteq unread'
  /\ UNCHANGED <<phase, request, binding, outcome, results>>

Deliver ==
  /\ phase = "running"
  /\ results' \in SUBSET Files
  /\ unread' \in SUBSET Files
  /\ unread \subseteq unread'
  /\ UNCHANGED <<phase, request, binding, outcome>>

Close ==
  /\ phase = "running"
  /\ phase' = "closing"
  /\ binding' = request
  /\ UNCHANGED <<request, outcome, unread, results>>

Finish(o) ==
  /\ phase = "closing"
  /\ o = "completed" => /\ ~binding
                        /\ Grouped(Files \ unread) \subseteq results
  /\ phase' = "finished"
  /\ outcome' = o
  /\ UNCHANGED <<request, binding, unread, results>>

(* Nothing to scan, or an exception: the scan ends at once. *)
Abort(o) ==
  /\ phase = "running"
  /\ o # "completed"
  /\ phase' = "finished"
  /\ outcome' = o
  /\ UNCHANGED <<request, binding, unread, results>>

NothingToScan ==
  /\ phase = "running"
  /\ phase' = "finished"
  /\ outcome' = "completed"
  /\ unread' = Files
  /\ results' = {}
  /\ UNCHANGED <<request, binding>>

Outcomes == {"completed", "cancelled", "error"}

Next ==
  \/ Start \/ RequestCancel \/ FailToRead \/ Deliver \/ Close \/ NothingToScan
  \/ \E o \in Outcomes : Finish(o) \/ Abort(o)

Spec == Init /\ [][Next]_contractVars
=============================================================================
