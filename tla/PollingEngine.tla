---------------------------- MODULE PollingEngine ----------------------------
(***************************************************************************)
(* The engines other than the turbo engine: a walk that finds the items,   *)
(* then a loop over them, which looks at the cancel event and waits while  *)
(* the pause event is set, under ScanOrchestrator.  The walk has no gate.  *)
(* The engines share one shape and differ in what their authors left out;  *)
(* a record per engine says what it does.  Which engine runs is chosen     *)
(* once, in Init.                                                          *)
(*                                                                         *)
(* An engine that is "nested" starts a thread of its own and returns, so   *)
(* that the orchestrator's scan thread ends at once and another scan may   *)
(* start beside the first.  Scans are numbered; scan s has one body.       *)
(***************************************************************************)
EXTENDS Naturals, FiniteSets

CONSTANTS
  Kinds,     \* names of the engines considered
  NumItems,  \* files or folders the loop visits
  MaxOps,    \* bound: pause, resume and cancel calls
  MaxScans   \* bound: scans

ASSUME KindsAssumption  == Kinds \subseteq {"video", "music", "empty", "large",
                                            "similar", "document", "image", "burst"}
ASSUME ItemsAssumption  == NumItems \in Nat \ {0}
ASSUME BoundsAssumption == MaxOps \in Nat /\ MaxScans \in Nat \ {0}

(* walk: what it does to the files before the loop: there is none, it only *)
(* lists them, or it opens them.  hears: it looks at the cancel event.     *)
(* gate: the loop waits while paused.  begins: start() sets SCANNING.      *)
(* marks: cancel() sets CANCELLED.  frees: cancel() clears the pause       *)
(* event.  last: the cancel event is checked once more after the loop;     *)
(* early: not if there was nothing to loop over.  nested: see above.       *)
(* stop: the state a cancelled loop reports.  fails: an exception sets     *)
(* ERROR.                                                                  *)
Video == [walk |-> "lists", hears |-> FALSE, gate |-> TRUE, begins |-> TRUE,
          marks |-> TRUE, frees |-> FALSE, last |-> TRUE, early |-> FALSE,
          nested |-> FALSE, stop |-> "cancelled", fails |-> FALSE]
Music == Video
EmptyFolder == [Video EXCEPT !.walk = "none"]
LargeFile == EmptyFolder
SimilarFolder == [Video EXCEPT !.walk = "opens", !.hears = TRUE, !.frees = TRUE,
                               !.early = TRUE]
Document == [Video EXCEPT !.hears = TRUE, !.begins = FALSE, !.marks = FALSE,
                          !.frees = TRUE, !.last = FALSE]
Image == [walk |-> "opens", hears |-> TRUE, gate |-> FALSE, begins |-> FALSE,
          marks |-> FALSE, frees |-> TRUE, last |-> FALSE, early |-> FALSE,
          nested |-> TRUE, stop |-> "completed", fails |-> FALSE]
Burst == [Image EXCEPT !.walk = "lists", !.begins = TRUE, !.marks = TRUE,
                       !.frees = FALSE, !.stop = "none", !.fails = TRUE]

Engine ==
  [video |-> Video, music |-> Music, empty |-> EmptyFolder, large |-> LargeFile,
   similar |-> SimilarFolder, document |-> Document, image |-> Image, burst |-> Burst]

VARIABLES
  kind,         \* the engine
  state,        \* engine._state
  cancelEvent,  \* engine._cancel_event is set
  pauseEvent,   \* engine._pause_event is set (set means: paused)
  results,      \* items in engine._results
  pc,           \* per scan: where its body is
  found,        \* per scan: items found, so far or to loop over
  pos,          \* per scan: items visited
  outcome,      \* per scan: state of its terminal progress
  awaited,      \* scans that wait_for_completion() has seen the end of
  ctl,          \* where the controller is
  ops, scans,   \* counters for the bounds
  leaked,       \* history: items visited while the pause event was set
  unheard       \* history: files the walk opened while the pause event was set

engineVars == <<state, cancelEvent, pauseEvent>>
histVars   == <<leaked, unheard>>
bodyVars   == <<results, pc, found, pos, outcome, histVars>>
ctlVars    == <<awaited, ctl, ops, scans>>
vars == <<kind, engineVars, bodyVars, ctlVars>>

E        == Engine[kind]
Scans    == 1..MaxScans
States   == {"idle", "scanning", "paused", "completed", "cancelled", "error"}
Outcomes == {"none", "completed", "cancelled", "error"}
Points   == {"none", "spawned", "walk", "check", "gate", "item", "last", "results",
             "complete", "stopped", "emit", "dead"}

Running(s) == pc[s] \notin {"none", "spawned", "dead"}

(* The orchestrator's scan thread of a nested engine ends after start().   *)
ThreadAlive(s) == pc[s] = "spawned" \/ (Running(s) /\ ~E.nested)

Init ==
  /\ kind \in Kinds
  /\ state = "idle" /\ cancelEvent = FALSE /\ pauseEvent = FALSE
  /\ results = 0 /\ leaked = 0 /\ unheard = 0
  /\ pc = [s \in Scans |-> "none"]
  /\ found = [s \in Scans |-> 0] /\ pos = [s \in Scans |-> 0]
  /\ outcome = [s \in Scans |-> "none"]
  /\ awaited = {} /\ ctl = "idle" /\ ops = 0 /\ scans = 0

------------------------------------------------------------------------------
(* The controller: one orchestrator call at a time.                        *)

StartScan ==
  /\ ctl = "idle" /\ scans < MaxScans
  /\ \A s \in Scans : ~ThreadAlive(s)
  /\ scans' = scans + 1
  /\ pc' = [pc EXCEPT ![scans + 1] = "spawned"]
  /\ UNCHANGED <<kind, engineVars, results, found, pos, outcome, histVars, awaited, ctl,
                 ops>>

(* pause() and resume() of the orchestrator look at the engine's state and *)
(* then call the engine's, which sets the event, and the state last.       *)
(* pause() of the burst engine raises.  The photo engine looks whether its *)
(* thread is alive, but never reports SCANNING and is not asked to pause.  *)
PauseBegin ==
  /\ ctl = "idle" /\ ops < MaxOps /\ state = "scanning" /\ E.gate
  /\ ops' = ops + 1
  /\ ctl' = "pausing"
  /\ UNCHANGED <<kind, engineVars, bodyVars, awaited, scans>>

PauseEvent ==
  /\ ctl = "pausing"
  /\ pauseEvent' = TRUE
  /\ leaked' = 0 /\ unheard' = 0
  /\ ctl' = "paused"
  /\ UNCHANGED <<kind, state, cancelEvent, results, pc, found, pos, outcome, awaited, ops,
                 scans>>

ResumeBegin ==
  /\ ctl = "idle" /\ ops < MaxOps /\ state = "paused"
  /\ ops' = ops + 1
  /\ ctl' = "resuming"
  /\ UNCHANGED <<kind, engineVars, bodyVars, awaited, scans>>

ResumeEvent ==
  /\ ctl = "resuming"
  /\ pauseEvent' = FALSE
  /\ ctl' = "scanning"
  /\ UNCHANGED <<kind, state, cancelEvent, bodyVars, awaited, ops, scans>>

(* Variant: cancel() leaves the pause event set. *)
CancelBeginOnly ==
  /\ ctl = "idle" /\ ops < MaxOps
  /\ ops' = ops + 1
  /\ cancelEvent' = TRUE
  /\ ctl' = IF E.marks THEN "cancelled" ELSE "idle"
  /\ UNCHANGED <<kind, state, pauseEvent, bodyVars, awaited, scans>>

CancelBegin ==
  /\ ctl = "idle" /\ ops < MaxOps
  /\ ops' = ops + 1
  /\ cancelEvent' = TRUE
  /\ pauseEvent' = IF E.frees THEN FALSE ELSE pauseEvent
  /\ ctl' = IF E.marks THEN "cancelled" ELSE "idle"
  /\ UNCHANGED <<kind, state, bodyVars, awaited, scans>>

(* The last half of each: the state.                                       *)
SetState ==
  /\ ctl \in {"paused", "scanning", "cancelled"}
  /\ state' = ctl
  /\ ctl' = "idle"
  /\ UNCHANGED <<kind, cancelEvent, pauseEvent, bodyVars, awaited, ops, scans>>

(* wait_for_completion() joins the orchestrator's thread.                  *)
Await(s) ==
  /\ s <= scans /\ ~ThreadAlive(s) /\ s \notin awaited
  /\ awaited' = awaited \cup {s}
  /\ UNCHANGED <<kind, engineVars, bodyVars, ctl, ops, scans>>

------------------------------------------------------------------------------
(* The body of a scan.                                                     *)

Goto(s, p) == pc' = [pc EXCEPT ![s] = p]

(* Where n items found lead: the loop, or past it.                         *)
Entry(n) == IF n > 0 THEN "check" ELSE IF E.last /\ ~E.early THEN "last" ELSE "results"

Start(s) ==
  /\ pc[s] = "spawned"
  /\ cancelEvent' = FALSE /\ pauseEvent' = FALSE
  /\ results' = 0
  /\ state' = IF E.begins THEN "scanning" ELSE state
  /\ \/ E.walk # "none" /\ Goto(s, "walk") /\ UNCHANGED found
     \/ E.walk = "none" /\ \E n \in 0..NumItems :
                             found' = [found EXCEPT ![s] = n] /\ Goto(s, Entry(n))
  /\ UNCHANGED <<kind, pos, outcome, histVars, ctlVars>>

(* One file of the walk; there is no pause wait.                           *)
Walk(s) ==
  /\ pc[s] = "walk" /\ found[s] < NumItems
  /\ ~(E.hears /\ cancelEvent)
  /\ found' = [found EXCEPT ![s] = @ + 1]
  /\ unheard' = IF pauseEvent /\ E.walk = "opens" THEN unheard + 1 ELSE unheard
  /\ UNCHANGED <<kind, engineVars, results, pc, pos, outcome, leaked, ctlVars>>

(* The end of the walk: a filter leaves n of what was found.               *)
Walked(s) ==
  /\ pc[s] = "walk"
  /\ \E n \in 0..found[s] :
       /\ found' = [found EXCEPT ![s] = n]
       /\ Goto(s, IF E.hears /\ cancelEvent THEN "stopped" ELSE Entry(n))
  /\ UNCHANGED <<kind, engineVars, results, pos, outcome, histVars, ctlVars>>

(* The photo engine's libraries are missing: ERROR, and nothing is reset.  *)
StartFails(s) ==
  /\ pc[s] = "spawned" /\ kind = "image"
  /\ outcome' = [outcome EXCEPT ![s] = "error"]
  /\ Goto(s, "dead")
  /\ UNCHANGED <<kind, engineVars, results, found, pos, histVars, ctlVars>>

CheckCancel(s) ==
  /\ pc[s] = "check"
  /\ Goto(s, IF cancelEvent THEN "stopped" ELSE IF E.gate THEN "gate" ELSE "item")
  /\ UNCHANGED <<kind, engineVars, results, found, pos, outcome, histVars, ctlVars>>

(* Variant: an if where the loop has a while. *)
GateOpen(s) ==
  /\ pc[s] = "gate"
  /\ Goto(s, "item")
  /\ UNCHANGED <<kind, engineVars, results, found, pos, outcome, histVars, ctlVars>>

(* Variant: the event read the other way round, as the turbo engine does. *)
GateInverted(s) ==
  /\ pc[s] = "gate" /\ pauseEvent
  /\ Goto(s, "item")
  /\ UNCHANGED <<kind, engineVars, results, found, pos, outcome, histVars, ctlVars>>

(* A sleep of 50 or 100 ms per look; no look at the cancel event.          *)
Gate(s) ==
  /\ pc[s] = "gate" /\ ~pauseEvent
  /\ Goto(s, "item")
  /\ UNCHANGED <<kind, engineVars, results, found, pos, outcome, histVars, ctlVars>>

Visit(s) ==
  /\ pc[s] = "item"
  /\ pos' = [pos EXCEPT ![s] = @ + 1]
  /\ leaked' = IF pauseEvent THEN leaked + 1 ELSE leaked
  /\ Goto(s, IF pos[s] + 1 < found[s] THEN "check"
             ELSE IF E.last THEN "last" ELSE "results")
  /\ UNCHANGED <<kind, engineVars, results, found, outcome, unheard, ctlVars>>

(* Most engines let the exception through to the orchestrator, which       *)
(* reports ERROR and leaves the engine's state as it is.                   *)
Raise(s) ==
  /\ pc[s] = "item"
  /\ state' = IF E.fails THEN "error" ELSE state
  /\ outcome' = [outcome EXCEPT ![s] = "error"]
  /\ Goto(s, "dead")
  /\ UNCHANGED <<kind, cancelEvent, pauseEvent, results, found, pos, histVars, ctlVars>>

LastCheck(s) ==
  /\ pc[s] = "last"
  /\ Goto(s, IF cancelEvent THEN "stopped" ELSE "results")
  /\ UNCHANGED <<kind, engineVars, results, found, pos, outcome, histVars, ctlVars>>

(* Variant: the results of what was visited so far. *)
StoppedKeeping(s) ==
  /\ pc[s] = "stopped"
  /\ state' = IF E.stop = "none" THEN state ELSE E.stop
  /\ results' = pos[s]
  /\ outcome' = [outcome EXCEPT ![s] = E.stop]
  /\ Goto(s, IF E.stop = "none" THEN "dead" ELSE "emit")
  /\ UNCHANGED <<kind, cancelEvent, pauseEvent, found, pos, histVars, ctlVars>>

(* A cancelled photo scan goes on with an empty list and completes; a      *)
(* cancelled burst scan returns without a word.                            *)
Stopped(s) ==
  /\ pc[s] = "stopped"
  /\ state' = IF E.stop = "none" THEN state ELSE E.stop
  /\ results' = IF E.stop = "completed" THEN 0 ELSE results
  /\ outcome' = [outcome EXCEPT ![s] = E.stop]
  /\ Goto(s, IF E.stop = "none" THEN "dead" ELSE "emit")
  /\ UNCHANGED <<kind, cancelEvent, pauseEvent, found, pos, histVars, ctlVars>>

SetResults(s) ==
  /\ pc[s] = "results"
  /\ results' = pos[s]
  /\ Goto(s, "complete")
  /\ UNCHANGED <<kind, engineVars, found, pos, outcome, histVars, ctlVars>>

Complete(s) ==
  /\ pc[s] = "complete"
  /\ state' = "completed"
  /\ outcome' = [outcome EXCEPT ![s] = "completed"]
  /\ Goto(s, "emit")
  /\ UNCHANGED <<kind, cancelEvent, pauseEvent, results, found, pos, histVars, ctlVars>>

(* The terminal progress, the last thing the thread does.                  *)
Emit(s) ==
  /\ pc[s] = "emit"
  /\ Goto(s, "dead")
  /\ UNCHANGED <<kind, engineVars, results, found, pos, outcome, histVars, ctlVars>>

------------------------------------------------------------------------------
Controller ==
  \/ StartScan \/ PauseBegin \/ PauseEvent \/ ResumeBegin \/ ResumeEvent
  \/ CancelBegin \/ SetState

Body(s) ==
  \/ Start(s) \/ StartFails(s) \/ Walk(s) \/ Walked(s) \/ CheckCancel(s) \/ Gate(s)
  \/ Visit(s) \/ Raise(s) \/ LastCheck(s) \/ Stopped(s) \/ SetResults(s) \/ Complete(s) \/ Emit(s)

Next == Controller \/ \E s \in Scans : Body(s) \/ Await(s)

Spec == Init /\ [][Next]_vars

(* Threads run, and a call that has begun goes on; no call need begin.     *)
Fairness == /\ WF_vars(PauseEvent \/ ResumeEvent \/ SetState)
            /\ \A s \in Scans : WF_vars(Body(s))

FairSpec == Spec /\ Fairness

------------------------------------------------------------------------------
(* Every variable keeps its type. *)
TypeOK ==
  /\ kind \in Kinds /\ state \in States
  /\ cancelEvent \in BOOLEAN /\ pauseEvent \in BOOLEAN
  /\ results \in 0..NumItems /\ leaked \in Nat /\ unheard \in Nat
  /\ pc \in [Scans -> Points] /\ outcome \in [Scans -> Outcomes]
  /\ found \in [Scans -> 0..NumItems] /\ pos \in [Scans -> 0..NumItems]
  /\ awaited \subseteq Scans
  /\ ctl \in {"idle", "pausing", "paused", "resuming", "scanning", "cancelled"}
  /\ ops \in 0..MaxOps /\ scans \in 0..MaxScans

(* After pause() the loop reads one more item at most, the one past the    *)
(* gate, and none if files are still being found.  What an ungated walk    *)
(* opens is not bounded: a paused similar-folder scan opens every file it  *)
(* is to compare and stops at the loop.                                    *)
PauseBound == leaked <= 1 /\ (unheard > 0 => leaked = 0)

(* What get_results() answers once a scan has ended: all it found after a  *)
(* COMPLETED scan, nothing after one that was cancelled or raised; never a *)
(* part, and never what an earlier scan found.  (Engines with a thread of  *)
(* their own run two scans at once and promise less.)                      *)
AllOrNothing ==
  ~E.nested =>
    \A s \in Scans : s = scans /\ pc[s] \in {"emit", "dead"} =>
      results = IF outcome[s] = "completed" THEN found[s] ELSE 0

(* An engine whose cancel() frees a paused loop, or that cannot be paused, *)
(* ends after a cancel, unless start() forgets it.                         *)
CancelEnds ==
  \A s \in Scans :
    (E.frees \/ ~E.gate) /\ cancelEvent /\ Running(s) ~> ~Running(s) \/ ~cancelEvent

(* A body that is not paused runs to its end, whatever is called.          *)
BodyEnds == \A s \in Scans : Running(s) /\ ~pauseEvent ~> ~Running(s) \/ pauseEvent

(* No scan is left hanging: neither one that is cancelled nor one that is  *)
(* not paused.                                                             *)
ScansEnd == CancelEnds /\ BodyEnds
==============================================================================
