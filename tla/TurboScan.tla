------------------------------ MODULE TurboScan ------------------------------
(***************************************************************************)
(* One TurboFileEngine under ScanOrchestrator: the scan thread that runs   *)
(* start(), TurboScanner.scan() and the terminal bookkeeping of _do_scan;  *)
(* the hash workers of its thread pool; and the controller, i.e. whichever *)
(* thread holds the orchestrator's lock for pause(), resume() or cancel(). *)
(* The engine's state is written by the scan thread and by the controller  *)
(* with no lock in common, so every read-then-write of it is two steps.    *)
(*                                                                         *)
(* Files are the members of one duplicate group: what is hashed, grouped   *)
(* and delivered is a subset of Files.  Zombie workers of an aborted pool  *)
(* keep their job until the next pool replaces it.                         *)
(***************************************************************************)
EXTENDS Naturals, FiniteSets

CONSTANTS
  Files,        \* duplicate candidates below the scan roots
  NumWorkers,   \* threads of the hash pool
  Rounds,       \* hash phases: 1 (quick) or 2 (quick, then full)
  MaxOps,       \* bound: controller operations in a behaviour
  MaxScans      \* bound: scans in a behaviour

ASSUME FilesAssumption   == IsFiniteSet(Files)
ASSUME WorkersAssumption == NumWorkers \in Nat \ {0}
ASSUME RoundsAssumption  == Rounds \in 1..2
ASSUME BoundsAssumption  == MaxOps \in Nat /\ MaxScans \in Nat \ {0}

VARIABLES
  state,        \* engine._state
  shown,        \* state in the last ScanProgress emitted
  cancelEvent,  \* engine._cancel_event is set
  pauseEvent,   \* engine._pause_event is set (set means: not paused)
  results,      \* engine._results, as the set of files delivered
  spc,          \* where the scan thread is
  ret,          \* where it continues after the progress callback
  stage,        \* state that the callback's stage maps to
  round,        \* hash phase in progress
  cand,         \* candidates of that phase
  job,          \* per file: its task in the hash pool
  pending,      \* files whose prefix the Tier-A pool has still to read
  collected,    \* files whose hash as_completed has handed over
  bad,          \* files of which a read has failed
  lastGroups,   \* scanner.last_groups
  stopped,      \* local _cancelled of _do_scan
  term,         \* local terminal_state of _do_scan; "error" once scan() raised
  heard,        \* history: what the thread read of the cancel event at its end
  outcome,      \* state of the last terminal ScanProgress of the scan
  ctl,          \* where the controller is
  ops, scans,   \* counters for the bounds
  leaked,       \* history: files the hash workers opened in this pause
  ungated       \* history: the passes without a gate that opened files in it

engineVars == <<state, shown, cancelEvent, pauseEvent>>
phaseVars  == <<round, cand, job, pending, collected, bad, leaked, ungated>>
endVars    == <<results, lastGroups, stopped, term, heard, outcome>>
ctlVars    == <<ctl, ops, scans>>
vars == <<engineVars, spc, ret, stage, phaseVars, endVars, ctlVars>>

EngineStates == {"idle", "scanning", "paused", "completed", "cancelled", "error"}
Terminal     == {"cancelled", "error"}
JobStates    == {"none", "queued", "gate", "check", "read",
                 "ok", "fail", "skip", "taken", "dropped"}
ScanPoints   == {"none", "spawned", "started", "running", "roots", "discover",
                 "tierA", "prefix", "phase", "sample", "prefetch",
                 "collect", "checkCancel", "drain",
                 "finishing", "forceEmit", "convert", "readCancel",
                 "guardTerminal", "setTerminal", "emitTerminal", "raise", "dead",
                 "cbGuard", "cbCheck", "cbWrite", "cbEmit"}
CtlPoints    == {"idle", "pauseEvent", "pauseState", "pauseShow",
                 "resumeState", "resumeSet", "cancelState"}

(* A group with fewer than two members is dropped. *)
Grouped(S) == IF \E f, g \in S : f # g THEN S ELSE {}

Alive == spc \notin {"none", "dead"}
Busy  == {f \in Files : job[f] \in {"gate", "check", "read"}}

Init ==
  /\ state = "idle" /\ shown = "idle"
  /\ cancelEvent = FALSE /\ pauseEvent = TRUE
  /\ results = {}
  /\ spc = "none" /\ ret = "none" /\ stage = "scanning"
  /\ round = 1 /\ cand = {} /\ pending = {} /\ collected = {} /\ bad = {}
  /\ lastGroups = {}
  /\ job = [f \in Files |-> "none"]
  /\ stopped = FALSE /\ term = "completed" /\ heard = FALSE /\ outcome = "none"
  /\ ctl = "idle" /\ ops = 0 /\ scans = 0
  /\ leaked = 0 /\ ungated = {}

------------------------------------------------------------------------------
(* The controller: orchestrator methods, one at a time under its RLock.    *)

StartScan ==
  /\ ctl = "idle" /\ ~Alive /\ scans < MaxScans
  /\ scans' = scans + 1
  /\ spc' = "spawned"
  /\ UNCHANGED <<engineVars, ret, stage, phaseVars, endVars, ctl, ops>>

(* pause(): the orchestrator looks at the state, then the engine acts.     *)
PauseBegin ==
  /\ ctl = "idle" /\ ops < MaxOps /\ state = "scanning"
  /\ ops' = ops + 1
  /\ ctl' = "pauseEvent"
  /\ UNCHANGED <<engineVars, spc, ret, stage, phaseVars, endVars, scans>>

(* What is opened in a pause is counted from its beginning. *)
PauseEvent ==
  /\ ctl = "pauseEvent"
  /\ pauseEvent' = FALSE
  /\ IF pauseEvent
     THEN leaked' = 0 /\ ungated' = {}
     ELSE UNCHANGED <<leaked, ungated>>
  /\ ctl' = "pauseState"
  /\ UNCHANGED <<state, shown, cancelEvent, spc, ret, stage, round, cand, job,
                 pending, collected, bad, endVars, ops, scans>>

PauseState ==
  /\ ctl = "pauseState"
  /\ state' = "paused"
  /\ ctl' = "pauseShow"
  /\ UNCHANGED <<shown, cancelEvent, pauseEvent, spc, ret, stage, phaseVars,
                 endVars, ops, scans>>

PauseShow ==
  /\ ctl = "pauseShow"
  /\ shown' = "paused"
  /\ ctl' = "idle"
  /\ UNCHANGED <<state, cancelEvent, pauseEvent, spc, ret, stage, phaseVars,
                 endVars, ops, scans>>

ResumeBegin ==
  /\ ctl = "idle" /\ ops < MaxOps /\ state = "paused"
  /\ ops' = ops + 1
  /\ ctl' = "resumeState"
  /\ UNCHANGED <<engineVars, spc, ret, stage, phaseVars, endVars, scans>>

ResumeState ==
  /\ ctl = "resumeState"
  /\ state' = "scanning" /\ shown' = "scanning"
  /\ ctl' = "resumeSet"
  /\ UNCHANGED <<cancelEvent, pauseEvent, spc, ret, stage, phaseVars, endVars,
                 ops, scans>>

ResumeSet ==
  /\ ctl = "resumeSet"
  /\ pauseEvent' = TRUE
  /\ ctl' = "idle"
  /\ UNCHANGED <<state, shown, cancelEvent, spc, ret, stage, phaseVars, endVars,
                 ops, scans>>

(* cancel(): the event, then the state.  The join that follows has a       *)
(* five-second timeout and changes nothing.                                *)
CancelBegin ==
  /\ ctl = "idle" /\ ops < MaxOps
  /\ ops' = ops + 1
  /\ cancelEvent' = TRUE
  /\ ctl' = "cancelState"
  /\ UNCHANGED <<state, shown, pauseEvent, spc, ret, stage, phaseVars, endVars,
                 scans>>

CancelState ==
  /\ ctl = "cancelState"
  /\ state' = "cancelled"
  /\ ctl' = "idle"
  /\ UNCHANGED <<shown, cancelEvent, pauseEvent, spc, ret, stage, phaseVars,
                 endVars, ops, scans>>

------------------------------------------------------------------------------
(* The scan thread: engine.start() and _run_scan().                        *)

(* Variant: start() keeps the results of the scan before. *)
EngineResetKeepingResults ==
  /\ spc = "spawned"
  /\ cancelEvent' = FALSE /\ pauseEvent' = TRUE
  /\ lastGroups' = {}
  /\ collected' = {} /\ bad' = {} /\ cand' = {} /\ round' = 1
  /\ stopped' = FALSE /\ term' = "completed" /\ heard' = FALSE
  /\ outcome' = "none"
  /\ spc' = "started"
  /\ UNCHANGED <<state, shown, results, ret, stage, job, pending, leaked,
                 ungated, ctlVars>>

EngineReset ==
  /\ spc = "spawned"
  /\ cancelEvent' = FALSE /\ pauseEvent' = TRUE
  /\ results' = {} /\ lastGroups' = {}
  /\ collected' = {} /\ bad' = {} /\ cand' = {} /\ round' = 1
  /\ stopped' = FALSE /\ term' = "completed" /\ heard' = FALSE
  /\ outcome' = "none"
  /\ spc' = "started"
  /\ UNCHANGED <<state, shown, ret, stage, job, pending, leaked, ungated,
                 ctlVars>>

EngineStarted ==
  /\ spc = "started"
  /\ state' = "scanning" /\ shown' = "scanning"
  /\ spc' = "running"
  /\ UNCHANGED <<cancelEvent, pauseEvent, ret, stage, phaseVars, endVars,
                 ctlVars>>

(* _run_scan() sets SCANNING once more; _do_scan() wires the checkpoint.   *)
RunScan ==
  /\ spc = "running"
  /\ state' = "scanning"
  /\ spc' = "roots"
  /\ UNCHANGED <<shown, cancelEvent, pauseEvent, ret, stage, phaseVars, endVars,
                 ctlVars>>

(* An unreachable root is reported as SCANNING, whatever the state is.     *)
UnreachableRoot ==
  /\ spc = "roots"
  /\ shown' = "scanning"
  /\ UNCHANGED <<state, cancelEvent, pauseEvent, spc, ret, stage, phaseVars,
                 endVars, ctlVars>>

(* Every root is protected or unreachable: completed, nothing scanned.     *)
NoRoots ==
  /\ spc = "roots"
  /\ state' = "completed" /\ shown' = "completed" /\ outcome' = "completed"
  /\ bad' = Files
  /\ spc' = "dead"
  /\ UNCHANGED <<cancelEvent, pauseEvent, ret, stage, round, cand, job, pending,
                 collected, leaked, ungated, results, lastGroups, stopped, term,
                 heard, ctlVars>>

Roots ==
  /\ spc = "roots"
  /\ spc' = "discover"
  /\ UNCHANGED <<engineVars, ret, stage, phaseVars, endVars, ctlVars>>

------------------------------------------------------------------------------
(* The progress callback, run on the scan thread: _on_turbo_progress reads *)
(* the state, may write it, and builds the ScanProgress from it.           *)

Callback(st, next) == spc' = "cbGuard" /\ stage' = st /\ ret' = next

CbGuard ==
  /\ spc = "cbGuard"
  /\ spc' = IF state \in Terminal \/ (cancelEvent /\ stage = "scanning")
            THEN ret ELSE "cbCheck"
  /\ UNCHANGED <<engineVars, ret, stage, phaseVars, endVars, ctlVars>>

CbCheck ==
  /\ spc = "cbCheck"
  /\ spc' = IF state # "paused" THEN "cbWrite" ELSE "cbEmit"
  /\ UNCHANGED <<engineVars, ret, stage, phaseVars, endVars, ctlVars>>

(* COMPLETE maps to SCANNING: _do_scan reports completion later.           *)
CbWrite ==
  /\ spc = "cbWrite"
  /\ state' = IF stage = "finished" THEN "scanning" ELSE stage
  /\ spc' = "cbEmit"
  /\ UNCHANGED <<shown, cancelEvent, pauseEvent, ret, stage, phaseVars, endVars,
                 ctlVars>>

CbEmit ==
  /\ spc = "cbEmit"
  /\ shown' = state
  /\ outcome' = IF state \in Terminal \cup {"completed"} THEN state ELSE outcome
  /\ spc' = ret
  /\ UNCHANGED <<state, cancelEvent, pauseEvent, ret, stage, phaseVars, results,
                 lastGroups, stopped, term, heard, ctlVars>>

------------------------------------------------------------------------------
(* The scan thread: TurboScanner.scan().                                   *)

(* Behind the first pause gate: walking and grouping by size, which open   *)
(* no file.  A cancel is noticed by the walk, and then usually ends the    *)
(* scan.                                                                   *)
Discover ==
  /\ spc = "discover" /\ pauseEvent
  /\ cand' = Files
  /\ Callback("scanning", "tierA")
  /\ UNCHANGED <<engineVars, round, job, pending, collected, bad, leaked,
                 ungated, endVars, ctlVars>>

DiscoverCancelled ==
  /\ spc = "discover" /\ pauseEvent /\ cancelEvent
  /\ spc' = "forceEmit"
  /\ UNCHANGED <<engineVars, ret, stage, phaseVars, endVars, ctlVars>>

(* The walk, the cache or, for a locked database, a hash worker raised; in *)
(* the last case the pool is left once all its tasks are over.             *)
ScanRaises ==
  /\ \/ spc \in {"discover", "prefetch"}
     \/ /\ spc = "collect"
        /\ \A f \in Files : job[f] \notin {"queued", "gate", "check", "read"}
  /\ term' = "error"
  /\ spc' = "forceEmit"
  /\ UNCHANGED <<engineVars, ret, stage, phaseVars, results, lastGroups,
                 stopped, heard, outcome, ctlVars>>

(* Tier-A: behind its own gate a pool reads a prefix of every candidate.   *)
(* The progress callbacks of the pass stand before its reads as one.       *)
TierA ==
  /\ spc = "tierA" /\ pauseEvent
  /\ pending' = cand
  /\ Callback("scanning", "prefix")
  /\ UNCHANGED <<engineVars, round, cand, job, collected, bad, leaked, ungated,
                 endVars, ctlVars>>

(* No quick hash, or too few candidates among the files discovered. *)
SkipTierA ==
  /\ spc = "tierA"
  /\ spc' = "phase"
  /\ UNCHANGED <<engineVars, ret, stage, phaseVars, endVars, ctlVars>>

(* A thread of the Tier-A pool opens a file.  It looks at no event.        *)
PrefixRead(f) ==
  /\ f \in pending
  /\ pending' = pending \ {f}
  /\ bad' \in {bad, bad \cup {f}}
  /\ ungated' = IF pauseEvent THEN ungated ELSE ungated \cup {0}
  /\ UNCHANGED <<engineVars, spc, ret, stage, round, cand, job, collected,
                 leaked, endVars, ctlVars>>

(* Files of one prefix stay, and so do those without one, among themselves *)
(* ("__error__"); a file left alone is out.                                *)
PrefixDone ==
  /\ spc = "prefix" /\ pending = {}
  /\ cand' = Grouped(cand \ bad) \cup Grouped(cand \cap bad)
  /\ spc' = "phase"
  /\ UNCHANGED <<engineVars, ret, stage, round, job, pending, collected, bad,
                 leaked, ungated, endVars, ctlVars>>

(* A cancel: the candidates go on as they came, what is queued is dropped. *)
PrefixAborted ==
  /\ spc = "prefix" /\ cancelEvent
  /\ pending' = {}
  /\ spc' = "phase"
  /\ UNCHANGED <<engineVars, ret, stage, round, cand, job, collected, bad,
                 leaked, ungated, endVars, ctlVars>>

PauseGate ==
  /\ spc = "phase" /\ pauseEvent
  /\ Callback("scanning", "sample")
  /\ UNCHANGED <<engineVars, phaseVars, endVars, ctlVars>>

(* With the hash algorithm left to the scanner, every phase first reads    *)
(* some candidates on the scan thread, past the gate.                      *)
Sample ==
  /\ spc = "sample"
  /\ ungated' = IF pauseEvent \/ cand = {} THEN ungated ELSE ungated \cup {round}
  /\ spc' = "prefetch"
  /\ UNCHANGED <<engineVars, ret, stage, round, cand, job, pending, collected,
                 bad, leaked, endVars, ctlVars>>

(* What a hash phase hands on: the next phase's candidates, or the groups. *)
PhaseResult(S) ==
  /\ collected' = {}
  /\ IF round < Rounds
     THEN /\ cand' = S /\ round' = round + 1
          /\ spc' = "phase"
          /\ UNCHANGED lastGroups
     ELSE /\ lastGroups' = S
          /\ spc' = "drain"
          /\ UNCHANGED <<cand, round>>

(* A cancel before the pool is filled, or no candidates: nothing to hash.  *)
NothingToHash ==
  /\ spc = "prefetch"
  /\ cancelEvent \/ cand = {}
  /\ PhaseResult({})
  /\ UNCHANGED <<engineVars, ret, stage, job, pending, bad, leaked, ungated,
                 results, stopped, term, heard, outcome, ctlVars>>

SubmitJobs ==
  /\ spc = "prefetch" /\ ~cancelEvent /\ cand # {}
  /\ job' = [f \in Files |-> IF f \in cand THEN "queued" ELSE "none"]
  /\ spc' = "collect"
  /\ UNCHANGED <<engineVars, ret, stage, round, cand, pending, collected, bad,
                 leaked, ungated, endVars, ctlVars>>

(* Variant: a worker that leaves early completes no future. *)
CollectHashedOnly(f) ==
  /\ spc = "collect" /\ job[f] \in {"ok", "fail"}
  /\ job' = [job EXCEPT ![f] = "taken"]
  /\ collected' = IF job[f] = "ok" THEN collected \cup {f} ELSE collected
  /\ bad' = IF job[f] = "fail" THEN bad \cup {f} ELSE bad
  /\ \/ spc' = "checkCancel" /\ UNCHANGED <<ret, stage>>
     \/ Callback("scanning", "checkCancel")
  /\ UNCHANGED <<engineVars, round, cand, pending, leaked, ungated, endVars,
                 ctlVars>>

(* as_completed() yields a finished job; a progress callback may be due.   *)
Collect(f) ==
  /\ spc = "collect" /\ job[f] \in {"ok", "fail", "skip"}
  /\ job' = [job EXCEPT ![f] = "taken"]
  /\ collected' = IF job[f] = "ok" THEN collected \cup {f} ELSE collected
  /\ bad' = IF job[f] = "fail" THEN bad \cup {f} ELSE bad
  /\ \/ spc' = "checkCancel" /\ UNCHANGED <<ret, stage>>
     \/ Callback("scanning", "checkCancel")
  /\ UNCHANGED <<engineVars, round, cand, pending, leaked, ungated, endVars,
                 ctlVars>>

CollectMore ==
  /\ spc = "checkCancel" /\ ~cancelEvent
  /\ \E f \in cand : job[f] # "taken"
  /\ spc' = "collect"
  /\ UNCHANGED <<engineVars, ret, stage, phaseVars, endVars, ctlVars>>

PhaseDone ==
  /\ spc = "checkCancel" /\ ~cancelEvent
  /\ \A f \in cand : job[f] = "taken"
  /\ PhaseResult(Grouped(collected))
  /\ UNCHANGED <<engineVars, ret, stage, job, pending, bad, leaked, ungated,
                 results, stopped, term, heard, outcome, ctlVars>>

(* The pool is shut down without waiting: queued jobs are dropped, running *)
(* ones go on by themselves, and what was collected is handed on.          *)
PhaseAborted ==
  /\ spc = "checkCancel" /\ cancelEvent
  /\ job' = [f \in Files |-> IF job[f] = "queued" THEN "dropped" ELSE job[f]]
  /\ PhaseResult(Grouped(collected))
  /\ UNCHANGED <<engineVars, ret, stage, pending, bad, leaked, ungated, results,
                 stopped, term, heard, outcome, ctlVars>>

(* The engine consumes the generator: a row waits while paused, a cancel   *)
(* stops the loop; a group's first row is preceded by scan()'s own check.  *)
Drain ==
  /\ spc = "drain"
  /\ spc' = "finishing"
  /\ lastGroups # {} => pauseEvent /\ ~cancelEvent
  /\ UNCHANGED <<engineVars, ret, stage, phaseVars, endVars, ctlVars>>

DrainStopped ==
  /\ spc = "drain" /\ lastGroups # {} /\ cancelEvent
  /\ \/ stopped' = FALSE
     \/ pauseEvent /\ stopped' = TRUE
  /\ spc' = "forceEmit"
  /\ UNCHANGED <<engineVars, ret, stage, phaseVars, results, lastGroups, term,
                 heard, outcome, ctlVars>>

FinishScan ==
  /\ spc = "finishing"
  /\ IF cancelEvent
     THEN spc' = "forceEmit" /\ UNCHANGED <<ret, stage>>
     ELSE Callback("finished", "convert")
  /\ UNCHANGED <<engineVars, phaseVars, endVars, ctlVars>>

(* force_emit_cancel_terminal_if_needed(), in the finally of the loop.     *)
ForceEmit ==
  /\ spc = "forceEmit"
  /\ LET next == IF term = "error" THEN "raise" ELSE "convert"
     IN IF cancelEvent
        THEN Callback("cancelled", next)
        ELSE spc' = next /\ UNCHANGED <<ret, stage>>
  /\ UNCHANGED <<engineVars, phaseVars, endVars, ctlVars>>

------------------------------------------------------------------------------
(* The scan thread: the end of _do_scan(), or the handler of _run_scan().  *)

(* The protected-path filter and _convert_groups(), which stats each file, *)
(* both stop at a cancel and drop the group they are at.                   *)
ConvertGroups ==
  /\ spc = "convert"
  /\ IF cancelEvent
     THEN results' = {} /\ UNCHANGED bad
     ELSE \E gone \in SUBSET lastGroups :
            /\ bad' = bad \cup gone
            /\ results' = Grouped(lastGroups \ gone)
  /\ spc' = "readCancel"
  /\ UNCHANGED <<engineVars, ret, stage, round, cand, job, pending, collected,
                 leaked, ungated, lastGroups, stopped, term, heard, outcome,
                 ctlVars>>

(* Variant: only a cancel seen in the row loop counts. *)
ReadCancelStoppedOnly ==
  /\ spc = "readCancel"
  /\ term' = IF stopped THEN "cancelled" ELSE "completed"
  /\ heard' = cancelEvent
  /\ spc' = "guardTerminal"
  /\ UNCHANGED <<engineVars, ret, stage, phaseVars, results, lastGroups,
                 stopped, outcome, ctlVars>>

ReadCancel ==
  /\ spc = "readCancel"
  /\ term' = IF stopped \/ cancelEvent THEN "cancelled" ELSE "completed"
  /\ heard' = cancelEvent
  /\ spc' = "guardTerminal"
  /\ UNCHANGED <<engineVars, ret, stage, phaseVars, results, lastGroups,
                 stopped, outcome, ctlVars>>

(* Variant: no look at the state before it is written. *)
GuardTerminalDropped ==
  /\ spc = "guardTerminal"
  /\ spc' = "setTerminal"
  /\ UNCHANGED <<engineVars, ret, stage, phaseVars, endVars, ctlVars>>

GuardTerminal ==
  /\ spc = "guardTerminal"
  /\ term' = IF state \in Terminal THEN state ELSE term
  /\ spc' = "setTerminal"
  /\ UNCHANGED <<engineVars, ret, stage, phaseVars, results, lastGroups,
                 stopped, heard, outcome, ctlVars>>

SetTerminal ==
  /\ spc = "setTerminal"
  /\ state' = term
  /\ spc' = "emitTerminal"
  /\ UNCHANGED <<shown, cancelEvent, pauseEvent, ret, stage, phaseVars, endVars,
                 ctlVars>>

EmitTerminal ==
  /\ spc = "emitTerminal"
  /\ shown' = term /\ outcome' = term
  /\ spc' = "dead"
  /\ UNCHANGED <<state, cancelEvent, pauseEvent, ret, stage, phaseVars, results,
                 lastGroups, stopped, term, heard, ctlVars>>

ScanFailed ==
  /\ spc = "raise"
  /\ state' = "error"
  /\ spc' = "emitTerminal"
  /\ UNCHANGED <<shown, cancelEvent, pauseEvent, ret, stage, phaseVars, endVars,
                 ctlVars>>

------------------------------------------------------------------------------
(* The hash pool: hash_worker(), one task per candidate.                   *)

JobStep(f, from, to) == job[f] = from /\ job' = [job EXCEPT ![f] = to]

JobTake(f) ==
  /\ Cardinality(Busy) < NumWorkers
  /\ JobStep(f, "queued", "gate")
  /\ UNCHANGED <<engineVars, spc, ret, stage, round, cand, pending, collected,
                 bad, leaked, ungated, endVars, ctlVars>>

(* Variant: no pause gate in the workers. *)
JobGateOpen(f) ==
  /\ JobStep(f, "gate", "check")
  /\ UNCHANGED <<engineVars, spc, ret, stage, round, cand, pending, collected,
                 bad, leaked, ungated, endVars, ctlVars>>

JobGate(f) ==
  /\ pauseEvent
  /\ JobStep(f, "gate", "check")
  /\ UNCHANGED <<engineVars, spc, ret, stage, round, cand, pending, collected,
                 bad, leaked, ungated, endVars, ctlVars>>

JobCheck(f) ==
  /\ JobStep(f, "check", IF cancelEvent THEN "skip" ELSE "read")
  /\ leaked' = IF ~cancelEvent /\ ~pauseEvent THEN leaked + 1 ELSE leaked
  /\ UNCHANGED <<engineVars, spc, ret, stage, round, cand, pending, collected,
                 bad, ungated, endVars, ctlVars>>

JobRead(f) ==
  /\ \E h \in {"ok", "fail"} : JobStep(f, "read", h)
  /\ UNCHANGED <<engineVars, spc, ret, stage, round, cand, pending, collected,
                 bad, leaked, ungated, endVars, ctlVars>>

------------------------------------------------------------------------------
Controller ==
  \/ StartScan
  \/ PauseBegin \/ PauseEvent \/ PauseState \/ PauseShow
  \/ ResumeBegin \/ ResumeState \/ ResumeSet
  \/ CancelBegin \/ CancelState

ScanThread ==
  \/ EngineReset \/ EngineStarted \/ RunScan
  \/ UnreachableRoot \/ NoRoots \/ Roots
  \/ CbGuard \/ CbCheck \/ CbWrite \/ CbEmit
  \/ Discover \/ DiscoverCancelled \/ ScanRaises
  \/ TierA \/ SkipTierA \/ PrefixDone \/ PrefixAborted
  \/ PauseGate \/ Sample
  \/ NothingToHash \/ SubmitJobs
  \/ \E f \in Files : Collect(f)
  \/ CollectMore \/ PhaseDone \/ PhaseAborted
  \/ Drain \/ DrainStopped \/ FinishScan \/ ForceEmit
  \/ ConvertGroups
  \/ ReadCancel \/ GuardTerminal \/ SetTerminal \/ EmitTerminal \/ ScanFailed

Worker(f) ==
  PrefixRead(f) \/ JobTake(f) \/ JobGate(f) \/ JobCheck(f) \/ JobRead(f)

Next == Controller \/ ScanThread \/ \E f \in Files : Worker(f)

Spec == Init /\ [][Next]_vars

(* The scan thread and the pool's threads run, and nobody counts on an     *)
(* error; an operation that began on the controller's thread returns.  No  *)
(* user has to begin one.                                                  *)
Fairness ==
  /\ WF_vars(ScanThread /\ ~UnreachableRoot /\ ~ScanRaises)
  /\ \A f \in Files : WF_vars(Worker(f))
  /\ WF_vars(\/ PauseEvent \/ PauseState \/ PauseShow
             \/ ResumeState \/ ResumeSet \/ CancelState)

FairSpec == Spec /\ Fairness

------------------------------------------------------------------------------
EngineTypes ==
  /\ state \in EngineStates /\ shown \in EngineStates
  /\ cancelEvent \in BOOLEAN /\ pauseEvent \in BOOLEAN

ThreadTypes ==
  /\ spc \in ScanPoints /\ ret \in ScanPoints
  /\ stage \in {"scanning", "finished", "cancelled"}

PhaseTypes ==
  /\ round \in 1..Rounds
  /\ cand \in SUBSET Files /\ pending \in SUBSET Files
  /\ collected \in SUBSET Files /\ bad \in SUBSET Files
  /\ job \in [Files -> JobStates]
  /\ leaked \in Nat /\ (\A p \in ungated : p \in Nat)

EndTypes ==
  /\ results \in SUBSET Files /\ lastGroups \in SUBSET Files
  /\ stopped \in BOOLEAN /\ heard \in BOOLEAN
  /\ term \in {"completed", "cancelled", "error"}
  /\ outcome \in {"none", "completed", "cancelled", "error"}

CtlTypes == ctl \in CtlPoints /\ ops \in 0..MaxOps /\ scans \in 0..MaxScans

(* Every variable keeps its type. *)
TypeOK == EngineTypes /\ ThreadTypes /\ PhaseTypes /\ EndTypes /\ CtlTypes

(* A scan that reports COMPLETED has delivered every group: no file is     *)
(* missing from the result but those of which a read failed.  (The cancel  *)
(* event cuts the prefix pass, the hash phases, the row loop and the       *)
(* conversion short, each of which must lead to a CANCELLED outcome.)      *)
CompleteMeansAll ==
  spc = "dead" /\ outcome = "completed" => Grouped(Files \ bad) \subseteq results

(* What goes on being opened after pause() has cleared the event: at most  *)
(* one file per hash worker ("respond to pause() within ~1 file"), and of  *)
(* the passes that have no gate, the Tier-A prefixes and the samples, only *)
(* the one that had begun; the next one waits for resume().                *)
PauseBound ==
  /\ leaked <= NumWorkers
  /\ \A p, q \in ungated : p = q

(* The callback stream of one scan never shows COMPLETED after CANCELLED   *)
(* (tests/test_turbo_engine_regressions.py, "must never be followed").     *)
NoCompletedAfterCancelled ==
  [][outcome = "cancelled" => outcome' # "completed"]_vars

(* While the pause event stays set the scan thread runs to its end, cancel *)
(* or not: the orchestrator accepts another scan only once it is dead.     *)
ScanEnds == Alive /\ pauseEvent ~> ~Alive \/ ~pauseEvent

(* Where the thread is in its own code: the callback returns to ret.       *)
At == IF spc \in {"cbGuard", "cbCheck", "cbWrite", "cbEmit"} THEN ret ELSE spc

(* S has all that must still be delivered, unless a cancel was asked for;  *)
(* the thread may not know of it yet.                                      *)
Covers(S) == cancelEvent \/ Grouped(Files \ bad) \subseteq S

NotTaken == {f \in cand : job[f] # "taken"}

(* Nothing is lost between the phases, so that a scan which ends without   *)
(* having read a cancel has it all: what is left out was cut by a cancel   *)
(* that is still set when the scan reads it for the last time.             *)
NothingLost ==
  /\ At \in {"started", "running", "roots", "discover"} =>
       bad = {} /\ collected = {} /\ results = {}
  /\ pending # {} => At = "prefix"
  /\ At \in {"tierA", "prefix", "phase", "sample", "prefetch"} =>
       collected = {} /\ Covers(cand)
  /\ At \in {"collect", "checkCancel"} =>
       /\ Covers(collected \cup NotTaken)
       /\ \A f \in collected : job[f] = "taken"
       /\ \A f \in Files \ cand : job[f] = "none"
       /\ \A f \in cand : job[f] \in {"skip", "dropped"} => cancelEvent
  /\ At \in {"drain", "finishing", "convert"} => Covers(lastGroups)
  /\ At = "forceEmit" => cancelEvent \/ term = "error"
  /\ At = "readCancel" => Covers(results)
  /\ At \in {"guardTerminal", "setTerminal", "emitTerminal"} /\ term = "completed"
       => ~heard /\ Grouped(Files \ bad) \subseteq results
  /\ At = "dead" /\ outcome = "completed" => Grouped(Files \ bad) \subseteq results

(* ERROR stands for an exception of this scan, and a scan ends in one of   *)
(* the three outcomes.                                                     *)
ErrorIsOwn ==
  /\ spc \in {"cbGuard", "cbCheck", "cbWrite", "cbEmit"} =>
       ret \in {"tierA", "prefix", "sample", "checkCancel", "convert", "raise"}
  /\ At = "raise" => term = "error"
  /\ spc \in {"guardTerminal", "setTerminal"} => term # "error"
  /\ state = "error" => spc \in {"none", "spawned", "started", "emitTerminal", "dead"}
  /\ Alive /\ spc # "spawned" /\ heard => spc \in {"guardTerminal", "setTerminal",
                                                "emitTerminal"}
  /\ spc = "emitTerminal" /\ term = "error" => ~heard
  /\ spc = "dead" => outcome # "none"
  /\ spc = "none" => outcome = "none"

(* pause() or resume() has looked at the state and has still to write it.  *)
Overwriting == ctl \in {"pauseEvent", "pauseState", "resumeState"}

(* A CANCELLED that was shown stays: either the event is set, so that the  *)
(* thread will read it, or the state is CANCELLED (a cancel() that began   *)
(* before start() cleared the event), and nothing overwrites it before the *)
(* thread looks at it.                                                     *)
CancelSticks ==
  /\ spc \in {"cbGuard", "cbCheck", "cbWrite", "cbEmit"} /\ stage = "cancelled"
       => cancelEvent
  /\ state = "completed" =>
       spc \in {"none", "spawned", "started", "emitTerminal", "dead"}
  /\ state = "cancelled" /\ spc \notin {"none", "emitTerminal", "dead"} =>
       ~Overwriting \/ (cancelEvent /\ spc # "spawned")
  /\ At \in {"started", "running", "roots", "discover"} => outcome = "none"
  /\ outcome = "cancelled" =>
       \/ spc \in {"none", "spawned", "guardTerminal", "setTerminal",
                   "emitTerminal", "dead"}
       \/ cancelEvent
       \/ /\ state = "cancelled" /\ ~Overwriting
          /\ spc \notin {"cbCheck", "cbWrite"}
  /\ spc = "guardTerminal" /\ outcome = "cancelled" /\ term = "completed" =>
       state = "cancelled" /\ ~Overwriting
  /\ spc \in {"setTerminal", "emitTerminal"} /\ outcome = "cancelled" =>
       term # "completed"

ScanInv == NothingLost /\ ErrorIsOwn /\ CancelSticks

(* While paused, a file that can still be opened belongs to a worker that  *)
(* had already passed the gate.                                            *)
PastGate == {f \in Files : job[f] = "check"}

WorkersBound ==
  /\ Cardinality(Busy) <= NumWorkers
  /\ leaked <= NumWorkers
  /\ ~pauseEvent => leaked + Cardinality(PastGate) <= NumWorkers

(* While paused the ungated pass that read is the one the thread is in, or *)
(* the last before the gate it has come to.                                *)
PassesBound ==
  /\ \A p, q \in ungated : p = q
  /\ ~pauseEvent /\ At = "prefix" => ungated \subseteq {0}
  /\ ~pauseEvent /\ At = "sample" => ungated = {}

(* The inductive invariant behind the theorems of TurboScan_proofs: what   *)
(* is lost is lost to a cancel, what was shown stays, the pool's size      *)
(* bounds the workers past the gate, and one ungated pass reads a pause.   *)
IInv == ScanInv /\ WorkersBound /\ PassesBound

(* The engine keeps the contract of ScanContract. *)
Closing == {"guardTerminal", "setTerminal", "emitTerminal"}

Phase ==
  IF spc \in {"none", "spawned", "dead"}
  THEN IF outcome = "none" THEN "idle" ELSE "finished"
  ELSE IF spc \in Closing /\ term # "error" THEN "closing" ELSE "running"

Contract == INSTANCE ScanContract WITH
  phase   <- Phase,
  request <- cancelEvent,
  binding <- heard,
  outcome <- IF Phase = "finished" THEN outcome ELSE "none",
  unread  <- bad,
  results <- results

KeepsContract == Contract!Spec
==============================================================================
