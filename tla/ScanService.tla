----------------------------- MODULE ScanService -----------------------------
(***************************************************************************)
(* A scan as the window sees it: DashboardPage and ScanHUD on the UI       *)
(* thread, BackendService with one worker thread per accepted start_scan(),*)
(* ScanOrchestrator with its lock and the scan thread, and the state       *)
(* bridge's session and history rows.  A run is one press of Start; it     *)
(* scans its modes one after the other, each with an engine of its own.    *)
(*                                                                         *)
(* An engine is what TurboScan shows of it: start() forgets a cancel and   *)
(* the results, a cancelled scan delivers nothing, and the terminal        *)
(* progress comes before the thread ends.  Progress other than CANCELLED   *)
(* only paints and is left out, as is pausing (see TurboScan) with the     *)
(* dialog that pauses after repeated read errors, and the review's deletes.*)
(***************************************************************************)
EXTENDS Naturals, Sequences, FiniteSets

CONSTANTS
  Modes,       \* engine modes, in the order in which a run scans them
  ModesOf,     \* per run: it scans the modes 1..ModesOf[r]
  MaxRuns,     \* bound: presses of Start
  MaxCancels   \* bound: confirmed cancels

ASSUME ModesAssumption  == Modes \in Nat \ {0}
ASSUME BoundsAssumption == MaxRuns \in Nat \ {0} /\ MaxCancels \in Nat

Runs    == 1..MaxRuns
Engines == 1..Modes

ASSUME ModesOfAssumption == ModesOf \in [Runs -> Engines]

Threads == Runs \X Engines

VARIABLES
  scanning,  \* BackendService._scanning
  cancel,    \* BackendService._cancel_event is set
  worker,    \* per run: pc and mode of its worker, thread joined, results
  lock,      \* run whose worker holds the orchestrator's lock, or 0
  active,    \* the orchestrator's active engine
  thread,    \* per run and mode: pc of the scan thread and its engine
  current,   \* ScanOrchestrator._scan_thread
  engine,    \* per engine: cancel event set, run whose results it holds
  queue,     \* callbacks scheduled on the UI thread
  ui,        \* flags of DashboardPage and ScanHUD
  session,   \* run of StateBridge._scan_session, or 0
  rows,      \* rows of the scan history
  store,     \* results of AppState.groups
  runs,      \* presses of Start so far
  cancels,   \* confirmed cancels so far
  told,      \* history: runs whose end the UI has been told
  asked,     \* history: runs the user cancelled before their end was told
  failed,    \* history: runs in which a scan raised
  mixed      \* history: runs that met another before their end was told

svcVars  == <<scanning, cancel>>
orchVars == <<lock, active, thread, current, engine>>
uiVars   == <<queue, ui, session, rows, store>>
histVars == <<runs, cancels, told, asked, failed, mixed>>
vars == <<svcVars, worker, orchVars, uiVars, histVars>>

WorkerPoints == {"none", "check", "setMode", "join", "start", "wait", "collect",
                 "deliver", "error", "reset", "dead"}
ThreadPoints == {"none", "spawned", "running", "emit", "unscan", "exit", "dead"}
Outcomes     == {"completed", "cancelled", "error"}

Alive(t) == thread[t].pc \notin {"none", "dead"}
CurrentAlive == current \in Threads /\ Alive(current)

(* A thread's locals, before it exists and after it has ended. *)
NoWorker(p) == [pc |-> p, mode |-> 1, on |-> <<>>, got |-> {}]
NoThread(p) == [pc |-> p, engine |-> 1, outcome |-> "completed"]

Init ==
  /\ scanning = FALSE /\ cancel = FALSE
  /\ worker = [r \in Runs |-> NoWorker("none")]
  /\ lock = 0 /\ active = 1 /\ current = <<>>
  /\ thread = [t \in Threads |-> NoThread("none")]
  /\ engine = [m \in Engines |-> [cancel |-> FALSE, results |-> 0]]
  /\ queue = <<>>
  /\ ui = [hud |-> FALSE, cancelled |-> FALSE, choice |-> FALSE, handled |-> FALSE,
           dismissed |-> FALSE, accept |-> FALSE, finished |-> FALSE,
           dialog |-> FALSE, forward |-> FALSE, banner |-> FALSE, partial |-> {}]
  /\ session = 0 /\ rows = {} /\ store = {}
  /\ runs = 0 /\ cancels = 0
  /\ told = {} /\ asked = {} /\ failed = {} /\ mixed = {}

------------------------------------------------------------------------------
(* The UI thread: what the user presses.  A modal dialog takes every press *)
(* until it is answered; a handler that is not over keeps all others out.  *)

Idle == ~ui.dialog /\ ~ui.forward

(* Runs whose end the window has still to be told. *)
Open == {q \in 1..runs : q \notin told}

(* Start is on the main panels, which the HUD hides.  _begin_scan() does   *)
(* not look at what start_scan() returns.                                  *)
BeginScan ==
  /\ Idle /\ ~ui.hud /\ runs < MaxRuns
  /\ LET r == runs + 1
     IN /\ runs' = r
        /\ session' = r
        /\ ui' = [ui EXCEPT !.hud = TRUE, !.cancelled = FALSE, !.choice = FALSE,
                            !.handled = FALSE, !.dismissed = FALSE, !.accept = TRUE,
                            !.finished = FALSE, !.partial = {}]
        /\ IF scanning
           THEN /\ told' = told \cup {r}
                /\ UNCHANGED <<svcVars, worker>>
           ELSE /\ scanning' = TRUE /\ cancel' = FALSE
                /\ worker' = [worker EXCEPT ![r].pc = "check"]
                /\ UNCHANGED told
        /\ mixed' = IF Open = {} THEN mixed ELSE mixed \cup Open \cup {r}
  /\ UNCHANGED <<orchVars, queue, rows, store, cancels, asked, failed>>

(* "Cancel Scan", on the HUD of a scan that has not ended, only asks ...   *)
StopScan ==
  /\ Idle /\ ui.hud /\ ~ui.cancelled /\ ~ui.finished /\ ~ui.choice
  /\ cancels < MaxCancels
  /\ ui' = [ui EXCEPT !.dialog = TRUE]
  /\ UNCHANGED <<svcVars, worker, orchVars, queue, session, rows, store, histVars>>

KeepScanning ==
  /\ ui.dialog /\ ~ui.forward
  /\ ui' = [ui EXCEPT !.dialog = FALSE]
  /\ UNCHANGED <<svcVars, worker, orchVars, queue, session, rows, store, histVars>>

(* ... and the answer looks at nothing: the scan may have ended meanwhile. *)
(* backend.cancel_scan() ...                                               *)
ConfirmCancel ==
  /\ ui.dialog /\ ~ui.forward
  /\ cancels' = cancels + 1
  /\ asked' = asked \cup ({runs} \ told)
  /\ cancel' = TRUE
  /\ ui' = [ui EXCEPT !.dialog = FALSE, !.cancelled = TRUE, !.forward = TRUE]
  /\ UNCHANGED <<scanning, worker, orchVars, queue, session, rows, store, runs,
                 told, failed, mixed>>

(* ... which forwards to the orchestrator's active engine.                 *)
ForwardCancel ==
  /\ ui.forward /\ lock = 0
  /\ engine' = [engine EXCEPT ![active].cancel = TRUE]
  /\ ui' = [ui EXCEPT !.forward = FALSE]
  /\ UNCHANGED <<svcVars, worker, lock, active, thread, current, queue, session,
                 rows, store, histVars>>

GoHome ==
  /\ Idle /\ ui.hud /\ ui.choice
  /\ ui' = [ui EXCEPT !.dismissed = TRUE, !.hud = FALSE]
  /\ session' = 0
  /\ UNCHANGED <<svcVars, worker, orchVars, queue, rows, store, histVars>>

(* dispatch_scan_complete(): the store, a history row with the session, of *)
(* which nothing is left for a later row, and the snapshot.                *)
Dispatch(kind, run, results) ==
  /\ rows' = rows \cup {[kind |-> kind, session |-> session, run |-> run,
                         results |-> results]}
  /\ store' = results
  /\ session' = 0

(* From the choice panel, or from the banner on the home page.             *)
OpenPartialResults ==
  /\ Idle /\ ui.partial # {}
  /\ Dispatch("partial", 0, ui.partial)
  /\ ui' = [ui EXCEPT !.hud = FALSE]
  /\ UNCHANGED <<svcVars, worker, orchVars, queue, histVars>>

(* "Open workspace", on the banner that a completed scan leaves among the  *)
(* main panels until it is pressed: what the store holds by then is        *)
(* dispatched once more, with whatever session there is.                   *)
OpenWorkspace ==
  /\ Idle /\ ui.banner /\ ~ui.hud
  /\ ui' = [ui EXCEPT !.banner = FALSE]
  /\ IF store = {}
     THEN UNCHANGED <<session, rows, store, mixed>>
     ELSE Dispatch("again", 0, store) /\ mixed' = mixed \cup Open
  /\ UNCHANGED <<svcVars, worker, orchVars, queue, runs, cancels, told, asked, failed>>

(* Coming back to the Home tab hides the HUD of a scan that seems over.    *)
ShowHome ==
  /\ Idle /\ ui.hud /\ (~scanning \/ ui.finished)
  /\ ui' = [ui EXCEPT !.hud = FALSE]
  /\ UNCHANGED <<svcVars, worker, orchVars, queue, session, rows, store, histVars>>

------------------------------------------------------------------------------
(* The UI thread: callbacks, in the order they were scheduled.             *)

Event(k) == queue # <<>> /\ ~ui.forward /\ Head(queue).kind = k /\ queue' = Tail(queue)

(* A CANCELLED progress asks the user what to do next.                     *)
UiCancelled ==
  /\ Event("cancelled")
  /\ ui' = IF ui.accept /\ ~ui.handled
           THEN [ui EXCEPT !.cancelled = TRUE, !.choice = TRUE, !.hud = TRUE]
           ELSE ui
  /\ UNCHANGED <<svcVars, worker, orchVars, session, rows, store, histVars>>

UiCompleteCancelled ==
  /\ Event("complete") /\ ui.cancelled
  /\ told' = told \cup {Head(queue).run}
  /\ ui' = [ui EXCEPT !.accept = FALSE, !.handled = TRUE, !.dismissed = FALSE,
                      !.partial = Head(queue).results,
                      !.hud = ~ui.dismissed, !.choice = ~ui.dismissed]
  /\ UNCHANGED <<svcVars, worker, orchVars, session, rows, store, runs, cancels,
                 asked, failed, mixed>>

UiComplete ==
  /\ Event("complete") /\ ~ui.cancelled
  /\ told' = told \cup {Head(queue).run}
  /\ Dispatch("scan", Head(queue).run, Head(queue).results)
  /\ ui' = [ui EXCEPT !.accept = FALSE, !.finished = TRUE, !.banner = TRUE]
  /\ UNCHANGED <<svcVars, worker, orchVars, runs, cancels, asked, failed, mixed>>

(* An error that names an unreachable network path leaves the HUD and the  *)
(* session as they are.                                                    *)
UiError ==
  /\ Event("error")
  /\ told' = told \cup {Head(queue).run}
  /\ \/ /\ session' = 0
        /\ ui' = [ui EXCEPT !.accept = FALSE, !.hud = FALSE]
     \/ /\ ui' = [ui EXCEPT !.accept = FALSE]
        /\ UNCHANGED session
  /\ UNCHANGED <<svcVars, worker, orchVars, rows, store, runs, cancels, asked,
                 failed, mixed>>

------------------------------------------------------------------------------
(* The worker of a run: BackendService.start_scan()._worker().             *)

WorkerAt(r, from, to) == worker[r].pc = from /\ worker' = [worker EXCEPT ![r].pc = to]

CheckCancel(r) ==
  /\ WorkerAt(r, "check", IF cancel \/ worker[r].mode > ModesOf[r] THEN "deliver"
                          ELSE "setMode")
  /\ UNCHANGED <<svcVars, orchVars, uiVars, histVars>>

(* set_mode() cancels a live scan and joins it with the lock held.         *)
SetMode(r) ==
  /\ lock = 0
  /\ IF CurrentAlive
     THEN /\ WorkerAt(r, "setMode", "join")
          /\ engine' = [engine EXCEPT ![active].cancel = TRUE]
          /\ lock' = r
          /\ UNCHANGED active
     ELSE /\ WorkerAt(r, "setMode", "start")
          /\ active' = worker[r].mode
          /\ UNCHANGED <<lock, engine>>
  /\ UNCHANGED <<svcVars, thread, current, uiVars, histVars>>

(* The join returns when the thread has ended or after five seconds.       *)
SetModeJoined(r) ==
  /\ WorkerAt(r, "join", "start")
  /\ active' = worker[r].mode
  /\ lock' = 0
  /\ UNCHANGED <<svcVars, thread, current, engine, uiVars, histVars>>

(* Variant: no look at the thread before. *)
StartScanUnguarded(r) ==
  /\ lock = 0
  /\ WorkerAt(r, "start", "wait")
  /\ current' = <<r, worker[r].mode>>
  /\ thread' = [thread EXCEPT ![<<r, worker[r].mode>>].pc = "spawned"]
  /\ UNCHANGED <<svcVars, lock, active, engine, uiVars, histVars>>

(* start_scan() raises if the thread of an earlier scan is alive.          *)
StartScan(r) ==
  /\ lock = 0
  /\ IF CurrentAlive
     THEN /\ WorkerAt(r, "start", "error")
          /\ UNCHANGED <<current, thread>>
     ELSE /\ WorkerAt(r, "start", "wait")
          /\ current' = <<r, worker[r].mode>>
          /\ thread' = [thread EXCEPT ![<<r, worker[r].mode>>].pc = "spawned"]
  /\ UNCHANGED <<svcVars, lock, active, engine, uiVars, histVars>>

(* Variant: start_scan() is taken to wait for the scan. *)
WaitNot(r) ==
  /\ WorkerAt(r, "wait", "collect")
  /\ UNCHANGED <<svcVars, orchVars, uiVars, histVars>>

(* wait_for_completion() joins the thread it finds.                        *)
Wait(r) ==
  /\ worker[r].pc = "wait"
  /\ IF worker[r].on = <<>>
     THEN worker' = [worker EXCEPT ![r].on = current]
     ELSE /\ ~Alive(worker[r].on)
          /\ worker' = [worker EXCEPT ![r].on = <<>>, ![r].pc = "collect"]
  /\ UNCHANGED <<svcVars, orchVars, uiVars, histVars>>

Collect(r) ==
  /\ lock = 0
  /\ worker[r].pc = "collect"
  /\ worker' = [worker EXCEPT ![r].pc = "check", ![r].mode = @ + 1,
                  ![r].got = @ \cup {[engine |-> active,
                                      run |-> engine[active].results]}]
  /\ UNCHANGED <<svcVars, orchVars, uiVars, histVars>>

Deliver(r) ==
  /\ WorkerAt(r, "deliver", "reset")
  /\ queue' = Append(queue, [kind |-> "complete", run |-> r,
                results |-> {g \in worker[r].got : g.run # 0}])
  /\ UNCHANGED <<svcVars, orchVars, ui, session, rows, store, histVars>>

Fail(r) ==
  /\ WorkerAt(r, "error", "reset")
  /\ queue' = Append(queue, [kind |-> "error", run |-> r])
  /\ UNCHANGED <<svcVars, orchVars, ui, session, rows, store, histVars>>

(* Variant: no finally clause. *)
ResetForgotten(r) ==
  /\ worker[r].pc = "reset" /\ worker' = [worker EXCEPT ![r] = NoWorker("dead")]
  /\ UNCHANGED <<svcVars, orchVars, uiVars, histVars>>

Reset(r) ==
  /\ worker[r].pc = "reset" /\ worker' = [worker EXCEPT ![r] = NoWorker("dead")]
  /\ scanning' = FALSE
  /\ UNCHANGED <<cancel, orchVars, uiVars, histVars>>

------------------------------------------------------------------------------
(* A scan thread: ScanOrchestrator._run_scan() and the active engine.      *)

ThreadStart(t) ==
  /\ thread[t].pc = "spawned"
  /\ thread' = [thread EXCEPT ![t].pc = "running", ![t].engine = active]
  /\ engine' = [engine EXCEPT ![active] = [cancel |-> FALSE, results |-> 0]]
  /\ UNCHANGED <<svcVars, worker, lock, active, current, uiVars, histVars>>

ThreadEnd(t) ==
  /\ thread[t].pc = "running"
  /\ LET e == thread[t].engine
     IN \E o \in Outcomes :
          /\ o \in {IF engine[e].cancel THEN "cancelled" ELSE "completed", "error"}
          /\ thread' = [thread EXCEPT ![t].pc = "emit", ![t].outcome = o]
          /\ engine' = IF o = "completed"
                       THEN [engine EXCEPT ![e].results = t[1]] ELSE engine
          /\ failed' = IF o = "error" THEN failed \cup {t[1]} ELSE failed
  /\ UNCHANGED <<svcVars, worker, lock, active, current, uiVars, runs, cancels,
                 told, asked, mixed>>

(* _handle_progress(): the callback is scheduled, then _scanning cleared.  *)
ThreadEmit(t) ==
  /\ thread[t].pc = "emit"
  /\ queue' = IF thread[t].outcome = "cancelled"
              THEN Append(queue, [kind |-> "cancelled"]) ELSE queue
  /\ thread' = [thread EXCEPT ![t].pc = "unscan"]
  /\ UNCHANGED <<svcVars, worker, lock, active, current, engine, ui, session, rows,
                 store, histVars>>

ThreadUnscan(t) ==
  /\ thread[t].pc = "unscan"
  /\ scanning' = FALSE
  /\ thread' = [thread EXCEPT ![t].pc = "exit"]
  /\ UNCHANGED <<cancel, worker, lock, active, current, engine, uiVars, histVars>>

ThreadExit(t) ==
  /\ thread[t].pc = "exit"
  /\ thread' = [thread EXCEPT ![t] = NoThread("dead")]
  /\ UNCHANGED <<svcVars, worker, lock, active, current, engine, uiVars, histVars>>

------------------------------------------------------------------------------
User ==
  \/ BeginScan \/ StopScan \/ KeepScanning \/ ConfirmCancel
  \/ GoHome \/ OpenPartialResults \/ OpenWorkspace \/ ShowHome

UiThread ==
  ForwardCancel \/ UiCancelled \/ UiCompleteCancelled \/ UiComplete \/ UiError

Worker(r) ==
  \/ CheckCancel(r) \/ SetMode(r) \/ SetModeJoined(r) \/ StartScan(r)
  \/ Wait(r) \/ Collect(r) \/ Deliver(r) \/ Fail(r) \/ Reset(r)

ScanThread(t) ==
  \/ ThreadStart(t) \/ ThreadEnd(t) \/ ThreadEmit(t) \/ ThreadUnscan(t)
  \/ ThreadExit(t)

Next ==
  \/ User \/ UiThread
  \/ \E r \in Runs : Worker(r)
  \/ \E t \in Threads : ScanThread(t)

Spec == Init /\ [][Next]_vars

(* Threads run, and the UI loop serves its callbacks; nobody need press    *)
(* anything.  The lock is held for at most five seconds at a time, by a    *)
(* worker whose own steps are fair.                                        *)
Fairness ==
  /\ WF_vars(UiThread)
  /\ \A r \in Runs : WF_vars(Worker(r))
  /\ \A t \in Threads : WF_vars(ScanThread(t))

FairSpec == Spec /\ Fairness

------------------------------------------------------------------------------
Token == [engine : Engines, run : 0..MaxRuns]

(* Every variable keeps its type. *)
TypeOK ==
  /\ scanning \in BOOLEAN /\ cancel \in BOOLEAN
  /\ worker \in [Runs -> [pc : WorkerPoints, mode : 1..(Modes + 1),
                          on : Threads \cup {<<>>}, got : SUBSET Token]]
  /\ lock \in 0..MaxRuns /\ active \in Engines
  /\ thread \in [Threads -> [pc : ThreadPoints, engine : Engines, outcome : Outcomes]]
  /\ current \in Threads \cup {<<>>}
  /\ engine \in [Engines -> [cancel : BOOLEAN, results : 0..MaxRuns]]
  /\ session \in 0..MaxRuns
  /\ runs \in 0..MaxRuns /\ cancels \in 0..MaxCancels
  /\ told \subseteq Runs /\ asked \subseteq Runs /\ failed \subseteq Runs
  /\ mixed \subseteq Runs

(* However many workers there are, one scan thread is alive at a time: two *)
(* engines, or one engine twice, never write the caches and the checkpoint *)
(* side by side.                                                           *)
OneScanThread == \A s, t \in Threads : Alive(s) /\ Alive(t) => s = t

(* A run that met no other is recorded under its own session, and with all *)
(* of its results: every mode that did not fail, and nothing of another    *)
(* run.  It was not cancelled by the user.                                 *)
RowOfRun(row) ==
  /\ row.session = row.run
  /\ row.run \notin asked
  /\ \A g \in row.results : g.run = row.run
  /\ row.run \notin failed => {g.engine : g \in row.results} = 1..ModesOf[row.run]

(* The history: runs that met no other have such rows, and what the        *)
(* workspace records again is what another row already holds.  That row    *)
(* has no session of its own, or one that no other row has: a session is   *)
(* never counted twice.                                                    *)
OwnRow ==
  /\ \A row \in rows : row.kind = "scan" /\ row.run \notin mixed => RowOfRun(row)
  /\ \A row \in rows : row.kind = "again" =>
       \E first \in rows : first.kind # "again" /\ first.results = row.results
  /\ \A row, other \in rows :
       row.session = other.session /\ row.session # 0 => row = other

(* Once the user has stopped pressing Start, the end of every accepted run *)
(* has reached the window, as a completion or as an error, and the flag    *)
(* that makes start_scan() refuse is clear, for good.                      *)
RunsEnd ==
  <>[](~scanning /\ \A r \in Runs : worker[r].pc # "none" => r \in told)
==============================================================================
