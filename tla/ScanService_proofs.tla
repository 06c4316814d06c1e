-------------------------- MODULE ScanService_proofs --------------------------
(***************************************************************************)
(* Proofs about the scan as the window sees it, for any number of presses  *)
(* of Start, modes and cancels.                                            *)
(***************************************************************************)
EXTENDS ScanService, SequenceTheorems, TLAPS

------------------------------------------------------------------------------
(* The types of what TypeOK leaves out: the flags of the window and the     *)
(* callbacks.                                                               *)
UiFlags ==
  [hud : BOOLEAN, cancelled : BOOLEAN, choice : BOOLEAN, handled : BOOLEAN, dismissed : BOOLEAN,
   accept : BOOLEAN, finished : BOOLEAN, dialog : BOOLEAN, forward : BOOLEAN, banner : BOOLEAN,
   partial : SUBSET Token]

Asks      == [kind : {"cancelled"}]
Completes == [kind : {"complete"}, run : Runs, results : SUBSET Token]
Errors    == [kind : {"error"}, run : Runs]
Callbacks == Asks \cup Completes \cup Errors

WorkerRecord == [pc : WorkerPoints, mode : 1..(Modes + 1), on : Threads \cup {<<>>}, got : SUBSET Token]
ThreadRecord == [pc : ThreadPoints, engine : Engines, outcome : Outcomes]
EngineRecord == [cancel : BOOLEAN, results : 0..MaxRuns]

WorkerTypes == worker \in [Runs -> WorkerRecord]
OrchTypes   == /\ lock \in 0..MaxRuns /\ active \in Engines /\ current \in Threads \cup {<<>>}
               /\ thread \in [Threads -> ThreadRecord] /\ engine \in [Engines -> EngineRecord]
UiTypes     == /\ ui \in UiFlags /\ queue \in Seq(Callbacks) /\ session \in 0..MaxRuns
HistTypes   == /\ runs \in 0..MaxRuns /\ cancels \in 0..MaxCancels
               /\ told \subseteq Runs /\ asked \subseteq Runs /\ failed \subseteq Runs
               /\ mixed \subseteq Runs
ServiceTypes ==
  scanning \in BOOLEAN /\ cancel \in BOOLEAN /\ WorkerTypes /\ OrchTypes /\ UiTypes /\ HistTypes

\* The callback at place i tells the window of the end of a run.
Tells(i) == queue[i].kind \in {"complete", "error"}

(* Who runs: only the worker of an accepted run does, a mode it is at is    *)
(* one of the run's, and of scan threads the current one alone is alive,    *)
(* with its worker waiting for it.                                          *)
WorkersInv ==
  /\ \A r \in Runs :
       /\ r > runs => worker[r].pc = "none"
       /\ worker[r].pc \in {"setMode", "join", "start", "wait", "collect"} => worker[r].mode <= ModesOf[r]
       /\ worker[r].on # <<>> => worker[r].pc = "wait"
  /\ \A t \in Threads : Alive(t) =>
       /\ t = current
       /\ worker[t[1]].pc = "wait" /\ worker[t[1]].mode = t[2] /\ worker[t[1]].on \in {<<>>, t}

(* Who has been told: each accepted run is told once, when its worker has   *)
(* nothing left but to reset the flag.                                      *)
ToldInv ==
  /\ \A r \in told : r <= runs /\ worker[r].pc \in {"none", "reset", "dead"}
  /\ \A i \in 1..Len(queue) : Tells(i) =>
       queue[i].run \notin told /\ worker[queue[i].run].pc \in {"reset", "dead"}
  /\ \A i, j \in 1..Len(queue) : Tells(i) /\ Tells(j) /\ i # j => queue[i].run # queue[j].run

(* A run that met no other is over before the next begins.                  *)
MixedInv ==
  /\ \A r \in 1..runs : r \notin mixed /\ r # runs => r \in told
  /\ runs \notin mixed => \A r \in 1..runs : r # runs => r \in told

(* The window: what follows from a cancel, and what a run begins with; the  *)
(* question whether to cancel is asked while one more may be.               *)
WindowInv ==
  /\ ui.choice \/ ui.partial # {} \/ ui.forward => ui.cancelled
  /\ ui.hud \/ ui.accept \/ ui.dialog \/ queue # <<>> => runs # 0
  /\ ui.dialog => cancels < MaxCancels
  /\ \A r \in asked : r <= runs
  /\ runs \in asked => ui.cancelled

\* The run that is on, if it met no other.
Alone(r) == r = runs /\ r # 0 /\ r \notin mixed /\ r \notin told

\* What a run collected, without the scans that delivered nothing.
Scanned(got) == {g.engine : g \in {h \in got : h.run # 0}}

(* A lone run is in the window's session; every scan that it started is its *)
(* own; and each is complete if none of them raised and the user did not    *)
(* cancel.                                                                  *)
LoneSession(r) == ~ui.cancelled => session = r /\ ~cancel

LoneScans(r) ==
  LET w == worker[r]
      t == <<r, w.mode>>
  IN  /\ w.pc \notin {"join", "error"}
      /\ \A g \in w.got : g.run \in {0, r}
      /\ w.pc \in {"start", "wait", "collect"} => active = w.mode
      /\ w.pc = "wait" => current = t /\ thread[t].pc # "none"
      /\ w.pc = "wait" /\ thread[t].pc = "running" => thread[t].engine = w.mode
      /\ w.pc = "wait" /\ thread[t].pc # "spawned" => engine[w.mode].results \in {0, r}
      /\ w.pc = "collect" => engine[w.mode].results \in {0, r}

LoneWhole(r) ==
  LET w == worker[r]
      t == <<r, w.mode>>
  IN  ~ui.cancelled /\ r \notin failed =>
        /\ w.pc \in {"check", "setMode", "start", "wait", "collect"} =>
             Scanned(w.got) = 1..(w.mode - 1)
        /\ w.pc = "check" => w.mode <= ModesOf[r] + 1
        /\ w.pc = "deliver" => Scanned(w.got) = 1..ModesOf[r]
        /\ w.pc = "wait" /\ thread[t].pc = "running" => ~engine[w.mode].cancel
        /\ w.pc = "wait" /\ thread[t].pc \in {"emit", "unscan", "exit", "dead"} =>
             engine[w.mode].results = r
        /\ w.pc = "collect" => engine[w.mode].results = r

LoneRun(r) == LoneSession(r) /\ LoneScans(r) /\ LoneWhole(r)

(* A completion of a lone run in the queue.                                 *)
LoneResult(i) ==
  queue[i].kind = "complete" /\ Alone(queue[i].run) =>
    /\ \A g \in queue[i].results : g.run = queue[i].run
    /\ ~ui.cancelled /\ queue[i].run \notin failed =>
         {g.engine : g \in queue[i].results} = 1..ModesOf[queue[i].run]

LoneInv ==
  /\ \A r \in Runs : Alone(r) => LoneRun(r)
  /\ \A i \in 1..Len(queue) : LoneResult(i)

\* A worker that has not begun holds nothing.
FreshInv == \A r \in Runs : worker[r].pc = "none" => worker[r] = NoWorker("none")

(* A row of a completed scan is that of a run that was told.                *)
RowsInv ==
  \A row \in rows : row.kind = "scan" =>
    row.run \in told /\ (row.run \notin mixed => RowOfRun(row))

(* Sessions grow with the runs and the window's is in no row yet; what the  *)
(* store holds, and what was recorded from it again, is in a first row.     *)
Recorded(results) == \E first \in rows : first.kind # "again" /\ first.results = results

SessionsInv ==
  /\ session \in 0..runs
  /\ \A row \in rows : row.session \in 0..runs /\ (row.session = session => session = 0)
  /\ \A row, other \in rows :
       row.session = other.session /\ row.session # 0 => row = other
  /\ store # {} => Recorded(store)
  /\ \A row \in rows : row.kind = "again" => Recorded(row.results)

------------------------------------------------------------------------------
LEMMA Numbers ==
  /\ Modes \in Nat /\ MaxRuns \in Nat /\ MaxCancels \in Nat /\ 1 \in Runs /\ 1 \in Engines
  /\ \A r \in Runs : r \in Nat /\ r # 0 /\ ModesOf[r] \in Engines
  /\ \A m \in Engines : m \in Nat
BY ModesAssumption, BoundsAssumption, ModesOfAssumption DEF Runs, Engines

LEMMA ThreadPairs ==
  /\ \A t \in Threads : t[1] \in Runs /\ t[2] \in Engines /\ t = <<t[1], t[2]>> /\ t # <<>>
  /\ \A r \in Runs, m \in Engines : <<r, m>> \in Threads /\ <<r, m>> # <<>>
                                    /\ <<r, m>>[1] = r /\ <<r, m>>[2] = m
BY DEF Threads

(* The queue: what is taken from it and what is put at its end.             *)
LEMMA Taken ==
  ASSUME queue \in Seq(Callbacks), queue # <<>>
  PROVE  /\ Len(queue) \in Nat /\ 1 \in 1..Len(queue) /\ Head(queue) = queue[1]
         /\ Head(queue) \in Callbacks /\ Tail(queue) \in Seq(Callbacks)
         /\ Len(Tail(queue)) = Len(queue) - 1
         /\ \A i \in 1..Len(Tail(queue)) : i + 1 \in 1..Len(queue) /\ Tail(queue)[i] = queue[i + 1]
<1>1. Len(queue) \in Nat /\ Len(queue) # 0
  BY EmptySeq, LenProperties
<1>2. /\ Head(queue) \in Callbacks /\ Tail(queue) \in Seq(Callbacks)
      /\ Len(Tail(queue)) = Len(queue) - 1
      /\ \A i \in 1..Len(Tail(queue)) : Tail(queue)[i] = queue[i + 1]
  BY HeadTailProperties
<1>3. Head(queue) = queue[1]
  OBVIOUS
<1> QED
  BY <1>1, <1>2, <1>3

LEMMA PutLast ==
  ASSUME queue \in Seq(Callbacks), NEW item \in Callbacks
  PROVE  /\ Len(queue) \in Nat /\ Append(queue, item) \in Seq(Callbacks)
         /\ Len(Append(queue, item)) = Len(queue) + 1
         /\ \A i \in 1..Len(queue) : Append(queue, item)[i] = queue[i]
         /\ Append(queue, item)[Len(queue) + 1] = item
         /\ Append(queue, item) # <<>>
<1>1. Len(queue) \in Nat
  BY LenProperties
<1>2. /\ Append(queue, item) \in Seq(Callbacks) /\ Len(Append(queue, item)) = Len(queue) + 1
      /\ \A i \in 1..Len(queue) : Append(queue, item)[i] = queue[i]
      /\ Append(queue, item)[Len(queue) + 1] = item
  BY AppendProperties
<1>3. Append(queue, item) # <<>>
  BY <1>1, <1>2, EmptySeq
<1> QED
  BY <1>1, <1>2, <1>3

LEMMA CallbackKinds ==
  \A c \in Callbacks :
    /\ c.kind \in {"cancelled", "complete", "error"}
    /\ c.kind = "complete" => c.run \in Runs /\ c.results \in SUBSET Token
    /\ c.kind = "error" => c.run \in Runs
BY DEF Callbacks, Asks, Completes, Errors

------------------------------------------------------------------------------
(* Types.                                                                   *)
LEMMA TypesAtStart == Init => ServiceTypes
<1> SUFFICES ASSUME Init PROVE ServiceTypes
  OBVIOUS
<1>1. UiTypes
  BY EmptySeq, Numbers DEF Init, UiTypes, UiFlags
<1>2. WorkerTypes
  <2>1. NoWorker("none") \in WorkerRecord
    BY Numbers DEF NoWorker, WorkerRecord, WorkerPoints
  <2> QED
    BY <2>1 DEF Init, WorkerTypes
<1>3. OrchTypes
  <2>1. NoThread("none") \in ThreadRecord
    BY Numbers DEF NoThread, ThreadRecord, ThreadPoints, Outcomes
  <2>2. [cancel |-> FALSE, results |-> 0] \in EngineRecord
    BY Numbers DEF EngineRecord
  <2> QED
    BY <2>1, <2>2, Numbers DEF Init, OrchTypes
<1>4. HistTypes
  BY Numbers DEF Init, HistTypes
<1> QED
  BY <1>1, <1>2, <1>3, <1>4 DEF Init, ServiceTypes

LEMMA TypesImply == ServiceTypes => TypeOK
BY DEF ServiceTypes, WorkerTypes, OrchTypes, UiTypes, HistTypes, TypeOK, WorkerRecord, ThreadRecord,
   EngineRecord

(* Records with a field of another value of its type.                       *)
LEMMA WorkerMoves ==
  ASSUME WorkerTypes, NEW r \in Runs
  PROVE  /\ worker[r].pc \in WorkerPoints /\ worker[r].mode \in 1..(Modes + 1)
         /\ worker[r].on \in Threads \cup {<<>>} /\ worker[r].got \in SUBSET Token
         /\ \A p \in WorkerPoints : [worker EXCEPT ![r].pc = p] \in [Runs -> WorkerRecord]
BY DEF WorkerTypes, WorkerRecord

LEMMA ThreadMoves ==
  ASSUME OrchTypes, NEW t \in Threads
  PROVE  /\ thread[t].pc \in ThreadPoints /\ thread[t].engine \in Engines
         /\ thread[t].outcome \in Outcomes
         /\ \A p \in ThreadPoints : [thread EXCEPT ![t].pc = p] \in [Threads -> ThreadRecord]
BY DEF OrchTypes, ThreadRecord

LEMMA UserTypes ==
  ASSUME ServiceTypes, User, WindowInv
  PROVE  ServiceTypes'
<1> USE DEF ServiceTypes
<1>1. CASE BeginScan
  <2>1. runs \in Nat /\ runs + 1 \in 1..MaxRuns /\ runs + 1 \in Runs
    BY <1>1, Numbers DEF BeginScan, Runs, HistTypes
  <2>2. UiTypes'
    <3>1. ui' \in UiFlags
      BY <1>1 DEF BeginScan, UiFlags, UiTypes
    <3> QED
      BY <1>1, <2>1, <3>1 DEF BeginScan, UiTypes
  <2>3. WorkerTypes'
    <3>1. [worker EXCEPT ![runs + 1].pc = "check"] \in [Runs -> WorkerRecord]
      BY <2>1, WorkerMoves DEF WorkerPoints
    <3> QED
      BY <1>1, <3>1 DEF BeginScan, WorkerTypes
  <2>4. HistTypes'
    <3>1. Open \subseteq Runs
      BY <2>1, Numbers DEF Runs, Open
    <3> QED
      BY <1>1, <2>1, <3>1, Numbers DEF BeginScan, HistTypes
  <2>5. OrchTypes' /\ scanning' \in BOOLEAN /\ cancel' \in BOOLEAN
    BY <1>1 DEF BeginScan, OrchTypes, orchVars, svcVars
  <2> QED
    BY <2>2, <2>3, <2>4, <2>5
<1>2. CASE ConfirmCancel
  <2>1. UiTypes'
    BY <1>2 DEF ConfirmCancel, UiFlags, UiTypes
  <2>2. HistTypes'
    <3>1. runs \in Runs
      BY <1>2, Numbers DEF ConfirmCancel, WindowInv, HistTypes, Runs
    <3>2. cancels + 1 \in 0..MaxCancels
      BY <1>2, Numbers DEF ConfirmCancel, WindowInv, HistTypes
    <3> QED
      BY <1>2, <3>1, <3>2 DEF ConfirmCancel, HistTypes
  <2> QED
    BY <1>2, <2>1, <2>2 DEF ConfirmCancel, orchVars, OrchTypes, WorkerTypes
<1>3. CASE StopScan \/ KeepScanning \/ GoHome \/ OpenPartialResults \/ ShowHome
  <2>1. ui' \in UiFlags /\ session' \in {session, 0} /\ queue' = queue
    BY <1>3 DEF StopScan, KeepScanning, GoHome, OpenPartialResults, ShowHome, Dispatch, UiFlags, UiTypes
  <2>2. UNCHANGED <<svcVars, worker, orchVars, histVars>>
    BY <1>3 DEF StopScan, KeepScanning, GoHome, OpenPartialResults, ShowHome
  <2> QED
    BY <2>1, <2>2, Numbers DEF svcVars, orchVars, histVars, OrchTypes, WorkerTypes, HistTypes, UiTypes
<1>4. CASE OpenWorkspace
  <2>1. ui' \in UiFlags /\ session' \in {session, 0} /\ queue' = queue
    BY <1>4 DEF OpenWorkspace, Dispatch, UiFlags, UiTypes
  <2>2. mixed' \subseteq Runs
    <3>1. Open \subseteq Runs
      BY Numbers DEF Runs, Open, HistTypes
    <3> QED
      BY <1>4, <3>1 DEF OpenWorkspace, HistTypes
  <2> QED
    BY <1>4, <2>1, <2>2, Numbers DEF OpenWorkspace, svcVars, orchVars, OrchTypes, WorkerTypes, HistTypes,
       UiTypes
<1> QED
  BY <1>1, <1>2, <1>3, <1>4 DEF User

LEMMA UiThreadTypes ==
  ASSUME ServiceTypes, UiThread
  PROVE  ServiceTypes'
<1> USE DEF ServiceTypes
<1>1. CASE ForwardCancel
  <2>1. UiTypes'
    BY <1>1 DEF ForwardCancel, UiFlags, UiTypes
  <2>2. OrchTypes'
    BY <1>1 DEF ForwardCancel, OrchTypes, EngineRecord
  <2> QED
    BY <1>1, <2>1, <2>2 DEF ForwardCancel, svcVars, histVars, WorkerTypes, HistTypes
<1>2. ASSUME NEW k \in {"cancelled", "complete", "error"}, Event(k)
      PROVE  /\ queue' \in Seq(Callbacks)
             /\ k = "complete" => Head(queue).run \in Runs /\ Head(queue).results \in SUBSET Token
             /\ k = "error" => Head(queue).run \in Runs
  BY <1>2, Taken, CallbackKinds DEF Event, UiTypes
<1>3. CASE UiCancelled
  <2>1. UiTypes'
    BY <1>2, <1>3 DEF UiCancelled, UiFlags, UiTypes
  <2> QED
    BY <1>3, <2>1 DEF UiCancelled, svcVars, orchVars, histVars, OrchTypes, WorkerTypes, HistTypes
<1>4. CASE UiCompleteCancelled
  <2>1. queue' \in Seq(Callbacks) /\ Head(queue).run \in Runs /\ Head(queue).results \in SUBSET Token
    BY <1>2, <1>4 DEF UiCompleteCancelled
  <2>2. UiTypes' /\ HistTypes'
    BY <1>4, <2>1 DEF UiCompleteCancelled, UiFlags, UiTypes, HistTypes
  <2> QED
    BY <1>4, <2>2 DEF UiCompleteCancelled, svcVars, orchVars, OrchTypes, WorkerTypes
<1>5. CASE UiComplete
  <2>1. queue' \in Seq(Callbacks) /\ Head(queue).run \in Runs
    BY <1>2, <1>5 DEF UiComplete
  <2>2. UiTypes' /\ HistTypes'
    <3>1. ui' \in UiFlags /\ session' = 0
      BY <1>5 DEF UiComplete, Dispatch, UiFlags, UiTypes
    <3> QED
      BY <1>5, <2>1, <3>1, Numbers DEF UiComplete, UiTypes, HistTypes
  <2> QED
    BY <1>5, <2>2 DEF UiComplete, svcVars, orchVars, OrchTypes, WorkerTypes
<1>6. CASE UiError
  <2>1. queue' \in Seq(Callbacks) /\ Head(queue).run \in Runs
    BY <1>2, <1>6 DEF UiError
  <2>2. UiTypes' /\ HistTypes'
    <3>1. ui' \in UiFlags /\ session' \in {session, 0}
      BY <1>6 DEF UiError, UiFlags, UiTypes
    <3> QED
      BY <1>6, <2>1, <3>1, Numbers DEF UiError, UiTypes, HistTypes
  <2> QED
    BY <1>6, <2>2 DEF UiError, svcVars, orchVars, OrchTypes, WorkerTypes
<1> QED
  BY <1>1, <1>3, <1>4, <1>5, <1>6 DEF UiThread

LEMMA WorkerStepTypes ==
  ASSUME ServiceTypes, WorkersInv, NEW r \in Runs, Worker(r)
  PROVE  ServiceTypes'
<1> USE DEF ServiceTypes
<1>1. /\ worker[r].pc \in WorkerPoints /\ worker[r].mode \in 1..(Modes + 1)
      /\ worker[r].on \in Threads \cup {<<>>} /\ worker[r].got \in SUBSET Token
      /\ \A p \in WorkerPoints : [worker EXCEPT ![r].pc = p] \in [Runs -> WorkerRecord]
  BY WorkerMoves
<1>2. worker[r].pc \in {"setMode", "join", "start", "wait", "collect"} => worker[r].mode \in Engines
  <2>1. ModesOf[r] \in 1..Modes /\ Modes \in Nat
    BY Numbers DEF Engines
  <2> QED
    BY <1>1, <2>1 DEF WorkersInv, Engines
<1>3. ASSUME NEW from, NEW to \in WorkerPoints, WorkerAt(r, from, to)
      PROVE  WorkerTypes'
  BY <1>1, <1>3 DEF WorkerAt, WorkerTypes
<1>4. CASE CheckCancel(r)
  BY <1>3, <1>4 DEF CheckCancel, WorkerPoints, svcVars, orchVars, uiVars, histVars, OrchTypes, UiTypes,
     HistTypes
<1>5. CASE SetMode(r)
  <2>1. WorkerTypes'
    BY <1>3, <1>5 DEF SetMode, WorkerPoints
  <2>2. worker[r].mode \in Engines /\ r \in 0..MaxRuns
    BY <1>2, <1>5, Numbers DEF SetMode, WorkerAt, Runs
  <2>3. OrchTypes'
    BY <1>5, <2>2 DEF SetMode, OrchTypes, EngineRecord
  <2> QED
    BY <1>5, <2>1, <2>3 DEF SetMode, svcVars, uiVars, histVars, UiTypes, HistTypes
<1>6. CASE SetModeJoined(r)
  <2>1. WorkerTypes'
    BY <1>3, <1>6 DEF SetModeJoined, WorkerPoints
  <2>2. OrchTypes'
    BY <1>2, <1>6, Numbers DEF SetModeJoined, OrchTypes, WorkerAt
  <2> QED
    BY <1>6, <2>1, <2>2 DEF SetModeJoined, svcVars, uiVars, histVars, UiTypes, HistTypes
<1>7. CASE StartScan(r)
  <2>1. WorkerTypes'
    BY <1>3, <1>7 DEF StartScan, WorkerPoints
  <2>2. <<r, worker[r].mode>> \in Threads
    BY <1>2, <1>7, ThreadPairs DEF StartScan, WorkerAt
  <2>3. [thread EXCEPT ![<<r, worker[r].mode>>].pc = "spawned"] \in [Threads -> ThreadRecord]
    BY <2>2, ThreadMoves DEF ThreadPoints
  <2>4. OrchTypes'
    BY <1>7, <2>2, <2>3 DEF StartScan, OrchTypes
  <2> QED
    BY <1>7, <2>1, <2>4 DEF StartScan, svcVars, uiVars, histVars, UiTypes, HistTypes
<1>8. CASE Wait(r)
  <2>1. WorkerTypes'
    <3>1. CASE worker[r].on = <<>>
      BY <1>8, <3>1 DEF Wait, WorkerTypes, WorkerRecord, OrchTypes
    <3>2. CASE worker[r].on # <<>>
      BY <1>8, <3>2 DEF Wait, WorkerPoints, WorkerTypes, WorkerRecord
    <3> QED
      BY <3>1, <3>2
  <2> QED
    BY <1>8, <2>1 DEF Wait, svcVars, orchVars, uiVars, histVars, OrchTypes, UiTypes, HistTypes
<1>9. CASE Collect(r)
  <2>1. [engine |-> active, run |-> engine[active].results] \in Token
    BY DEF Token, OrchTypes, EngineRecord
  <2>2. worker[r].mode + 1 \in 1..(Modes + 1)
    BY <1>2, <1>9, Numbers DEF Collect, Engines
  <2>3. WorkerTypes'
    BY <1>1, <1>9, <2>1, <2>2 DEF Collect, WorkerPoints, WorkerTypes, WorkerRecord
  <2> QED
    BY <1>9, <2>3 DEF Collect, svcVars, orchVars, uiVars, histVars, OrchTypes, UiTypes, HistTypes
<1>10. CASE Deliver(r)
  <2> DEFINE c == [kind |-> "complete", run |-> r, results |-> {g \in worker[r].got : g.run # 0}]
  <2>1. c \in Callbacks
    BY <1>1 DEF Callbacks, Completes
  <2>2. UiTypes'
    BY <1>10, <2>1, PutLast DEF Deliver, UiTypes
  <2>3. WorkerTypes'
    BY <1>3, <1>10 DEF Deliver, WorkerPoints
  <2> QED
    BY <1>10, <2>2, <2>3 DEF Deliver, svcVars, orchVars, histVars, OrchTypes, HistTypes
<1>11. CASE Fail(r)
  <2> DEFINE c == [kind |-> "error", run |-> r]
  <2>1. c \in Callbacks
    BY DEF Callbacks, Errors
  <2>2. UiTypes'
    BY <1>11, <2>1, PutLast DEF Fail, UiTypes
  <2>3. WorkerTypes'
    BY <1>3, <1>11 DEF Fail, WorkerPoints
  <2> QED
    BY <1>11, <2>2, <2>3 DEF Fail, svcVars, orchVars, histVars, OrchTypes, HistTypes
<1>12. CASE Reset(r)
  <2>1. NoWorker("dead") \in WorkerRecord
    BY Numbers DEF NoWorker, WorkerRecord, WorkerPoints
  <2>2. WorkerTypes'
    BY <1>12, <2>1 DEF Reset, WorkerTypes
  <2> QED
    BY <1>12, <2>2 DEF Reset, orchVars, uiVars, histVars, OrchTypes, UiTypes, HistTypes
<1> QED
  BY <1>4, <1>5, <1>6, <1>7, <1>8, <1>9, <1>10, <1>11, <1>12 DEF Worker

LEMMA ThreadStepTypes ==
  ASSUME ServiceTypes, NEW t \in Threads, ScanThread(t)
  PROVE  ServiceTypes'
<1> USE DEF ServiceTypes
<1>1. /\ thread[t].pc \in ThreadPoints /\ thread[t].engine \in Engines /\ t[1] \in Runs
      /\ \A p \in ThreadPoints : [thread EXCEPT ![t].pc = p] \in [Threads -> ThreadRecord]
  BY ThreadMoves, ThreadPairs
<1>2. CASE ThreadStart(t)
  <2>1. OrchTypes'
    <3>1. thread' \in [Threads -> ThreadRecord]
      BY <1>2 DEF ThreadStart, ThreadPoints, ThreadRecord, OrchTypes
    <3>2. engine' \in [Engines -> EngineRecord]
      BY <1>2, Numbers DEF ThreadStart, EngineRecord, OrchTypes
    <3> QED
      BY <1>2, <3>1, <3>2 DEF ThreadStart, OrchTypes
  <2> QED
    BY <1>2, <2>1 DEF ThreadStart, svcVars, uiVars, histVars, WorkerTypes, UiTypes, HistTypes
<1>3. CASE ThreadEnd(t)
  <2>1. PICK o \in Outcomes :
          /\ thread' = [thread EXCEPT ![t].pc = "emit", ![t].outcome = o]
          /\ engine' = IF o = "completed" THEN [engine EXCEPT ![thread[t].engine].results = t[1]]
                       ELSE engine
          /\ failed' = IF o = "error" THEN failed \cup {t[1]} ELSE failed
    BY <1>3 DEF ThreadEnd
  <2>2. thread' \in [Threads -> ThreadRecord]
    BY <2>1 DEF ThreadPoints, ThreadRecord, OrchTypes
  <2>3. engine' \in [Engines -> EngineRecord]
    <3>1. t[1] \in 0..MaxRuns
      BY <1>1, Numbers DEF Runs
    <3> QED
      BY <1>1, <2>1, <3>1 DEF EngineRecord, OrchTypes
  <2>4. OrchTypes' /\ HistTypes'
    BY <1>1, <1>3, <2>1, <2>2, <2>3 DEF ThreadEnd, OrchTypes, HistTypes
  <2> QED
    BY <1>3, <2>4 DEF ThreadEnd, svcVars, uiVars, WorkerTypes, UiTypes
<1>4. CASE ThreadEmit(t)
  <2> DEFINE c == [kind |-> "cancelled"]
  <2>1. c \in Callbacks
    BY DEF Callbacks, Asks
  <2>2. UiTypes'
    BY <1>4, <2>1, PutLast DEF ThreadEmit, UiTypes
  <2>3. OrchTypes'
    BY <1>1, <1>4 DEF ThreadEmit, ThreadPoints, OrchTypes
  <2> QED
    BY <1>4, <2>2, <2>3 DEF ThreadEmit, svcVars, histVars, WorkerTypes, HistTypes
<1>5. CASE ThreadUnscan(t)
  <2>1. OrchTypes'
    BY <1>1, <1>5 DEF ThreadUnscan, ThreadPoints, OrchTypes
  <2> QED
    BY <1>5, <2>1 DEF ThreadUnscan, uiVars, histVars, WorkerTypes, UiTypes, HistTypes
<1>6. CASE ThreadExit(t)
  <2>1. NoThread("dead") \in ThreadRecord
    BY Numbers DEF NoThread, ThreadPoints, Outcomes, ThreadRecord
  <2>2. OrchTypes'
    BY <1>6, <2>1 DEF ThreadExit, OrchTypes
  <2> QED
    BY <1>6, <2>2 DEF ThreadExit, svcVars, uiVars, histVars, WorkerTypes, UiTypes, HistTypes
<1> QED
  BY <1>2, <1>3, <1>4, <1>5, <1>6 DEF ScanThread

------------------------------------------------------------------------------
(* Who runs.                                                                *)
LEMMA WorkersAtStart == Init => WorkersInv
BY ThreadPairs DEF Init, WorkersInv, NoWorker, NoThread, Alive

(* Steps that leave the workers alone and revive no thread ...              *)
LEMMA WorkersStay ==
  ASSUME WorkersInv, UNCHANGED <<worker, current, runs>>,
         \A t \in Threads : Alive(t)' => Alive(t)
  PROVE  WorkersInv'
BY DEF WorkersInv

(* ... and steps of a worker that no thread runs for.                       *)
LEMMA WorkerSteps ==
  ASSUME ServiceTypes, WorkersInv, NEW r \in Runs, NEW p \in WorkerPoints, p # "wait",
         worker[r].pc \notin {"none", "wait"}, worker' = [worker EXCEPT ![r].pc = p],
         p \in {"setMode", "join", "start", "collect"} => worker[r].mode <= ModesOf[r],
         UNCHANGED <<thread, current, runs>>
  PROVE  WorkersInv'
<1>1. ASSUME NEW q \in Runs
      PROVE  IF q = r THEN worker'[q] = [worker[q] EXCEPT !.pc = p] ELSE worker'[q] = worker[q]
  BY DEF ServiceTypes, WorkerTypes
<1>2. worker[r].on = <<>> /\ r <= runs
  BY Numbers DEF WorkersInv, ServiceTypes, HistTypes, Runs
<1>3. worker'[r].pc = p /\ worker'[r].on = <<>> /\ worker'[r].mode = worker[r].mode
  BY <1>1, <1>2 DEF ServiceTypes, WorkerTypes, WorkerRecord
<1>4. ASSUME NEW q \in Runs
      PROVE  /\ q > runs' => worker'[q].pc = "none"
             /\ worker'[q].pc \in {"setMode", "join", "start", "wait", "collect"}
                  => worker'[q].mode <= ModesOf[q]
             /\ worker'[q].on # <<>> => worker'[q].pc = "wait"
  <2>1. CASE q = r
    <3>1. ~(r > runs)
      BY <1>2, Numbers DEF ServiceTypes, HistTypes, Runs
    <3> QED
      BY <1>3, <2>1, <3>1
  <2>2. CASE q # r
    BY <1>1, <2>2 DEF WorkersInv
  <2> QED
    BY <2>1, <2>2
<1>5. ASSUME NEW t \in Threads, Alive(t)'
      PROVE  /\ t = current'
             /\ worker'[t[1]].pc = "wait" /\ worker'[t[1]].mode = t[2] /\ worker'[t[1]].on \in {<<>>, t}
  <2>1. Alive(t) /\ t[1] \in Runs
    BY <1>5, ThreadPairs DEF Alive
  <2>2. worker[t[1]].pc = "wait" /\ t = current /\ worker[t[1]].mode = t[2]
        /\ worker[t[1]].on \in {<<>>, t}
    BY <2>1 DEF WorkersInv
  <2>3. t[1] # r
    BY <2>2
  <2>4. worker'[t[1]] = worker[t[1]]
    BY <1>1, <2>1, <2>3
  <2> QED
    BY <2>2, <2>4
<1> QED
  BY <1>4, <1>5 DEF WorkersInv

LEMMA WorkersKept ==
  ASSUME ServiceTypes, WorkersInv, Next
  PROVE  WorkersInv'
<1>1. CASE BeginScan
  <2>1. runs \in Nat /\ runs + 1 \in Runs /\ runs' = runs + 1
    BY <1>1, Numbers DEF BeginScan, Runs, ServiceTypes, HistTypes
  <2>2. worker[runs + 1].pc = "none" /\ worker[runs + 1].on = <<>>
    BY <2>1 DEF WorkersInv
  <2>3. ASSUME NEW q \in Runs
        PROVE  \/ worker'[q] = worker[q]
               \/ q = runs + 1 /\ worker'[q] = [worker[q] EXCEPT !.pc = "check"]
    BY <1>1, <2>1 DEF BeginScan, ServiceTypes, WorkerTypes
  <2>4. ASSUME NEW q \in Runs
        PROVE  /\ q > runs' => worker'[q].pc = "none"
               /\ worker'[q].pc \in {"setMode", "join", "start", "wait", "collect"}
                    => worker'[q].mode <= ModesOf[q]
               /\ worker'[q].on # <<>> => worker'[q].pc = "wait"
    <3>1. q > runs' => q > runs /\ q # runs + 1
      BY <2>1, Numbers
    <3>2. CASE worker'[q] = worker[q]
      BY <3>1, <3>2 DEF WorkersInv
    <3>3. CASE q = runs + 1 /\ worker'[q] = [worker[q] EXCEPT !.pc = "check"]
      <4>1. worker'[q].pc = "check" /\ worker'[q].on = <<>>
        BY <2>2, <3>3 DEF ServiceTypes, WorkerTypes, WorkerRecord
      <4> QED
        BY <3>1, <3>3, <4>1
    <3> QED
      BY <2>3, <3>2, <3>3
  <2>5. ASSUME NEW t \in Threads, Alive(t)'
        PROVE  /\ t = current'
               /\ worker'[t[1]].pc = "wait" /\ worker'[t[1]].mode = t[2]
               /\ worker'[t[1]].on \in {<<>>, t}
    <3>1. Alive(t) /\ t[1] \in Runs /\ current' = current
      BY <1>1, <2>5, ThreadPairs DEF Alive, BeginScan, orchVars
    <3>2. worker[t[1]].pc = "wait" /\ t = current /\ worker[t[1]].mode = t[2]
          /\ worker[t[1]].on \in {<<>>, t}
      BY <3>1 DEF WorkersInv
    <3>3. worker'[t[1]] = worker[t[1]]
      BY <2>2, <2>3, <3>1, <3>2
    <3> QED
      BY <3>1, <3>2, <3>3
  <2> QED
    BY <2>4, <2>5 DEF WorkersInv
<1>2. CASE StopScan \/ KeepScanning \/ ConfirmCancel \/ GoHome \/ OpenPartialResults \/ OpenWorkspace
          \/ ShowHome
  <2>1. UNCHANGED <<worker, current, runs, thread>>
    BY <1>2 DEF StopScan, KeepScanning, ConfirmCancel, GoHome, OpenPartialResults, OpenWorkspace, ShowHome,
       orchVars, histVars
  <2> QED
    BY <2>1, WorkersStay DEF Alive
<1>3. CASE UiThread
  BY <1>3, WorkersStay DEF UiThread, ForwardCancel, UiCancelled, UiCompleteCancelled, UiComplete, UiError,
     Alive, orchVars, histVars
<1>4. ASSUME NEW t \in Threads, ScanThread(t) PROVE WorkersInv'
  <2>1. UNCHANGED <<worker, current, runs>>
    BY <1>4 DEF ScanThread, ThreadStart, ThreadEnd, ThreadEmit, ThreadUnscan, ThreadExit, histVars
  <2>2. Alive(t) /\ \A x \in Threads : x # t => thread'[x] = thread[x]
    BY <1>4 DEF ScanThread, ThreadStart, ThreadEnd, ThreadEmit, ThreadUnscan, ThreadExit, Alive,
       ServiceTypes, OrchTypes
  <2> QED
    BY <2>1, <2>2, WorkersStay DEF Alive
<1>5. ASSUME NEW r \in Runs, Worker(r) PROVE WorkersInv'
  <2>1. CASE CheckCancel(r)
    <3>1. worker[r].mode > ModesOf[r] \/ worker[r].mode <= ModesOf[r]
      BY Numbers, WorkerMoves DEF ServiceTypes, Engines
    <3> QED
      BY <2>1, <3>1, WorkerSteps DEF CheckCancel, WorkerAt, orchVars, histVars, WorkerPoints
  <2>2. CASE SetMode(r)
    <3>1. worker[r].pc = "setMode" /\ worker[r].mode <= ModesOf[r]
      BY <2>2 DEF SetMode, WorkerAt, WorkersInv
    <3> QED
      BY <2>2, <3>1, WorkerSteps DEF SetMode, WorkerAt, histVars, WorkerPoints
  <2>3. CASE SetModeJoined(r)
    <3>1. worker[r].pc = "join" /\ worker[r].mode <= ModesOf[r]
      BY <2>3 DEF SetModeJoined, WorkerAt, WorkersInv
    <3> QED
      BY <2>3, <3>1, WorkerSteps DEF SetModeJoined, WorkerAt, histVars, WorkerPoints
  <2>4. CASE StartScan(r) /\ CurrentAlive
    BY <2>4, WorkerSteps DEF StartScan, WorkerAt, histVars, WorkerPoints
  <2>5. CASE StartScan(r) /\ ~CurrentAlive
    <3> DEFINE t == <<r, worker[r].mode>>
    <3>1. /\ worker[r].pc = "start" /\ worker' = [worker EXCEPT ![r].pc = "wait"]
          /\ current' = t /\ thread' = [thread EXCEPT ![t].pc = "spawned"] /\ runs' = runs
      BY <2>5 DEF StartScan, WorkerAt, histVars
    <3>2. \A x \in Threads : ~Alive(x)
      BY <2>5 DEF WorkersInv, CurrentAlive
    <3>3. \A x \in Threads : x # t => ~Alive(x)'
      BY <3>1, <3>2 DEF Alive, ServiceTypes, OrchTypes
    <3>4. /\ worker[r].on = <<>> /\ worker[r].mode <= ModesOf[r] /\ ~(r > runs)
          /\ worker[r].mode \in Engines
      <4>1. worker[r].on = <<>> /\ worker[r].mode <= ModesOf[r] /\ ~(r > runs)
        BY <3>1 DEF WorkersInv
      <4> QED
        BY <4>1, WorkerMoves, Numbers DEF ServiceTypes, Engines
    <3>5. ASSUME NEW q \in Runs
          PROVE  IF q = r THEN worker'[q] = [worker[q] EXCEPT !.pc = "wait"]
                 ELSE worker'[q] = worker[q]
      BY <3>1 DEF ServiceTypes, WorkerTypes
    <3>6. worker'[r].pc = "wait" /\ worker'[r].on = <<>> /\ worker'[r].mode = worker[r].mode
      BY <3>4, <3>5 DEF ServiceTypes, WorkerTypes, WorkerRecord
    <3>7. t[1] = r /\ t[2] = worker[r].mode
      OBVIOUS
    <3>8. ASSUME NEW q \in Runs
          PROVE  /\ q > runs' => worker'[q].pc = "none"
                 /\ worker'[q].pc \in {"setMode", "join", "start", "wait", "collect"}
                      => worker'[q].mode <= ModesOf[q]
                 /\ worker'[q].on # <<>> => worker'[q].pc = "wait"
      <4>1. CASE q = r
        BY <3>1, <3>4, <3>6, <4>1
      <4>2. CASE q # r
        BY <3>1, <3>5, <4>2 DEF WorkersInv
      <4> QED
        BY <4>1, <4>2
    <3>9. ASSUME NEW x \in Threads, Alive(x)'
          PROVE  /\ x = current'
                 /\ worker'[x[1]].pc = "wait" /\ worker'[x[1]].mode = x[2]
                 /\ worker'[x[1]].on \in {<<>>, x}
      <4>1. x = t
        BY <3>3, <3>9
      <4> QED
        BY <3>1, <3>6, <3>7, <4>1
    <3> QED
      BY <3>8, <3>9 DEF WorkersInv
  <2>6. CASE Wait(r)
    <3>1. worker[r].pc = "wait" /\ UNCHANGED <<thread, current, runs>>
      BY <2>6 DEF Wait, orchVars, histVars
    <3>2. \A q \in Runs : q # r => worker'[q] = worker[q]
      BY <2>6 DEF Wait, ServiceTypes, WorkerTypes
    <3>3. /\ worker'[r].mode = worker[r].mode
          /\ \/ worker[r].on = <<>> /\ worker'[r].pc = "wait" /\ worker'[r].on = current
             \/ /\ worker[r].on # <<>> /\ ~Alive(worker[r].on)
                /\ worker'[r].pc = "collect" /\ worker'[r].on = <<>>
      BY <2>6 DEF Wait, ServiceTypes, WorkerTypes, WorkerRecord
    <3>4. worker[r].mode <= ModesOf[r] /\ ~(r > runs)
      BY <3>1 DEF WorkersInv
    <3>5. ASSUME NEW q \in Runs
          PROVE  /\ q > runs' => worker'[q].pc = "none"
                 /\ worker'[q].pc \in {"setMode", "join", "start", "wait", "collect"}
                      => worker'[q].mode <= ModesOf[q]
                 /\ worker'[q].on # <<>> => worker'[q].pc = "wait"
      <4>1. CASE q = r
        BY <3>1, <3>3, <3>4, <4>1
      <4>2. CASE q # r
        BY <3>1, <3>2, <4>2 DEF WorkersInv
      <4> QED
        BY <4>1, <4>2
    <3>6. ASSUME NEW x \in Threads, Alive(x)'
          PROVE  /\ x = current'
                 /\ worker'[x[1]].pc = "wait" /\ worker'[x[1]].mode = x[2]
                 /\ worker'[x[1]].on \in {<<>>, x}
      <4>1. Alive(x) /\ x[1] \in Runs
        BY <3>1, <3>6, ThreadPairs DEF Alive
      <4>2. /\ x = current /\ worker[x[1]].pc = "wait" /\ worker[x[1]].mode = x[2]
            /\ worker[x[1]].on \in {<<>>, x}
        BY <4>1 DEF WorkersInv
      <4>3. CASE x[1] = r
        BY <3>1, <3>3, <4>1, <4>2, <4>3
      <4>4. CASE x[1] # r
        BY <3>1, <3>2, <4>1, <4>2, <4>4
      <4> QED
        BY <4>3, <4>4
    <3> QED
      BY <3>5, <3>6 DEF WorkersInv
  <2>7. CASE Collect(r) \/ Reset(r)
    <3>1. worker[r].pc \in {"collect", "reset"} /\ UNCHANGED <<thread, current, runs>>
      BY <2>7 DEF Collect, Reset, orchVars, histVars
    <3>2. \A q \in Runs : q # r => worker'[q] = worker[q]
      BY <2>7 DEF Collect, Reset, ServiceTypes, WorkerTypes
    <3>3. worker[r].on = <<>> /\ ~(r > runs)
      BY <3>1 DEF WorkersInv
    <3>4. worker'[r].on = <<>> /\ worker'[r].pc \in {"check", "dead"}
      BY <2>7, <3>3 DEF Collect, Reset, NoWorker, ServiceTypes, WorkerTypes, WorkerRecord
    <3>5. ASSUME NEW q \in Runs
          PROVE  /\ q > runs' => worker'[q].pc = "none"
                 /\ worker'[q].pc \in {"setMode", "join", "start", "wait", "collect"}
                      => worker'[q].mode <= ModesOf[q]
                 /\ worker'[q].on # <<>> => worker'[q].pc = "wait"
      <4>1. CASE q = r
        BY <3>1, <3>3, <3>4, <4>1
      <4>2. CASE q # r
        BY <3>1, <3>2, <4>2 DEF WorkersInv
      <4> QED
        BY <4>1, <4>2
    <3>6. ASSUME NEW x \in Threads, Alive(x)'
          PROVE  /\ x = current'
                 /\ worker'[x[1]].pc = "wait" /\ worker'[x[1]].mode = x[2]
                 /\ worker'[x[1]].on \in {<<>>, x}
      <4>1. Alive(x) /\ x[1] \in Runs
        BY <3>1, <3>6, ThreadPairs DEF Alive
      <4>2. /\ x = current /\ worker[x[1]].pc = "wait" /\ worker[x[1]].mode = x[2]
            /\ worker[x[1]].on \in {<<>>, x}
        BY <4>1 DEF WorkersInv
      <4>3. x[1] # r
        BY <3>1, <4>2
      <4> QED
        BY <3>1, <3>2, <4>1, <4>2, <4>3
    <3> QED
      BY <3>5, <3>6 DEF WorkersInv
  <2>8. CASE Deliver(r) \/ Fail(r)
    BY <2>8, WorkerSteps DEF Deliver, Fail, WorkerAt, orchVars, histVars, WorkerPoints
  <2> QED
    BY <1>5, <2>1, <2>2, <2>3, <2>4, <2>5, <2>6, <2>7, <2>8 DEF Worker
<1> QED
  BY <1>1, <1>2, <1>3, <1>4, <1>5 DEF Next, User

------------------------------------------------------------------------------
(* Who has been told.                                                       *)
LEMMA ToldAtStart == Init => ToldInv /\ MixedInv /\ WindowInv
<1> SUFFICES ASSUME Init PROVE ToldInv /\ MixedInv /\ WindowInv
  OBVIOUS
<1>1. Len(queue) = 0 /\ told = {} /\ runs = 0 /\ asked = {}
  BY EmptySeq DEF Init
<1>2. ToldInv
  BY <1>1 DEF ToldInv
<1>3. MixedInv
  BY <1>1 DEF MixedInv
<1>4. WindowInv
  BY <1>1 DEF Init, WindowInv
<1> QED
  BY <1>2, <1>3, <1>4

(* Steps that leave the queue alone and undo no end of a run.               *)
LEMMA ToldStays ==
  ASSUME ServiceTypes, ToldInv, UNCHANGED <<queue, told, runs>>,
         \A q \in Runs : /\ worker[q].pc \in {"reset", "dead"} => worker'[q].pc \in {"reset", "dead"}
                         /\ worker[q].pc = "none" => worker'[q].pc = "none"
  PROVE  ToldInv'
<1>1. ASSUME NEW i \in 1..Len(queue), Tells(i)
      PROVE  queue[i].run \in Runs
  <2>1. queue[i] \in Callbacks
    BY <1>1, ElementOfSeq DEF ServiceTypes, UiTypes
  <2> QED
    BY <1>1, <2>1, CallbackKinds DEF Tells
<1>2. \A q \in told : q <= runs /\ worker'[q].pc \in {"none", "reset", "dead"}
  BY DEF ToldInv, ServiceTypes, HistTypes
<1>3. \A i \in 1..Len(queue) : Tells(i) =>
        queue[i].run \notin told /\ worker'[queue[i].run].pc \in {"reset", "dead"}
  BY <1>1 DEF ToldInv
<1>4. \A i, j \in 1..Len(queue) : Tells(i) /\ Tells(j) /\ i # j => queue[i].run # queue[j].run
  BY DEF ToldInv
<1> QED
  BY <1>2, <1>3, <1>4 DEF ToldInv, Tells

(* A callback is taken from the queue.                                      *)
LEMMA ToldTakes ==
  ASSUME ServiceTypes, ToldInv, WorkersInv, queue # <<>>, queue' = Tail(queue),
         UNCHANGED <<worker, runs>>,
         told' = IF Tells(1) THEN told \cup {queue[1].run} ELSE told
  PROVE  ToldInv'
<1>1. /\ Len(queue) \in Nat /\ 1 \in 1..Len(queue) /\ queue[1] \in Callbacks
      /\ Len(queue') = Len(queue) - 1
      /\ \A i \in 1..Len(queue') : i + 1 \in 1..Len(queue) /\ queue'[i] = queue[i + 1]
  BY Taken DEF ServiceTypes, UiTypes
<1>2. Tells(1) => queue[1].run \in Runs
  BY <1>1, CallbackKinds DEF Tells
<1>3. ASSUME NEW q \in told' PROVE q <= runs' /\ worker'[q].pc \in {"none", "reset", "dead"}
  <2>1. CASE q \in told
    BY <2>1 DEF ToldInv
  <2>2. CASE Tells(1) /\ q = queue[1].run
    <3>1. worker[q].pc \in {"reset", "dead"} /\ q \in Runs
      BY <1>1, <1>2, <2>2 DEF ToldInv
    <3>2. ~(q > runs)
      BY <3>1 DEF WorkersInv
    <3> QED
      BY <3>1, <3>2, Numbers DEF ServiceTypes, HistTypes
  <2> QED
    BY <1>3, <2>1, <2>2
<1>4. ASSUME NEW i \in 1..Len(queue'), Tells(i)'
      PROVE  /\ Tells(i + 1) /\ i + 1 # 1 /\ queue'[i].run = queue[i + 1].run
             /\ queue'[i].run \notin told' /\ worker'[queue'[i].run].pc \in {"reset", "dead"}
  <2>1. i + 1 \in 1..Len(queue) /\ queue'[i] = queue[i + 1] /\ i + 1 # 1
    BY <1>1
  <2>2. Tells(i + 1)
    BY <1>4, <2>1 DEF Tells
  <2>3. queue[i + 1].run \notin told /\ worker[queue[i + 1].run].pc \in {"reset", "dead"}
    BY <2>1, <2>2 DEF ToldInv
  <2>4. Tells(1) => queue[1].run # queue[i + 1].run
    BY <1>1, <2>1, <2>2 DEF ToldInv
  <2> QED
    BY <2>1, <2>2, <2>3, <2>4
<1>5. ASSUME NEW i \in 1..Len(queue'), NEW j \in 1..Len(queue'), Tells(i)', Tells(j)', i # j
      PROVE  queue'[i].run # queue'[j].run
  <2>1. /\ Tells(i + 1) /\ queue'[i].run = queue[i + 1].run
        /\ Tells(j + 1) /\ queue'[j].run = queue[j + 1].run
    BY <1>4, <1>5
  <2>2. i + 1 \in 1..Len(queue) /\ j + 1 \in 1..Len(queue) /\ i + 1 # j + 1
    BY <1>1, <1>5
  <2> QED
    BY <2>1, <2>2 DEF ToldInv
<1> QED
  BY <1>3, <1>4, <1>5 DEF ToldInv

(* A callback is put at the end of the queue: the end of its run if the     *)
(* callback tells of one.                                                   *)
LEMMA ToldPuts ==
  ASSUME ServiceTypes, ToldInv, NEW c \in Callbacks, queue' = Append(queue, c),
         UNCHANGED <<told, runs>>,
         \A q \in Runs : /\ worker[q].pc \in {"reset", "dead"} => worker'[q].pc \in {"reset", "dead"}
                         /\ worker[q].pc = "none" => worker'[q].pc = "none",
         c.kind \in {"complete", "error"} =>
           /\ worker[c.run].pc \notin {"none", "reset", "dead"}
           /\ worker'[c.run].pc = "reset"
  PROVE  ToldInv'
<1>1. /\ Len(queue) \in Nat /\ Len(queue') = Len(queue) + 1
      /\ \A i \in 1..Len(queue) : queue'[i] = queue[i]
      /\ queue'[Len(queue) + 1] = c
  BY PutLast DEF ServiceTypes, UiTypes
<1>2. ASSUME NEW i \in 1..Len(queue), Tells(i)
      PROVE  queue[i].run \in Runs
  <2>1. queue[i] \in Callbacks
    BY <1>2, ElementOfSeq DEF ServiceTypes, UiTypes
  <2> QED
    BY <1>2, <2>1, CallbackKinds DEF Tells
<1>3. ASSUME NEW q \in told' PROVE q <= runs' /\ worker'[q].pc \in {"none", "reset", "dead"}
  BY <1>3 DEF ToldInv, ServiceTypes, HistTypes
<1>4. ASSUME NEW i \in 1..Len(queue'), Tells(i)'
      PROVE  \/ i \in 1..Len(queue) /\ Tells(i) /\ queue'[i] = queue[i]
             \/ i = Len(queue) + 1 /\ c.kind \in {"complete", "error"} /\ queue'[i] = c
  <2>1. i \in 1..Len(queue) \/ i = Len(queue) + 1
    BY <1>1
  <2> QED
    BY <1>1, <1>4, <2>1 DEF Tells
<1>5. ASSUME NEW i \in 1..Len(queue'), Tells(i)'
      PROVE  queue'[i].run \notin told' /\ worker'[queue'[i].run].pc \in {"reset", "dead"}
  <2>1. CASE i \in 1..Len(queue) /\ Tells(i) /\ queue'[i] = queue[i]
    <3>1. queue[i].run \notin told /\ worker[queue[i].run].pc \in {"reset", "dead"}
      BY <2>1 DEF ToldInv
    <3> QED
      BY <1>2, <2>1, <3>1
  <2>2. CASE c.kind \in {"complete", "error"} /\ queue'[i] = c
    <3>1. c.run \notin told
      BY <2>2 DEF ToldInv
    <3> QED
      BY <2>2, <3>1
  <2> QED
    BY <1>4, <1>5, <2>1, <2>2
<1>6. ASSUME NEW i \in 1..Len(queue), Tells(i), c.kind \in {"complete", "error"}
      PROVE  queue[i].run # c.run
  BY <1>6 DEF ToldInv
<1>7. ASSUME NEW i \in 1..Len(queue'), NEW j \in 1..Len(queue'), Tells(i)', Tells(j)', i # j
      PROVE  queue'[i].run # queue'[j].run
  <2>1. CASE /\ i \in 1..Len(queue) /\ Tells(i) /\ queue'[i] = queue[i]
             /\ j \in 1..Len(queue) /\ Tells(j) /\ queue'[j] = queue[j]
    BY <1>7, <2>1 DEF ToldInv
  <2>2. CASE /\ i \in 1..Len(queue) /\ Tells(i) /\ queue'[i] = queue[i]
             /\ c.kind \in {"complete", "error"} /\ queue'[j] = c
    BY <1>6, <2>2
  <2>3. CASE /\ j \in 1..Len(queue) /\ Tells(j) /\ queue'[j] = queue[j]
             /\ c.kind \in {"complete", "error"} /\ queue'[i] = c
    BY <1>6, <2>3
  <2> QED
    BY <1>4, <1>7, <2>1, <2>2, <2>3
<1> QED
  BY <1>3, <1>5, <1>7 DEF ToldInv

(* What a step of a worker does to the workers.                             *)
LEMMA WorkerPlaces ==
  ASSUME ServiceTypes, NEW r \in Runs, Worker(r)
  PROVE  /\ \A q \in Runs : q # r => worker'[q] = worker[q]
         /\ worker[r].pc \notin {"none", "dead"}
         /\ worker[r].pc = "reset" => worker'[r].pc = "dead"
         /\ UNCHANGED <<told, runs, mixed, asked, ui, session, rows, cancels, failed>>
<1>1. CASE CheckCancel(r) \/ SetMode(r) \/ SetModeJoined(r) \/ StartScan(r)
  <2>1. PICK p \in WorkerPoints : worker' = [worker EXCEPT ![r].pc = p]
    BY <1>1 DEF CheckCancel, SetMode, SetModeJoined, StartScan, WorkerAt, WorkerPoints
  <2>2. /\ worker[r].pc \in {"check", "setMode", "join", "start"}
        /\ UNCHANGED <<told, runs, mixed, asked, ui, session, rows, cancels, failed>>
    BY <1>1 DEF CheckCancel, SetMode, SetModeJoined, StartScan, WorkerAt, uiVars, histVars
  <2> QED
    BY <2>1, <2>2 DEF ServiceTypes, WorkerTypes
<1>2. CASE Wait(r) \/ Collect(r)
  <2>1. /\ worker[r].pc \in {"wait", "collect"}
        /\ UNCHANGED <<told, runs, mixed, asked, ui, session, rows, cancels, failed>>
    BY <1>2 DEF Wait, Collect, uiVars, histVars
  <2> QED
    BY <1>2, <2>1 DEF Wait, Collect, ServiceTypes, WorkerTypes
<1>3. CASE Deliver(r) \/ Fail(r) \/ Reset(r)
  <2>1. /\ worker[r].pc \in {"deliver", "error", "reset"}
        /\ UNCHANGED <<told, runs, mixed, asked, ui, session, rows, cancels, failed>>
    BY <1>3 DEF Deliver, Fail, Reset, WorkerAt, uiVars, histVars
  <2> QED
    BY <1>3, <2>1 DEF Deliver, Fail, Reset, WorkerAt, NoWorker, ServiceTypes, WorkerTypes
<1> QED
  BY <1>1, <1>2, <1>3 DEF Worker

LEMMA ToldKept ==
  ASSUME ServiceTypes, WorkersInv, ToldInv, Next
  PROVE  ToldInv'
<1>1. CASE BeginScan
  <2>1. runs \in Nat /\ runs + 1 \in Runs /\ runs' = runs + 1 /\ queue' = queue
    BY <1>1, Numbers DEF BeginScan, Runs, ServiceTypes, HistTypes
  <2>2. worker[runs + 1].pc = "none" /\ runs + 1 \notin told
    BY <2>1 DEF WorkersInv, ToldInv
  <2>3. \A q \in Runs : q # runs + 1 => worker'[q] = worker[q]
    BY <1>1 DEF BeginScan, ServiceTypes, WorkerTypes
  <2>4. told' = told \/ (told' = told \cup {runs + 1} /\ worker' = worker)
    <3>1. IF scanning THEN told' = told \cup {runs + 1} /\ UNCHANGED worker ELSE UNCHANGED told
      BY <1>1 DEF BeginScan
    <3> QED
      BY <3>1
  <2>5. ASSUME NEW i \in 1..Len(queue), Tells(i)
        PROVE  queue[i].run \in Runs /\ queue[i].run # runs + 1
    <3>1. queue[i] \in Callbacks
      BY <2>5, ElementOfSeq DEF ServiceTypes, UiTypes
    <3>2. worker[queue[i].run].pc \in {"reset", "dead"}
      BY <2>5 DEF ToldInv
    <3> QED
      BY <2>2, <2>5, <3>1, <3>2, CallbackKinds DEF Tells
  <2>6. ASSUME NEW q \in told' PROVE q <= runs' /\ worker'[q].pc \in {"none", "reset", "dead"}
    <3>1. CASE q \in told
      <4>1. q <= runs /\ worker[q].pc \in {"none", "reset", "dead"} /\ q \in Runs /\ q # runs + 1
        BY <2>2, <3>1 DEF ToldInv, ServiceTypes, HistTypes
      <4> QED
        BY <2>1, <2>3, <4>1, Numbers
    <3>2. CASE q = runs + 1 /\ worker' = worker
      BY <2>1, <2>2, <3>2
    <3> QED
      BY <2>4, <2>6, <3>1, <3>2
  <2>7. ASSUME NEW i \in 1..Len(queue), Tells(i)
        PROVE  queue[i].run \notin told' /\ worker'[queue[i].run].pc \in {"reset", "dead"}
    <3>1. queue[i].run \notin told /\ worker[queue[i].run].pc \in {"reset", "dead"}
      BY <2>7 DEF ToldInv
    <3> QED
      BY <2>3, <2>4, <2>5, <2>7, <3>1
  <2>8. \A i, j \in 1..Len(queue) : Tells(i) /\ Tells(j) /\ i # j => queue[i].run # queue[j].run
    BY DEF ToldInv
  <2> QED
    BY <2>1, <2>6, <2>7, <2>8 DEF ToldInv, Tells
<1>2. CASE StopScan \/ KeepScanning \/ ConfirmCancel \/ GoHome \/ OpenPartialResults \/ OpenWorkspace
          \/ ShowHome \/ ForwardCancel
  <2>1. UNCHANGED <<queue, told, runs, worker>>
    BY <1>2 DEF StopScan, KeepScanning, ConfirmCancel, GoHome, OpenPartialResults, OpenWorkspace, ShowHome,
       ForwardCancel, histVars
  <2> QED
    BY <2>1, ToldStays
<1>3. CASE UiCancelled
  <2>1. queue # <<>> /\ queue' = Tail(queue) /\ UNCHANGED <<worker, runs, told>>
        /\ Head(queue).kind = "cancelled"
    BY <1>3 DEF UiCancelled, Event, histVars
  <2>2. ~Tells(1)
    BY <2>1, Taken DEF Tells, ServiceTypes, UiTypes
  <2> QED
    BY <2>1, <2>2, ToldTakes
<1>4. CASE UiCompleteCancelled \/ UiComplete \/ UiError
  <2>1. /\ queue # <<>> /\ queue' = Tail(queue) /\ UNCHANGED <<worker, runs>>
        /\ Head(queue).kind \in {"complete", "error"} /\ told' = told \cup {Head(queue).run}
    BY <1>4 DEF UiCompleteCancelled, UiComplete, UiError, Event
  <2>2. Tells(1) /\ Head(queue) = queue[1]
    BY <2>1, Taken DEF Tells, ServiceTypes, UiTypes
  <2> QED
    BY <2>1, <2>2, ToldTakes
<1>5. ASSUME NEW t \in Threads, ScanThread(t) PROVE ToldInv'
  <2>1. CASE ThreadEmit(t)
    <3>1. [kind |-> "cancelled"] \in Callbacks
      BY DEF Callbacks, Asks
    <3>2. UNCHANGED <<worker, told, runs>>
      BY <2>1 DEF ThreadEmit, histVars
    <3>3. CASE queue' = Append(queue, [kind |-> "cancelled"])
      BY <3>1, <3>2, <3>3, ToldPuts
    <3>4. CASE queue' = queue
      BY <3>2, <3>4, ToldStays
    <3> QED
      BY <2>1, <3>3, <3>4 DEF ThreadEmit
  <2>2. CASE ThreadStart(t) \/ ThreadEnd(t) \/ ThreadUnscan(t) \/ ThreadExit(t)
    <3>1. UNCHANGED <<queue, told, runs, worker>>
      BY <2>2 DEF ThreadStart, ThreadEnd, ThreadUnscan, ThreadExit, uiVars, histVars
    <3> QED
      BY <3>1, ToldStays
  <2> QED
    BY <1>5, <2>1, <2>2 DEF ScanThread
<1>6. ASSUME NEW r \in Runs, Worker(r) PROVE ToldInv'
  <2>1. /\ \A q \in Runs : q # r => worker'[q] = worker[q]
        /\ worker[r].pc \notin {"none", "dead"}
        /\ worker[r].pc = "reset" => worker'[r].pc = "dead"
        /\ UNCHANGED <<told, runs>>
    BY <1>6, WorkerPlaces
  <2>2. \A q \in Runs : /\ worker[q].pc \in {"reset", "dead"} => worker'[q].pc \in {"reset", "dead"}
                        /\ worker[q].pc = "none" => worker'[q].pc = "none"
    BY <2>1
  <2>3. CASE Deliver(r)
    <3> DEFINE c == [kind |-> "complete", run |-> r, results |-> {g \in worker[r].got : g.run # 0}]
    <3>1. c \in Callbacks
      BY WorkerMoves DEF Callbacks, Completes, ServiceTypes
    <3>2. queue' = Append(queue, c) /\ worker[r].pc = "deliver" /\ worker'[r].pc = "reset"
      BY <2>3 DEF Deliver, WorkerAt, ServiceTypes, WorkerTypes, WorkerRecord
    <3>3. c.run = r
      OBVIOUS
    <3> HIDE DEF c
    <3> QED
      BY <2>1, <2>2, <3>1, <3>2, <3>3, ToldPuts
  <2>4. CASE Fail(r)
    <3> DEFINE c == [kind |-> "error", run |-> r]
    <3>1. c \in Callbacks
      BY DEF Callbacks, Errors
    <3>2. queue' = Append(queue, c) /\ worker[r].pc = "error" /\ worker'[r].pc = "reset"
      BY <2>4 DEF Fail, WorkerAt, ServiceTypes, WorkerTypes, WorkerRecord
    <3>3. c.run = r
      OBVIOUS
    <3> HIDE DEF c
    <3> QED
      BY <2>1, <2>2, <3>1, <3>2, <3>3, ToldPuts
  <2>5. CASE \/ CheckCancel(r) \/ SetMode(r) \/ SetModeJoined(r) \/ StartScan(r) \/ Wait(r)
             \/ Collect(r) \/ Reset(r)
    <3>1. queue' = queue
      BY <2>5 DEF CheckCancel, SetMode, SetModeJoined, StartScan, Wait, Collect, Reset, uiVars
    <3> QED
      BY <2>1, <2>2, <3>1, ToldStays
  <2> QED
    BY <1>6, <2>3, <2>4, <2>5 DEF Worker
<1> QED
  BY <1>1, <1>2, <1>3, <1>4, <1>5, <1>6 DEF Next, User, UiThread

------------------------------------------------------------------------------
(* Runs that met, and the window.                                           *)
LEMMA OthersLeaveRuns ==
  ASSUME Next, ~BeginScan
  PROVE  told \subseteq told' /\ runs' = runs /\ mixed \subseteq mixed'
<1>1. CASE StopScan \/ KeepScanning \/ ConfirmCancel \/ GoHome
          \/ OpenPartialResults \/ OpenWorkspace \/ ShowHome \/ UiThread
  BY <1>1 DEF StopScan, KeepScanning, ConfirmCancel, GoHome, OpenPartialResults, OpenWorkspace, ShowHome,
       UiThread, ForwardCancel, UiCancelled,
     UiCompleteCancelled, UiComplete, UiError, histVars
<1>2. ASSUME NEW r \in Runs, Worker(r) PROVE told \subseteq told' /\ runs' = runs /\ mixed \subseteq mixed'
  BY <1>2 DEF Worker, CheckCancel, SetMode, SetModeJoined, StartScan, Wait, Collect, Deliver, Fail, Reset,
     histVars
<1>3. ASSUME NEW t \in Threads, ScanThread(t) PROVE told \subseteq told' /\ runs' = runs /\ mixed \subseteq mixed'
  BY <1>3 DEF ScanThread, ThreadStart, ThreadEnd, ThreadEmit, ThreadUnscan, ThreadExit, histVars
<1> QED
  BY <1>1, <1>2, <1>3 DEF Next, User

LEMMA MixedKept ==
  ASSUME ServiceTypes, MixedInv, Next
  PROVE  MixedInv'
<1>1. CASE ~BeginScan
  BY <1>1, OthersLeaveRuns DEF MixedInv
<1>2. CASE BeginScan
  <2>1. /\ runs \in Nat /\ runs' = runs + 1 /\ told \subseteq told'
        /\ mixed' = IF Open = {} THEN mixed ELSE mixed \cup Open \cup {runs + 1}
    <3>1. IF scanning THEN told' = told \cup {runs + 1} ELSE told' = told
      BY <1>2 DEF BeginScan
    <3> QED
      BY <1>2, <3>1, Numbers DEF BeginScan, ServiceTypes, HistTypes
  <2>2. \A q \in 1..runs' : q # runs' => q \in 1..runs
    BY <2>1
  <2>3. Open = {} \/ runs' \in mixed'
    BY <2>1
  <2>4. \A q \in 1..runs : q \in told \/ q \in Open
    BY DEF Open
  <2>5. Open = {} => \A q \in 1..runs' : q # runs' => q \in told'
    BY <2>1, <2>2, <2>4
  <2>6. Open # {} => \A q \in 1..runs' : q # runs' => q \in told' \/ q \in mixed'
    BY <2>1, <2>2, <2>4
  <2> QED
    BY <2>3, <2>5, <2>6 DEF MixedInv
<1> QED
  BY <1>1, <1>2

(* Steps that leave the window alone, but may put a callback.               *)
LEMMA WindowStays ==
  ASSUME WindowInv, UNCHANGED <<ui, runs, asked, cancels>>, queue' # <<>> => runs # 0
  PROVE  WindowInv'
BY DEF WindowInv

LEMMA WindowKept ==
  ASSUME ServiceTypes, WorkersInv, WindowInv, Next
  PROVE  WindowInv'
<1>1. CASE BeginScan
  <2>1. /\ runs \in Nat /\ runs' = runs + 1 /\ asked' = asked
        /\ ~ui'.choice /\ ui'.partial = {} /\ ~ui'.forward /\ ~ui'.dialog
    BY <1>1, Numbers DEF BeginScan, Idle, ServiceTypes, HistTypes, UiTypes, UiFlags
  <2>2. \A r \in asked : r \in Nat /\ r <= runs
    BY Numbers DEF WindowInv, ServiceTypes, HistTypes
  <2>3. runs + 1 \notin asked /\ \A r \in asked : r <= runs + 1
    BY <2>1, <2>2
  <2> QED
    BY <2>1, <2>3 DEF WindowInv
<1>2. CASE ConfirmCancel
  <2>1. /\ ui'.cancelled /\ ui.dialog /\ ~ui'.dialog /\ runs' = runs /\ asked' \subseteq asked \cup {runs}
    BY <1>2 DEF ConfirmCancel, ServiceTypes, UiTypes, UiFlags
  <2>2. runs # 0 /\ runs <= runs
    BY <2>1, Numbers DEF WindowInv, ServiceTypes, HistTypes
  <2> QED
    BY <2>1, <2>2 DEF WindowInv
<1>3. CASE StopScan \/ KeepScanning \/ GoHome \/ OpenPartialResults \/ OpenWorkspace \/ ShowHome
          \/ ForwardCancel
  <2>1. /\ UNCHANGED <<runs, asked, queue, cancels>>
        /\ ui'.choice = ui.choice /\ ui'.partial = ui.partial /\ (ui'.forward => ui.forward)
        /\ ui'.cancelled = ui.cancelled /\ (ui'.hud => ui.hud) /\ ui'.accept = ui.accept
        /\ ui'.dialog => ui.dialog \/ (ui.hud /\ cancels < MaxCancels)
    BY <1>3 DEF StopScan, KeepScanning, GoHome, OpenPartialResults, OpenWorkspace, ShowHome, ForwardCancel,
       histVars, ServiceTypes, UiTypes, UiFlags
  <2> QED
    BY <2>1 DEF WindowInv
<1>4. CASE UiCancelled \/ UiCompleteCancelled
  <2>1. /\ UNCHANGED <<runs, asked, cancels>> /\ queue # <<>>
        /\ ui' = ui \/ (ui'.cancelled /\ ui'.dialog = ui.dialog)
    BY <1>4 DEF UiCancelled, UiCompleteCancelled, Event, histVars, ServiceTypes, UiTypes, UiFlags
  <2> QED
    BY <2>1 DEF WindowInv
<1>5. CASE UiComplete \/ UiError
  <2>1. /\ UNCHANGED <<runs, asked, cancels>> /\ queue # <<>>
        /\ ui'.choice = ui.choice /\ ui'.partial = ui.partial /\ ui'.forward = ui.forward
        /\ ui'.cancelled = ui.cancelled /\ ui'.dialog = ui.dialog
    BY <1>5 DEF UiComplete, UiError, Event, ServiceTypes, UiTypes, UiFlags
  <2> QED
    BY <2>1 DEF WindowInv
<1>6. ASSUME NEW r \in Runs, Worker(r) PROVE WindowInv'
  <2>1. UNCHANGED <<ui, runs, asked, cancels>> /\ worker[r].pc # "none"
    BY <1>6, WorkerPlaces
  <2>2. r <= runs /\ r # 0 /\ r \in Nat
    BY <2>1, Numbers DEF WorkersInv, ServiceTypes, HistTypes, Runs
  <2>3. runs # 0
    BY <2>2, Numbers DEF ServiceTypes, HistTypes
  <2> QED
    BY <2>1, <2>3, WindowStays
<1>7. ASSUME NEW t \in Threads, ScanThread(t) PROVE WindowInv'
  <2>1. UNCHANGED <<ui, runs, asked, cancels>> /\ Alive(t)
    BY <1>7 DEF ScanThread, ThreadStart, ThreadEnd, ThreadEmit, ThreadUnscan, ThreadExit, uiVars, histVars,
       Alive
  <2>2. t[1] \in Runs /\ worker[t[1]].pc = "wait"
    BY <2>1, ThreadPairs DEF WorkersInv
  <2>3. t[1] <= runs /\ t[1] # 0 /\ t[1] \in Nat
    BY <2>2, Numbers DEF WorkersInv, ServiceTypes, HistTypes, Runs
  <2>4. runs # 0
    BY <2>3, Numbers DEF ServiceTypes, HistTypes
  <2> QED
    BY <2>1, <2>4, WindowStays
<1> QED
  BY <1>1, <1>2, <1>3, <1>4, <1>5, <1>6, <1>7 DEF Next, User, UiThread

------------------------------------------------------------------------------
(* A lone run.                                                              *)
LEMMA LoneAtStart == Init => LoneInv /\ FreshInv /\ RowsInv /\ SessionsInv
<1> SUFFICES ASSUME Init PROVE LoneInv /\ FreshInv /\ RowsInv /\ SessionsInv
  OBVIOUS
<1>1. Len(queue) = 0 /\ runs = 0 /\ rows = {} /\ session = 0 /\ store = {}
  BY EmptySeq DEF Init
<1>2. LoneInv
  BY <1>1 DEF LoneInv, Alone
<1>3. FreshInv
  BY DEF Init, FreshInv
<1>4. RowsInv /\ SessionsInv
  BY <1>1 DEF RowsInv, SessionsInv
<1> QED
  BY <1>2, <1>3, <1>4

LEMMA FreshKept ==
  ASSUME ServiceTypes, FreshInv, Next
  PROVE  FreshInv'
<1>1. ASSUME \A q \in Runs : worker'[q] = worker[q] \/ worker'[q].pc # "none"
      PROVE  FreshInv'
  <2>1. ASSUME NEW q \in Runs, worker'[q].pc = "none" PROVE worker'[q] = NoWorker("none")
    BY <1>1, <2>1 DEF FreshInv
  <2> QED
    BY <2>1 DEF FreshInv, NoWorker
<1>2. CASE BeginScan
  <2>1. worker' = worker \/ worker' = [worker EXCEPT ![runs + 1].pc = "check"]
    BY <1>2 DEF BeginScan
  <2>2. runs + 1 \in Runs
    BY <1>2, Numbers DEF BeginScan, Runs, ServiceTypes, HistTypes
  <2>3. ASSUME NEW q \in Runs PROVE worker'[q] = worker[q] \/ worker'[q].pc # "none"
    BY <2>1, <2>2 DEF ServiceTypes, WorkerTypes, WorkerRecord
  <2> QED
    BY <1>1, <2>3
<1>3. CASE StopScan \/ KeepScanning \/ ConfirmCancel \/ GoHome
          \/ OpenPartialResults \/ OpenWorkspace \/ ShowHome \/ UiThread
  <2>1. worker' = worker
    BY <1>3 DEF StopScan, KeepScanning, ConfirmCancel, GoHome, OpenPartialResults, OpenWorkspace, ShowHome,
       UiThread, ForwardCancel, UiCancelled,
       UiCompleteCancelled, UiComplete, UiError
  <2> QED
    BY <1>1, <2>1
<1>4. ASSUME NEW t \in Threads, ScanThread(t) PROVE FreshInv'
  <2>1. worker' = worker
    BY <1>4 DEF ScanThread, ThreadStart, ThreadEnd, ThreadEmit, ThreadUnscan, ThreadExit
  <2> QED
    BY <1>1, <2>1
<1>5. ASSUME NEW r \in Runs, Worker(r) PROVE FreshInv'
  <2>1. \A q \in Runs : q # r => worker'[q] = worker[q]
    BY <1>5, WorkerPlaces
  <2>2. worker'[r].pc # "none"
    <3>1. CASE CheckCancel(r) \/ SetMode(r) \/ SetModeJoined(r) \/ StartScan(r) \/ Deliver(r) \/ Fail(r)
      BY <3>1 DEF CheckCancel, SetMode, SetModeJoined, StartScan, Deliver, Fail, WorkerAt, ServiceTypes,
         WorkerTypes, WorkerRecord
    <3>2. CASE Wait(r) \/ Collect(r) \/ Reset(r)
      BY <3>2 DEF Wait, Collect, Reset, NoWorker, ServiceTypes, WorkerTypes, WorkerRecord
    <3> QED
      BY <1>5, <3>1, <3>2 DEF Worker
  <2> QED
    BY <1>1, <2>1, <2>2
<1> QED
  BY <1>2, <1>3, <1>4, <1>5 DEF Next, User

(* While a run is alone no other worker is on, the scan thread that is      *)
(* alive is its own, and every end in the queue is its own.                 *)
LEMMA AloneOthers ==
  ASSUME ServiceTypes, WorkersInv, ToldInv, MixedInv, NEW r \in Runs, Alone(r)
  PROVE  /\ \A q \in Runs : q # r => worker[q].pc \in {"none", "reset", "dead"}
         /\ \A t \in Threads : Alive(t) =>
              /\ t[1] = r /\ worker[r].pc = "wait" /\ t = <<r, worker[r].mode>>
              /\ worker[r].on \in {<<>>, t}
         /\ \A i \in 1..Len(queue) : Tells(i) => queue[i].run = r
<1>1. ASSUME NEW q \in Runs, q # r PROVE q \in told \/ worker[q].pc = "none"
  <2>1. q > runs \/ q \in 1..runs
    BY Numbers DEF ServiceTypes, HistTypes, Runs
  <2> QED
    BY <1>1, <2>1 DEF WorkersInv, MixedInv, Alone
<1>2. \A q \in Runs : q # r => worker[q].pc \in {"none", "reset", "dead"}
  BY <1>1 DEF ToldInv
<1>3. ASSUME NEW t \in Threads, Alive(t)
      PROVE  /\ t[1] = r /\ worker[r].pc = "wait" /\ t = <<r, worker[r].mode>>
             /\ worker[r].on \in {<<>>, t}
  <2>1. /\ worker[t[1]].pc = "wait" /\ worker[t[1]].mode = t[2] /\ worker[t[1]].on \in {<<>>, t}
        /\ t[1] \in Runs /\ t = <<t[1], t[2]>>
    BY <1>3, ThreadPairs DEF WorkersInv
  <2>2. t[1] = r
    BY <1>2, <2>1
  <2> QED
    BY <2>1, <2>2
<1>4. ASSUME NEW i \in 1..Len(queue), Tells(i) PROVE queue[i].run = r
  <2>1. queue[i] \in Callbacks
    BY <1>4, ElementOfSeq DEF ServiceTypes, UiTypes
  <2>2. queue[i].run \in Runs /\ queue[i].run \notin told /\ worker[queue[i].run].pc \in {"reset", "dead"}
    BY <1>4, <2>1, CallbackKinds DEF Tells, ToldInv
  <2> QED
    BY <1>1, <2>2
<1> QED
  BY <1>2, <1>3, <1>4

(* What a lone run stands on does not change.                               *)
LEMMA LoneStays ==
  ASSUME NEW r \in Runs, LoneRun(r), UNCHANGED <<active, current, thread, engine>>,
         worker'[r] = worker[r],
         ~ui'.cancelled => ~ui.cancelled /\ session' = session /\ cancel' = cancel,
         r \notin failed' => r \notin failed
  PROVE  LoneRun(r)'
<1>1. LoneSession(r)'
  BY DEF LoneRun, LoneSession
<1>2. LoneScans(r)'
  BY DEF LoneRun, LoneScans
<1>3. LoneWhole(r)'
  BY DEF LoneRun, LoneWhole
<1> QED
  BY <1>1, <1>2, <1>3 DEF LoneRun

(* Steps of the worker of a lone run, each with what it leaves of the run.  *)
LEMMA LoneWorker ==
  ASSUME ServiceTypes, WorkersInv, ToldInv, MixedInv, NEW r \in Runs, Alone(r), LoneRun(r), Worker(r)
  PROVE  LoneRun(r)'
<1>1. /\ \A t \in Threads : Alive(t) =>
           worker[r].pc = "wait" /\ t = <<r, worker[r].mode>> /\ worker[r].on \in {<<>>, t}
      /\ r # 0 /\ r \in Nat
  BY AloneOthers, Numbers
<1>2. UNCHANGED <<ui, session, failed>> /\ cancel' = cancel
  <2>1. UNCHANGED <<ui, session, failed>>
    BY WorkerPlaces
  <2>2. cancel' = cancel
    BY DEF Worker, CheckCancel, SetMode, SetModeJoined, StartScan, Wait, Collect, Deliver, Fail, Reset,
       svcVars
  <2> QED
    BY <2>1, <2>2
<1>3. LoneSession(r)'
  BY <1>2 DEF LoneRun, LoneSession
<1>4. /\ worker[r] \in WorkerRecord /\ worker[r].mode \in 1..(Modes + 1)
      /\ ModesOf[r] \in Nat /\ worker[r].mode \in Nat
  BY Numbers DEF ServiceTypes, WorkerTypes, WorkerRecord, Engines
<1>5. worker[r].pc # "wait" => ~CurrentAlive
  BY <1>1 DEF CurrentAlive
<1>6. worker[r].pc \in {"setMode", "join", "start", "wait", "collect"} => worker[r].mode <= ModesOf[r]
  BY DEF WorkersInv
<1>7. CASE CheckCancel(r)
  <2>1. /\ worker[r].pc = "check" /\ worker'[r].mode = worker[r].mode /\ worker'[r].got = worker[r].got
        /\ worker'[r].pc = IF cancel \/ worker[r].mode > ModesOf[r] THEN "deliver" ELSE "setMode"
    BY <1>4, <1>7 DEF CheckCancel, WorkerAt, ServiceTypes, WorkerTypes, WorkerRecord
  <2>2. LoneScans(r)'
    BY <2>1 DEF LoneRun, LoneScans
  <2>3. LoneWhole(r)'
    <3> SUFFICES ASSUME ~ui.cancelled, r \notin failed, worker'[r].pc = "deliver"
                 PROVE  Scanned(worker[r].got) = 1..ModesOf[r]
      BY <1>2, <2>1 DEF LoneRun, LoneWhole
    <3>1. Scanned(worker[r].got) = 1..(worker[r].mode - 1) /\ worker[r].mode <= ModesOf[r] + 1 /\ ~cancel
      BY <2>1 DEF LoneRun, LoneWhole, LoneSession
    <3>2. worker[r].mode - 1 = ModesOf[r]
      BY <1>4, <2>1, <3>1
    <3> QED
      BY <3>1, <3>2
  <2> QED
    BY <1>3, <2>2, <2>3 DEF LoneRun
<1>8. CASE SetMode(r)
  <2>1. /\ worker[r].pc = "setMode" /\ worker'[r].mode = worker[r].mode
        /\ worker'[r].got = worker[r].got /\ worker'[r].pc = "start" /\ active' = worker[r].mode
    BY <1>4, <1>5, <1>8 DEF SetMode, WorkerAt, ServiceTypes, WorkerTypes, WorkerRecord
  <2>2. LoneScans(r)'
    BY <2>1 DEF LoneRun, LoneScans
  <2>3. LoneWhole(r)'
    BY <1>2, <2>1 DEF LoneRun, LoneWhole
  <2> QED
    BY <1>3, <2>2, <2>3 DEF LoneRun
<1>9. CASE SetModeJoined(r) \/ Fail(r)
  BY <1>9 DEF SetModeJoined, Fail, WorkerAt, LoneRun, LoneScans
<1>10. CASE StartScan(r)
  <2> DEFINE t == <<r, worker[r].mode>>
  <2>1. /\ worker[r].pc = "start" /\ worker'[r].mode = worker[r].mode
        /\ worker'[r].got = worker[r].got /\ worker'[r].pc = "wait" /\ active' = active
        /\ current' = t /\ thread' = [thread EXCEPT ![t].pc = "spawned"]
    BY <1>4, <1>5, <1>10 DEF StartScan, WorkerAt, ServiceTypes, WorkerTypes, WorkerRecord
  <2>2. worker[r].mode \in Engines
    BY <1>4, <1>6, <2>1, Numbers DEF Engines
  <2>3. thread'[t].pc = "spawned"
    BY <2>1, <2>2, ThreadPairs DEF ServiceTypes, OrchTypes, ThreadRecord
  <2>4. LoneScans(r)'
    BY <2>1, <2>3 DEF LoneRun, LoneScans
  <2>5. LoneWhole(r)'
    BY <1>2, <2>1, <2>3 DEF LoneRun, LoneWhole
  <2> QED
    BY <1>3, <2>4, <2>5 DEF LoneRun
<1>11. CASE Wait(r)
  <2>1. /\ worker[r].pc = "wait" /\ worker'[r].mode = worker[r].mode /\ worker'[r].got = worker[r].got
        /\ UNCHANGED <<active, current, thread, engine>>
        /\ \/ worker'[r].pc = "wait"
           \/ worker'[r].pc = "collect" /\ worker[r].on # <<>> /\ ~Alive(worker[r].on)
    BY <1>4, <1>11 DEF Wait, orchVars, ServiceTypes, WorkerTypes, WorkerRecord
  <2>2. CASE worker'[r].pc = "wait"
    <3>1. LoneScans(r)'
      BY <2>1, <2>2 DEF LoneRun, LoneScans
    <3>2. LoneWhole(r)'
      BY <1>2, <2>1, <2>2 DEF LoneRun, LoneWhole
    <3> QED
      BY <1>3, <3>1, <3>2 DEF LoneRun
  <2>3. CASE worker'[r].pc = "collect" /\ worker[r].on # <<>> /\ ~Alive(worker[r].on)
    <3> DEFINE t == <<r, worker[r].mode>>
    <3>1. t \in Threads
      BY <1>4, <1>6, <2>1, ThreadPairs, Numbers DEF Engines
    <3>2. ~Alive(t)
      BY <1>1, <2>3, <3>1
    <3>3. thread[t].pc = "dead"
      BY <2>1, <3>2 DEF Alive, LoneRun, LoneScans
    <3>4. LoneScans(r)'
      BY <2>1, <2>3, <3>3 DEF LoneRun, LoneScans
    <3>5. LoneWhole(r)'
      BY <1>2, <2>1, <2>3, <3>3 DEF LoneRun, LoneWhole
    <3> QED
      BY <1>3, <3>4, <3>5 DEF LoneRun
  <2> QED
    BY <2>1, <2>2, <2>3
<1>12. CASE Collect(r)
  <2> DEFINE g == [engine |-> active, run |-> engine[active].results]
  <2>1. /\ worker[r].pc = "collect" /\ worker'[r].mode = worker[r].mode + 1
        /\ worker'[r].got = worker[r].got \cup {g} /\ worker'[r].pc = "check"
    BY <1>4, <1>12 DEF Collect, ServiceTypes, WorkerTypes, WorkerRecord
  <2>2. active = worker[r].mode /\ engine[active].results \in {0, r}
        /\ \A h \in worker[r].got : h.run \in {0, r}
    BY <2>1 DEF LoneRun, LoneScans
  <2>3. \A h \in worker'[r].got : h.run \in {0, r}
    BY <2>1, <2>2
  <2>4. LoneScans(r)'
    BY <2>1, <2>3 DEF LoneScans
  <2>5. LoneWhole(r)'
    <3> SUFFICES ASSUME ~ui.cancelled, r \notin failed
                 PROVE  /\ Scanned(worker'[r].got) = 1..(worker'[r].mode - 1)
                        /\ worker'[r].mode <= ModesOf[r] + 1
      BY <1>2, <2>1 DEF LoneWhole
    <3>1. Scanned(worker[r].got) = 1..(worker[r].mode - 1) /\ engine[worker[r].mode].results = r
      BY <2>1 DEF LoneRun, LoneWhole
    <3>2. g.run = r /\ g.engine = worker[r].mode /\ r # 0
      BY <1>1, <2>2, <3>1
    <3>3. Scanned(worker'[r].got) = Scanned(worker[r].got) \cup {worker[r].mode}
      <4> HIDE DEF g
      <4> QED
        BY <2>1, <3>2 DEF Scanned
    <3>4. 1..(worker[r].mode - 1) \cup {worker[r].mode} = 1..(worker[r].mode + 1 - 1)
      BY <1>4
    <3>5. worker'[r].mode <= ModesOf[r] + 1
      BY <1>4, <1>6, <2>1
    <3>6. worker'[r].mode - 1 = worker[r].mode + 1 - 1
      <4> HIDE DEF g
      <4>1. worker'[r].mode = worker[r].mode + 1
        BY <2>1
      <4> QED
        BY <1>4, <4>1
    <3>7. Scanned(worker'[r].got) = 1..(worker[r].mode + 1 - 1)
      BY <3>1, <3>3, <3>4
    <3> QED
      BY <3>5, <3>6, <3>7
  <2> QED
    BY <1>3, <2>4, <2>5 DEF LoneRun
<1>13. CASE Deliver(r)
  <2>1. /\ worker'[r].got = worker[r].got /\ worker'[r].pc = "reset"
    BY <1>4, <1>13 DEF Deliver, WorkerAt, ServiceTypes, WorkerTypes, WorkerRecord
  <2>2. LoneScans(r)'
    BY <2>1 DEF LoneRun, LoneScans
  <2>3. LoneWhole(r)'
    BY <2>1 DEF LoneWhole
  <2> QED
    BY <1>3, <2>2, <2>3 DEF LoneRun
<1>14. CASE Reset(r)
  <2>1. worker'[r].got = {} /\ worker'[r].pc = "dead"
    BY <1>14 DEF Reset, NoWorker, ServiceTypes, WorkerTypes
  <2>2. LoneScans(r)'
    BY <2>1 DEF LoneScans
  <2>3. LoneWhole(r)'
    BY <2>1 DEF LoneWhole
  <2> QED
    BY <1>3, <2>2, <2>3 DEF LoneRun
<1> QED
  BY <1>7, <1>8, <1>9, <1>10, <1>11, <1>12, <1>13, <1>14 DEF Worker

(* Steps of a scan thread: only the lone run's own is alive.                *)
LEMMA LoneThread ==
  ASSUME ServiceTypes, WorkersInv, ToldInv, MixedInv, NEW r \in Runs, Alone(r), LoneRun(r),
         NEW t \in Threads, ScanThread(t)
  PROVE  LoneRun(r)'
<1>1. Alive(t) /\ UNCHANGED <<worker, active, current, ui, session>> /\ cancel' = cancel
  BY DEF ScanThread, ThreadStart, ThreadEnd, ThreadEmit, ThreadUnscan, ThreadExit, Alive, uiVars, svcVars
<1>2. t[1] = r /\ worker[r].pc = "wait" /\ t = <<r, worker[r].mode>> /\ worker[r].mode \in Engines
  BY <1>1, AloneOthers, ThreadPairs
<1>3. /\ \A x \in Threads : x # t => thread'[x] = thread[x]
      /\ active = worker[r].mode /\ current = t /\ thread[t].pc # "none"
      /\ engine[worker[r].mode] \in EngineRecord /\ thread[t] \in ThreadRecord
  BY <1>2 DEF LoneRun, LoneScans, ScanThread, ThreadStart, ThreadEnd, ThreadEmit, ThreadUnscan, ThreadExit,
     ServiceTypes, OrchTypes
<1>4. LoneSession(r)'
  BY <1>1 DEF LoneRun, LoneSession
<1>5. \A g \in worker[r].got : g.run \in {0, r}
  BY DEF LoneRun, LoneScans
<1>6. CASE ThreadStart(t)
  <2>1. /\ thread'[t].pc = "running" /\ thread'[t].engine = worker[r].mode
        /\ engine'[worker[r].mode].results = 0 /\ ~engine'[worker[r].mode].cancel /\ failed' = failed
    BY <1>2, <1>3, <1>6 DEF ThreadStart, histVars, ServiceTypes, OrchTypes, ThreadRecord
  <2>2. LoneScans(r)'
    BY <1>1, <1>2, <1>3, <1>5, <2>1 DEF LoneScans
  <2>3. LoneWhole(r)'
    BY <1>1, <1>2, <2>1 DEF LoneRun, LoneWhole
  <2> QED
    BY <1>4, <2>2, <2>3 DEF LoneRun
<1>7. CASE ThreadEnd(t)
  <2>1. /\ thread[t].engine = worker[r].mode /\ thread[t].pc = "running"
        /\ engine[worker[r].mode].results \in {0, r}
        /\ ~ui.cancelled /\ r \notin failed => ~engine[worker[r].mode].cancel
    BY <1>2, <1>7 DEF ThreadEnd, LoneRun, LoneScans, LoneWhole
  <2>2. PICK o \in Outcomes :
          /\ o \in {IF engine[thread[t].engine].cancel THEN "cancelled" ELSE "completed", "error"}
          /\ thread' = [thread EXCEPT ![t].pc = "emit", ![t].outcome = o]
          /\ engine' = IF o = "completed" THEN [engine EXCEPT ![thread[t].engine].results = t[1]]
                       ELSE engine
          /\ failed' = IF o = "error" THEN failed \cup {t[1]} ELSE failed
    BY <1>7 DEF ThreadEnd
  <2>3. thread'[t].pc = "emit"
    BY <1>3, <2>2 DEF ServiceTypes, OrchTypes, ThreadRecord
  <2>4. /\ engine'[worker[r].mode].results \in {0, r}
        /\ o = "completed" => engine'[worker[r].mode].results = r
    BY <1>2, <1>3, <2>1, <2>2 DEF ServiceTypes, OrchTypes, EngineRecord
  <2>5. ~ui.cancelled /\ r \notin failed' => engine'[worker[r].mode].results = r
    BY <1>2, <2>1, <2>2, <2>4
  <2>6. LoneScans(r)'
    BY <1>1, <1>2, <1>3, <1>5, <2>3, <2>4 DEF LoneScans
  <2>7. LoneWhole(r)'
    <3>1. ~ui.cancelled /\ r \notin failed' => Scanned(worker[r].got) = 1..(worker[r].mode - 1)
      BY <1>2, <2>2 DEF LoneRun, LoneWhole
    <3> QED
      BY <1>1, <1>2, <2>3, <2>5, <3>1 DEF LoneWhole
  <2> QED
    BY <1>4, <2>6, <2>7 DEF LoneRun
<1>8. CASE ThreadEmit(t) \/ ThreadUnscan(t) \/ ThreadExit(t)
  <2>1. /\ thread[t].pc \in {"emit", "unscan", "exit"} /\ thread'[t].pc \in {"unscan", "exit", "dead"}
        /\ UNCHANGED <<engine, failed>>
    BY <1>3, <1>8 DEF ThreadEmit, ThreadUnscan, ThreadExit, NoThread, histVars, ServiceTypes, OrchTypes,
       ThreadRecord
  <2>2. engine[worker[r].mode].results \in {0, r}
    BY <1>2, <2>1 DEF LoneRun, LoneScans
  <2>3. LoneScans(r)'
    BY <1>1, <1>2, <1>3, <1>5, <2>1, <2>2 DEF LoneScans
  <2>4. LoneWhole(r)'
    BY <1>1, <1>2, <2>1 DEF LoneRun, LoneWhole
  <2> QED
    BY <1>4, <2>3, <2>4 DEF LoneRun
<1> QED
  BY <1>6, <1>7, <1>8 DEF ScanThread

(* A cancel and a failure are not taken back while a run is on.             *)
LEMMA OthersForgetNothing ==
  ASSUME ServiceTypes, Next, ~BeginScan
  PROVE  /\ ui.cancelled => ui'.cancelled
         /\ failed \subseteq failed'
         /\ \A r : Alone(r)' => Alone(r)
<1>1. \A r : Alone(r)' => Alone(r)
  BY OthersLeaveRuns DEF Alone
<1>2. CASE StopScan \/ KeepScanning \/ ConfirmCancel \/ GoHome
          \/ OpenPartialResults \/ OpenWorkspace \/ ShowHome \/ UiThread
  <2>1. failed' = failed
    BY <1>2 DEF StopScan, KeepScanning, ConfirmCancel, GoHome, OpenPartialResults, OpenWorkspace, ShowHome,
       UiThread, ForwardCancel,
       UiCancelled, UiCompleteCancelled, UiComplete, UiError, histVars
  <2>2. ASSUME ConfirmCancel \/ UiCompleteCancelled \/ UiComplete PROVE ui.cancelled => ui'.cancelled
    BY <2>2 DEF ConfirmCancel, UiCompleteCancelled, UiComplete, ServiceTypes, UiTypes, UiFlags
  <2>3. ASSUME GoHome \/ OpenPartialResults \/ ShowHome \/ ForwardCancel \/ UiCancelled \/ UiError
        PROVE  ui.cancelled => ui'.cancelled
    BY <2>3 DEF GoHome, OpenPartialResults, ShowHome, ForwardCancel, UiCancelled, UiError, ServiceTypes,
       UiTypes, UiFlags
  <2>4. ASSUME StopScan \/ KeepScanning \/ OpenWorkspace PROVE ui.cancelled => ui'.cancelled
    BY <2>4 DEF StopScan, KeepScanning, OpenWorkspace, ServiceTypes, UiTypes, UiFlags
  <2> QED
    BY <1>1, <1>2, <2>1, <2>2, <2>3, <2>4 DEF UiThread
<1>3. ASSUME NEW r \in Runs, Worker(r) PROVE ui' = ui /\ failed' = failed
  BY <1>3, WorkerPlaces
<1>4. ASSUME NEW t \in Threads, ScanThread(t) PROVE ui' = ui /\ failed \subseteq failed'
  BY <1>4 DEF ScanThread, ThreadStart, ThreadEnd, ThreadEmit, ThreadUnscan, ThreadExit, uiVars, histVars
<1> QED
  BY <1>1, <1>2, <1>3, <1>4 DEF Next, User

LEMMA LoneBegins ==
  ASSUME ServiceTypes, WorkersInv, ToldInv, FreshInv, BeginScan
  PROVE  LoneInv'
<1>1. runs \in Nat /\ runs' = runs + 1 /\ runs + 1 \in Runs /\ queue' = queue /\ ~ui'.cancelled
  BY Numbers DEF BeginScan, Runs, ServiceTypes, HistTypes, UiTypes, UiFlags
<1>2. worker[runs + 1] = NoWorker("none")
  BY <1>1 DEF WorkersInv, FreshInv
<1>3. ASSUME NEW r \in Runs, Alone(r)' PROVE LoneRun(r)'
  <2>1. r = runs + 1 /\ r \in Nat
    BY <1>1, <1>3, Numbers DEF Alone
  <2>2. ~scanning
    BY <1>3, <2>1 DEF BeginScan, Alone
  <2>3. session' = r /\ ~cancel' /\ worker' = [worker EXCEPT ![r].pc = "check"]
    BY <2>1, <2>2 DEF BeginScan
  <2>4. worker'[r].pc = "check" /\ worker'[r].mode = 1 /\ worker'[r].got = {}
    BY <1>1, <1>2, <2>1, <2>3 DEF NoWorker, ServiceTypes, WorkerTypes
  <2>5. LoneSession(r)'
    BY <2>3 DEF LoneSession
  <2>6. LoneScans(r)'
    BY <2>4 DEF LoneScans
  <2>7. LoneWhole(r)'
    <3>1. Scanned({}) = 1..(1 - 1)
      <4>1. 1..(1 - 1) = {}
        OBVIOUS
      <4> QED
        BY <4>1 DEF Scanned
    <3>2. 1 <= ModesOf[r] + 1
      BY Numbers DEF Engines
    <3> QED
      BY <2>4, <3>1, <3>2 DEF LoneWhole
  <2> QED
    BY <2>5, <2>6, <2>7 DEF LoneRun
<1>4. ASSUME NEW i \in 1..Len(queue'), queue'[i].kind = "complete" PROVE queue'[i].run # runs'
  <2>1. Tells(i) /\ i \in 1..Len(queue) /\ queue'[i] = queue[i]
    BY <1>1, <1>4 DEF Tells
  <2>2. worker[queue[i].run].pc \in {"reset", "dead"}
    BY <2>1 DEF ToldInv
  <2>3. queue[i].run # runs + 1
    BY <1>2, <2>2 DEF NoWorker
  <2> QED
    BY <1>1, <2>1, <2>3
<1>5. ASSUME NEW i \in 1..Len(queue') PROVE LoneResult(i)'
  BY <1>4 DEF LoneResult, Alone
<1> QED
  BY <1>3, <1>5 DEF LoneInv

LEMMA LoneKept ==
  ASSUME ServiceTypes, WorkersInv, ToldInv, MixedInv, WindowInv, LoneInv, Next, ~BeginScan
  PROVE  LoneInv'
<1>1. /\ ui.cancelled => ui'.cancelled
      /\ failed \subseteq failed'
      /\ \A r : Alone(r)' => Alone(r)
  BY OthersForgetNothing
<1>2. ASSUME NEW r \in Runs, Alone(r)' PROVE LoneRun(r)'
  <2>1. Alone(r) /\ LoneRun(r) /\ r \notin told'
    BY <1>1, <1>2 DEF LoneInv, Alone
  <2>2. CASE ConfirmCancel \/ GoHome \/ OpenPartialResults
    <3>1. /\ ui'.cancelled /\ worker' = worker
          /\ UNCHANGED <<active, current, thread, engine, failed>>
      BY <2>2 DEF ConfirmCancel, GoHome, OpenPartialResults, WindowInv, orchVars, histVars, ServiceTypes,
         UiTypes, UiFlags
    <3> QED
      BY <2>1, <3>1, LoneStays
  <2>3. CASE StopScan \/ KeepScanning \/ ShowHome \/ UiCancelled \/ UiCompleteCancelled
    <3>1. /\ UNCHANGED <<worker, active, current, thread, engine, failed, session>> /\ cancel' = cancel
      BY <2>3 DEF StopScan, KeepScanning, ShowHome, UiCancelled, UiCompleteCancelled, orchVars, histVars,
         svcVars
    <3> QED
      BY <1>1, <2>1, <3>1, LoneStays
  <2>8. CASE OpenWorkspace
    <3>1. r \in Open /\ r \notin mixed'
      BY <1>2, <2>1, Numbers DEF Alone, Open, Runs
    <3>2. /\ UNCHANGED <<worker, active, current, thread, engine, failed, session>> /\ cancel' = cancel
      BY <2>8, <3>1 DEF OpenWorkspace, orchVars, svcVars
    <3> QED
      BY <1>1, <2>1, <3>2, LoneStays
  <2>4. CASE ForwardCancel
    <3>1. /\ UNCHANGED <<worker, active, current, thread>> /\ ui'.cancelled
          /\ engine' = [engine EXCEPT ![active].cancel = TRUE]
      BY <2>4 DEF ForwardCancel, WindowInv, ServiceTypes, UiTypes, UiFlags
    <3>2. \A m : m \in Engines => engine'[m].results = engine[m].results
      BY <3>1 DEF ServiceTypes, OrchTypes, EngineRecord
    <3>3. LoneScans(r)'
      <4>1. worker[r].pc \in {"wait", "collect"} => worker[r].mode \in Engines
        <5>1. worker[r].pc \in {"wait", "collect"} => worker[r].mode <= ModesOf[r]
          BY DEF WorkersInv
        <5>2. worker[r].mode \in 1..(Modes + 1)
          BY WorkerMoves DEF ServiceTypes
        <5> QED
          BY <5>1, <5>2, Numbers DEF Engines
      <4> QED
        BY <2>1, <3>1, <3>2, <4>1 DEF LoneRun, LoneScans
    <3>4. LoneSession(r)' /\ LoneWhole(r)'
      BY <3>1 DEF LoneSession, LoneWhole
    <3> QED
      BY <3>3, <3>4 DEF LoneRun
  <2>5. ~UiComplete /\ ~UiError
    <3> SUFFICES ASSUME UiComplete \/ UiError PROVE FALSE
      OBVIOUS
    <3>1. queue # <<>> /\ Head(queue).kind \in {"complete", "error"} /\ Head(queue).run \in told'
      BY DEF UiComplete, UiError, Event
    <3>2. Head(queue) = queue[1] /\ 1 \in 1..Len(queue)
      BY <3>1, Taken DEF ServiceTypes, UiTypes
    <3>3. Tells(1)
      BY <3>1, <3>2 DEF Tells
    <3>4. queue[1].run = r
      BY <2>1, <3>2, <3>3, AloneOthers
    <3> QED
      BY <2>1, <3>1, <3>2, <3>4
  <2>6. ASSUME NEW q \in Runs, Worker(q) PROVE LoneRun(r)'
    <3>1. CASE q = r
      BY <2>1, <2>6, <3>1, LoneWorker
    <3>2. CASE q # r
      <4>1. worker[q].pc \in {"none", "reset", "dead"}
        BY <2>1, <3>2, AloneOthers
      <4>2. Reset(q)
        BY <2>6, <4>1 DEF Worker, CheckCancel, SetMode, SetModeJoined, StartScan, Wait, Collect, Deliver,
           Fail, WorkerAt
      <4>3. /\ UNCHANGED <<active, current, thread, engine, failed, session, ui>> /\ cancel' = cancel
            /\ worker'[r] = worker[r]
        BY <3>2, <4>2 DEF Reset, orchVars, uiVars, histVars, ServiceTypes, WorkerTypes
      <4> QED
        BY <2>1, <4>3, LoneStays
    <3> QED
      BY <3>1, <3>2
  <2>7. ASSUME NEW t \in Threads, ScanThread(t) PROVE LoneRun(r)'
    BY <2>1, <2>7, LoneThread
  <2> QED
    BY <2>2, <2>3, <2>4, <2>5, <2>6, <2>7, <2>8 DEF Next, User, UiThread
<1>3. ASSUME NEW i \in 1..Len(queue), NEW j, queue'[j] = queue[i] PROVE LoneResult(j)'
  BY <1>1, <1>3 DEF LoneInv, LoneResult
<1>4. CASE queue' = queue
  BY <1>2, <1>3, <1>4 DEF LoneInv
<1>5. CASE queue # <<>> /\ queue' = Tail(queue)
  <2>1. \A j \in 1..Len(queue') : j + 1 \in 1..Len(queue) /\ queue'[j] = queue[j + 1]
    BY <1>5, Taken DEF ServiceTypes, UiTypes
  <2> QED
    BY <1>2, <1>3, <2>1 DEF LoneInv
<1>6. ASSUME NEW c \in Callbacks, queue' = Append(queue, c),
             NEW n, n = Len(queue) + 1, LoneResult(n)'
      PROVE  LoneInv'
  <2>1. /\ Len(queue) \in Nat /\ Len(queue') = Len(queue) + 1
        /\ \A j \in 1..Len(queue) : queue'[j] = queue[j]
    BY <1>6, PutLast DEF ServiceTypes, UiTypes
  <2>2. ASSUME NEW j \in 1..Len(queue') PROVE LoneResult(j)'
    <3>1. j \in 1..Len(queue) \/ j = n
      BY <1>6, <2>1
    <3>2. CASE j \in 1..Len(queue)
      BY <1>3, <2>1, <3>2
    <3>3. CASE j = n
      BY <1>6, <3>3
    <3> QED
      BY <3>1, <3>2, <3>3
  <2> QED
    BY <1>2, <2>2 DEF LoneInv
<1>7. ASSUME NEW c \in Callbacks, queue' = Append(queue, c), c.kind # "complete"
      PROVE  LoneInv'
  <2> DEFINE n == Len(queue) + 1
  <2>1. queue'[n] = c
    BY <1>7, PutLast DEF ServiceTypes, UiTypes
  <2>2. PICK k : k = n
    OBVIOUS
  <2>3. LoneResult(k)'
    BY <1>7, <2>1, <2>2 DEF LoneResult
  <2> QED
    BY <1>6, <1>7, <2>2, <2>3
<1>8. CASE ForwardCancel \/ User
  <2>1. queue' = queue
    BY <1>8 DEF ForwardCancel, User, BeginScan, StopScan, KeepScanning, ConfirmCancel, GoHome,
       OpenPartialResults, OpenWorkspace, ShowHome
  <2> QED
    BY <1>4, <2>1
<1>9. CASE UiCancelled \/ UiCompleteCancelled \/ UiComplete \/ UiError
  BY <1>5, <1>9 DEF UiCancelled, UiCompleteCancelled, UiComplete, UiError, Event
<1>10. ASSUME NEW t \in Threads, ScanThread(t) PROVE LoneInv'
  <2>1. CASE queue' = Append(queue, [kind |-> "cancelled"])
    <3> DEFINE c == [kind |-> "cancelled"]
    <3>1. c \in Callbacks /\ c.kind # "complete"
      BY DEF Callbacks, Asks
    <3> HIDE DEF c
    <3>2. queue' = Append(queue, c)
      BY <2>1 DEF c
    <3> QED
      BY <1>7, <3>1, <3>2
  <2>2. queue' = queue \/ queue' = Append(queue, [kind |-> "cancelled"])
    BY <1>10 DEF ScanThread, ThreadStart, ThreadEnd, ThreadEmit, ThreadUnscan, ThreadExit, uiVars
  <2> QED
    BY <1>4, <2>1, <2>2
<1>11. ASSUME NEW r \in Runs, Worker(r) PROVE LoneInv'
  <2>1. CASE Deliver(r)
    <3> DEFINE c == [kind |-> "complete", run |-> r, results |-> {g \in worker[r].got : g.run # 0}]
               n == Len(queue) + 1
    <3>1. c \in Callbacks
      BY WorkerMoves DEF Callbacks, Completes, ServiceTypes
    <3>2. /\ queue' = Append(queue, c) /\ worker[r].pc = "deliver"
          /\ UNCHANGED <<ui, failed, told, runs, mixed>>
      BY <2>1 DEF Deliver, WorkerAt, histVars
    <3>3. queue'[n] = c
      BY <3>1, <3>2, PutLast DEF ServiceTypes, UiTypes
    <3>4. /\ c.kind = "complete" /\ c.run = r
          /\ \A g \in c.results : g \in worker[r].got /\ g.run # 0
          /\ {g.engine : g \in c.results} = Scanned(worker[r].got)
      BY DEF Scanned
    <3>5. Alone(r) => /\ \A g \in c.results : g.run = r
                      /\ ~ui.cancelled /\ r \notin failed =>
                           {g.engine : g \in c.results} = 1..ModesOf[r]
      <4> HIDE DEF c
      <4>1. Alone(r) => /\ \A g \in worker[r].got : g.run \in {0, r}
                        /\ ~ui.cancelled /\ r \notin failed => Scanned(worker[r].got) = 1..ModesOf[r]
        BY <3>2 DEF LoneInv, LoneRun, LoneScans, LoneWhole
      <4> QED
        BY <3>4, <4>1
    <3>6. Alone(r)' => Alone(r)
      BY <1>1
    <3>7. PICK k : k = n
      OBVIOUS
    <3> HIDE DEF c
    <3>8. LoneResult(k)'
      BY <3>2, <3>3, <3>4, <3>5, <3>6, <3>7 DEF LoneResult, Alone
    <3> QED
      BY <1>6, <3>1, <3>2, <3>7, <3>8
  <2>2. CASE Fail(r)
    <3> DEFINE c == [kind |-> "error", run |-> r]
    <3>1. c \in Callbacks /\ c.kind # "complete"
      BY DEF Callbacks, Errors
    <3>2. queue' = Append(queue, c)
      BY <2>2 DEF Fail
    <3> HIDE DEF c
    <3> QED
      BY <1>7, <3>1, <3>2
  <2>3. CASE \/ CheckCancel(r) \/ SetMode(r) \/ SetModeJoined(r) \/ StartScan(r) \/ Wait(r)
             \/ Collect(r) \/ Reset(r)
    <3>1. queue' = queue
      BY <2>3 DEF CheckCancel, SetMode, SetModeJoined, StartScan, Wait, Collect, Reset, uiVars
    <3> QED
      BY <1>4, <3>1
  <2> QED
    BY <1>11, <2>1, <2>2, <2>3 DEF Worker
<1> QED
  BY <1>8, <1>9, <1>10, <1>11 DEF Next, UiThread

------------------------------------------------------------------------------
(* The rows of the history.                                                 *)

\* Steps that record no scan and take nothing back.
LEMMA RowsStay ==
  ASSUME RowsInv, told \subseteq told', mixed \subseteq mixed', asked' = asked, failed \subseteq failed',
         \A row \in rows' : row.kind = "scan" => row \in rows
  PROVE  RowsInv'
BY DEF RowsInv, RowOfRun

LEMMA RowsKept ==
  ASSUME ServiceTypes, WorkersInv, ToldInv, MixedInv, WindowInv, LoneInv, RowsInv, Next
  PROVE  RowsInv'
<1>1. CASE BeginScan
  <2>1. /\ UNCHANGED <<rows, asked, failed>> /\ told \subseteq told' /\ mixed \subseteq mixed'
    <3>1. IF scanning THEN told' = told \cup {runs + 1} ELSE told' = told
      BY <1>1 DEF BeginScan
    <3> QED
      BY <1>1, <3>1 DEF BeginScan
  <2> QED
    BY <2>1, RowsStay
<1>2. CASE ConfirmCancel
  <2>1. UNCHANGED <<rows, told, failed, mixed>> /\ asked' = asked \cup ({runs} \ told)
    BY <1>2 DEF ConfirmCancel
  <2> QED
    BY <2>1 DEF RowsInv, RowOfRun
<1>3. CASE StopScan \/ KeepScanning \/ GoHome \/ ShowHome \/ ForwardCancel \/ UiCancelled
           \/ UiCompleteCancelled \/ UiError
  <2>1. UNCHANGED <<asked, mixed, failed, rows>> /\ told \subseteq told'
    BY <1>3 DEF StopScan, KeepScanning, GoHome, ShowHome, ForwardCancel, UiCancelled, UiCompleteCancelled,
       UiError, histVars
  <2> QED
    BY <2>1, RowsStay
<1>4. CASE OpenPartialResults \/ OpenWorkspace
  <2>1. UNCHANGED <<told, asked, failed>> /\ mixed \subseteq mixed'
    BY <1>4 DEF OpenPartialResults, OpenWorkspace, histVars
  <2>2. \A row \in rows' : row.kind = "scan" => row \in rows
    BY <1>4 DEF OpenPartialResults, OpenWorkspace, Dispatch
  <2> QED
    BY <2>1, <2>2, RowsStay
<1>5. CASE UiComplete
  <2> DEFINE c == Head(queue)
             new == [kind |-> "scan", session |-> session, run |-> c.run, results |-> c.results]
  <2>1. /\ queue # <<>> /\ c.kind = "complete" /\ ~ui.cancelled /\ told' = told \cup {c.run}
        /\ rows' = rows \cup {new} /\ UNCHANGED <<asked, mixed, failed>>
    BY <1>5 DEF UiComplete, Dispatch, Event
  <2>2. c = queue[1] /\ 1 \in 1..Len(queue) /\ c.run \in Runs
    BY <2>1, Taken, CallbackKinds DEF ServiceTypes, UiTypes
  <2>3. c.run \notin told /\ worker[c.run].pc \in {"reset", "dead"}
    BY <2>1, <2>2 DEF ToldInv, Tells
  <2>4. c.run \in 1..runs
    BY <2>2, <2>3, Numbers DEF WorkersInv, ServiceTypes, HistTypes, Runs
  <2>5. c.run \notin mixed => Alone(c.run)
    BY <2>2, <2>3, <2>4, Numbers DEF MixedInv, Alone
  <2>6. ASSUME c.run \notin mixed
        PROVE  /\ session = c.run /\ c.run \notin asked
               /\ \A g \in c.results : g.run = c.run
               /\ c.run \notin failed => {g.engine : g \in c.results} = 1..ModesOf[c.run]
    <3>1. Alone(c.run) /\ c.run = runs
      BY <2>5, <2>6 DEF Alone
    <3>2. session = c.run
      BY <2>1, <2>2, <3>1 DEF LoneInv, LoneRun, LoneSession
    <3>3. c.run \notin asked
      BY <2>1, <3>1 DEF WindowInv
    <3>4. LoneResult(1)
      BY <2>2 DEF LoneInv
    <3> QED
      BY <2>1, <2>2, <3>1, <3>2, <3>3, <3>4 DEF LoneResult
  <2>7. new.session = session /\ new.run = c.run /\ new.results = c.results /\ new.kind = "scan"
    OBVIOUS
  <2> HIDE DEF c, new
  <2>8. ASSUME NEW row \in rows', row.kind = "scan"
        PROVE  row.run \in told' /\ (row.run \notin mixed' => RowOfRun(row)')
    <3>1. CASE row \in rows
      BY <2>1, <2>8, <3>1 DEF RowsInv, RowOfRun
    <3>2. CASE row = new
      BY <2>1, <2>6, <2>7, <3>2 DEF RowOfRun
    <3> QED
      BY <2>1, <2>8, <3>1, <3>2
  <2> QED
    BY <2>8 DEF RowsInv
<1>6. ASSUME NEW r \in Runs, Worker(r) PROVE RowsInv'
  <2>1. UNCHANGED <<told, mixed, asked, failed>>
    BY <1>6, WorkerPlaces
  <2>2. rows' = rows
    BY <1>6 DEF Worker, CheckCancel, SetMode, SetModeJoined, StartScan, Wait, Collect, Deliver, Fail, Reset,
       uiVars
  <2> QED
    BY <2>1, <2>2, RowsStay
<1>7. ASSUME NEW t \in Threads, ScanThread(t) PROVE RowsInv'
  <2>1. UNCHANGED <<told, mixed, asked, rows>> /\ failed \subseteq failed'
    BY <1>7 DEF ScanThread, ThreadStart, ThreadEnd, ThreadEmit, ThreadUnscan, ThreadExit, uiVars, histVars
  <2> QED
    BY <2>1, RowsStay
<1> QED
  BY <1>1, <1>2, <1>3, <1>4, <1>5, <1>6, <1>7 DEF Next, User, UiThread

\* Steps that record nothing: they may leave the session, not take one.
LEMMA SessionsStay ==
  ASSUME ServiceTypes, SessionsInv, UNCHANGED <<rows, store, runs>>, session' \in {session, 0}
  PROVE  SessionsInv'
<1>1. session' \in 0..runs' /\ \A row \in rows' : row.session \in 0..runs'
  BY Numbers DEF SessionsInv, ServiceTypes, HistTypes
<1>2. \A row \in rows' : row.session = session' => session' = 0
  BY DEF SessionsInv
<1>3. \A results : Recorded(results) => Recorded(results)'
  BY DEF Recorded
<1> QED
  BY <1>1, <1>2, <1>3 DEF SessionsInv

(* A row takes the session with it.                                         *)
LEMMA SessionsTaken ==
  ASSUME ServiceTypes, SessionsInv, NEW kind, NEW run, NEW results, Dispatch(kind, run, results),
         kind # "again" \/ Recorded(results), runs' = runs
  PROVE  SessionsInv'
<1> DEFINE new == [kind |-> kind, session |-> session, run |-> run, results |-> results]
<1>1. rows' = rows \cup {new} /\ store' = results /\ session' = 0
  BY DEF Dispatch
<1>2. new.kind = kind /\ new.session = session /\ new.results = results
  OBVIOUS
<1> HIDE DEF new
<1>3. session' \in 0..runs' /\ \A row \in rows' : row.session \in 0..runs'
  BY <1>1, <1>2, Numbers DEF SessionsInv, ServiceTypes, HistTypes
<1>4. \A row, other \in rows' : row.session = other.session /\ row.session # 0 => row = other
  BY <1>1, <1>2 DEF SessionsInv
<1>5. \A some : Recorded(some) => Recorded(some)'
  BY <1>1 DEF Recorded
<1>6. Recorded(results)'
  <2>1. CASE kind # "again"
    BY <1>1, <1>2, <2>1 DEF Recorded
  <2>2. CASE Recorded(results)
    BY <1>5, <2>2
  <2> QED
    BY <2>1, <2>2
<1>7. \A row \in rows' : row.kind = "again" => Recorded(row.results)'
  BY <1>1, <1>2, <1>5, <1>6 DEF SessionsInv
<1> QED
  BY <1>1, <1>3, <1>4, <1>6, <1>7 DEF SessionsInv

LEMMA SessionsKept ==
  ASSUME ServiceTypes, SessionsInv, Next
  PROVE  SessionsInv'
<1>1. CASE BeginScan
  <2>1. runs \in Nat /\ runs' = runs + 1 /\ session' = runs + 1 /\ UNCHANGED <<rows, store>>
    BY <1>1, Numbers DEF BeginScan, ServiceTypes, HistTypes
  <2>2. \A row \in rows : row.session \in 0..(runs + 1) /\ row.session # runs + 1
    BY <2>1 DEF SessionsInv
  <2>3. \A results : Recorded(results) => Recorded(results)'
    BY <2>1 DEF Recorded
  <2> QED
    BY <2>1, <2>2, <2>3 DEF SessionsInv
<1>2. CASE StopScan \/ KeepScanning \/ ConfirmCancel \/ GoHome \/ ShowHome \/ ForwardCancel \/ UiCancelled
           \/ UiCompleteCancelled \/ UiError
  <2>1. UNCHANGED <<rows, store, runs>> /\ session' \in {session, 0}
    BY <1>2 DEF StopScan, KeepScanning, ConfirmCancel, GoHome, ShowHome, ForwardCancel, UiCancelled,
       UiCompleteCancelled, UiError, histVars
  <2> QED
    BY <2>1, SessionsStay
<1>3. CASE OpenPartialResults
  BY <1>3, SessionsTaken DEF OpenPartialResults, histVars
<1>4. CASE OpenWorkspace
  <2>1. CASE store = {}
    BY <1>4, <2>1, SessionsStay DEF OpenWorkspace
  <2>2. CASE store # {}
    <3>1. Dispatch("again", 0, store) /\ runs' = runs /\ Recorded(store)
      BY <1>4, <2>2 DEF OpenWorkspace, SessionsInv
    <3> QED
      BY <3>1, SessionsTaken
  <2> QED
    BY <2>1, <2>2
<1>5. CASE UiComplete
  BY <1>5, SessionsTaken DEF UiComplete
<1>6. ASSUME NEW r \in Runs, Worker(r) PROVE SessionsInv'
  <2>1. UNCHANGED <<rows, store, runs, session>>
    BY <1>6 DEF Worker, CheckCancel, SetMode, SetModeJoined, StartScan, Wait, Collect, Deliver, Fail, Reset,
       uiVars, histVars
  <2> QED
    BY <2>1, SessionsStay
<1>7. ASSUME NEW t \in Threads, ScanThread(t) PROVE SessionsInv'
  <2>1. UNCHANGED <<rows, store, runs, session>>
    BY <1>7 DEF ScanThread, ThreadStart, ThreadEnd, ThreadEmit, ThreadUnscan, ThreadExit, uiVars, histVars
  <2> QED
    BY <2>1, SessionsStay
<1> QED
  BY <1>1, <1>2, <1>3, <1>4, <1>5, <1>6, <1>7 DEF Next, User, UiThread

------------------------------------------------------------------------------
ServiceInv ==
  /\ ServiceTypes /\ WorkersInv /\ ToldInv /\ MixedInv /\ WindowInv
  /\ FreshInv /\ LoneInv /\ RowsInv /\ SessionsInv

\* ServiceInv reads no variable that a stuttering step changes.
LEMMA ServiceStutters ==
  ASSUME ServiceInv, UNCHANGED vars
  PROVE  ServiceInv'
<1>1. ServiceTypes' /\ WorkersInv' /\ FreshInv'
  BY DEF ServiceInv, vars, svcVars, orchVars, uiVars, histVars, ServiceTypes, WorkerTypes, OrchTypes, UiTypes,
     HistTypes, WorkersInv, Alive, FreshInv
<1>2. ToldInv' /\ MixedInv' /\ WindowInv'
  BY DEF ServiceInv, vars, svcVars, orchVars, uiVars, histVars, ToldInv, Tells, MixedInv, WindowInv
<1>3. \A r : (Alone(r)' <=> Alone(r))
  BY DEF vars, histVars, Alone
<1>4. LoneInv'
  <2>1. \A r \in Runs : Alone(r)' => LoneRun(r)'
    BY <1>3, LoneStays DEF ServiceInv, LoneInv, vars, svcVars, orchVars, uiVars, histVars
  <2>2. ASSUME NEW i \in 1..Len(queue') PROVE LoneResult(i)'
    BY <1>3 DEF ServiceInv, LoneInv, LoneResult, vars, uiVars, histVars
  <2> QED
    BY <2>1, <2>2 DEF LoneInv
<1>5. RowsInv' /\ SessionsInv'
  BY RowsStay, SessionsStay DEF ServiceInv, vars, uiVars, histVars
<1> QED
  BY <1>1, <1>2, <1>4, <1>5 DEF ServiceInv

(* The inductive invariant of the scan service.                             *)
THEOREM ServiceInvariant == Spec => []ServiceInv
<1>1. Init => ServiceInv
  BY TypesAtStart, WorkersAtStart, ToldAtStart, LoneAtStart DEF ServiceInv
<1>2. ASSUME ServiceInv, Next PROVE ServiceInv'
  <2>1. ServiceTypes'
    BY <1>2, UserTypes, UiThreadTypes, WorkerStepTypes, ThreadStepTypes DEF ServiceInv, Next
  <2>2. WorkersInv' /\ ToldInv' /\ MixedInv' /\ WindowInv' /\ FreshInv' /\ RowsInv' /\ SessionsInv'
    BY <1>2, WorkersKept, ToldKept, MixedKept, WindowKept, FreshKept, RowsKept, SessionsKept DEF ServiceInv
  <2>3. LoneInv'
    BY <1>2, LoneBegins, LoneKept DEF ServiceInv
  <2> QED
    BY <2>1, <2>2, <2>3 DEF ServiceInv
<1> QED
  BY <1>1, <1>2, ServiceStutters, PTL DEF Spec

(* The variables of the scan service keep their types.                      *)
THEOREM ServiceTypesHold == Spec => []TypeOK
<1>1. ServiceInv => TypeOK
  BY TypesImply DEF ServiceInv
<1> QED
  BY <1>1, ServiceInvariant, PTL

(* However often Start is pressed and scans are cancelled, two scan threads *)
(* of the orchestrator are never alive together: StartScan looks at the     *)
(* current thread under the lock, and no other is.                          *)
THEOREM OneScanThreadAlways == Spec => []OneScanThread
<1>1. ServiceInv => OneScanThread
  BY DEF ServiceInv, WorkersInv, OneScanThread
<1> QED
  BY <1>1, ServiceInvariant, PTL

(* A run that met no other is recorded in the history under its own session,*)
(* with the results of its own scans only, and of all of them if none       *)
(* raised; and the user did not cancel it.  What the workspace records once *)
(* more is what a first row holds, and no session is in two rows.           *)
THEOREM OwnRowAlways == Spec => []OwnRow
<1>1. ServiceInv => OwnRow
  BY DEF ServiceInv, RowsInv, SessionsInv, Recorded, OwnRow
<1> QED
  BY <1>1, ServiceInvariant, PTL

==============================================================================
