------------------------- MODULE PollingEngine_proofs -------------------------
(***************************************************************************)
(* Proofs about the loops of the engines other than the turbo engine: for  *)
(* every engine of the table, any number of items, scans and calls.        *)
(***************************************************************************)
EXTENDS PollingEngine, TLAPS

\* The inductive invariant, in parts.
CtlTypes ==
  /\ kind \in Kinds /\ state \in States
  /\ cancelEvent \in BOOLEAN /\ pauseEvent \in BOOLEAN
  /\ awaited \subseteq Scans
  /\ ctl \in {"idle", "pausing", "paused", "resuming", "scanning", "cancelled"}
  /\ ops \in 0..MaxOps /\ scans \in 0..MaxScans

BodyTypes ==
  /\ results \in 0..NumItems /\ leaked \in Nat /\ unheard \in Nat
  /\ pc \in [Scans -> Points] /\ outcome \in [Scans -> Outcomes]
  /\ found \in [Scans -> 0..NumItems] /\ pos \in [Scans -> 0..NumItems]

(* What a body has visited where it is.                                     *)
Visited ==
  \A s \in Scans :
    /\ pc[s] \in {"none", "spawned", "walk"} => pos[s] = 0
    /\ pc[s] \in {"check", "gate", "item"} => pos[s] < found[s]
    /\ pc[s] \in {"last", "results", "complete"} => pos[s] = found[s]

(* Scans are numbered as they start, and an engine without a thread of its  *)
(* own has no body but that of the newest.                                  *)
OneBody ==
  \A s \in Scans : /\ s > scans => pc[s] = "none"
                   /\ ~E.nested /\ pc[s] \notin {"none", "dead"} => s = scans

(* Only a loop with a gate is paused; once the item past the gate has been  *)
(* read, or a file opened by the walk, nobody is past the gate, and after   *)
(* the former nobody is walking.                                            *)
PastGate ==
  /\ pauseEvent \/ ctl = "pausing" => E.gate
  /\ leaked <= 1 /\ (unheard > 0 => leaked = 0)
  /\ pauseEvent /\ (leaked = 1 \/ unheard > 0) => \A s \in Scans : pc[s] # "item"
  /\ pauseEvent /\ leaked = 1 => \A s \in Scans : pc[s] # "walk"

(* What the newest scan has put in the results.                             *)
Found ==
  ~E.nested => \A s \in Scans : s = scans =>
    /\ pc[s] \in {"walk", "check", "gate", "item", "last", "stopped", "results"} => results = 0
    /\ pc[s] = "complete" => results = found[s]
    /\ pc[s] \in {"emit", "dead"} => results = IF outcome[s] = "completed" THEN found[s] ELSE 0

EngineInv == CtlTypes /\ BodyTypes /\ Visited /\ OneBody /\ PastGate /\ Found

------------------------------------------------------------------------------
LEMMA Numbers == /\ NumItems \in Nat /\ NumItems # 0 /\ MaxOps \in Nat /\ MaxScans \in Nat
                 /\ \A s \in Scans : s \in Nat /\ s # 0
BY ItemsAssumption, BoundsAssumption DEF Scans

(* What the engines of the table have in common.                            *)
LEMMA EngineTable ==
  ASSUME kind \in Kinds
  PROVE  /\ E.stop \in {"cancelled", "completed", "none"}
         /\ E.gate => ~E.nested
         /\ ~E.nested => E.gate /\ E.stop = "cancelled" /\ kind # "image"
<1>1. kind \in {"video", "music", "empty", "large", "similar", "document", "image", "burst"}
  BY KindsAssumption
<1>2. CASE kind \in {"video", "music", "empty", "large"}
  <2>1. E \in {Video, EmptyFolder}
    BY <1>2 DEF E, Engine, Music, LargeFile
  <2> QED
    BY <1>2, <2>1 DEF Video, EmptyFolder
<1>3. CASE kind = "similar"
  BY <1>3 DEF E, Engine, SimilarFolder, Video
<1>4. CASE kind = "document"
  BY <1>4 DEF E, Engine, Document, Video
<1>5. CASE kind = "image"
  BY <1>5 DEF E, Engine, Image
<1>6. CASE kind = "burst"
  BY <1>6 DEF E, Engine, Burst, Image
<1> QED
  BY <1>1, <1>2, <1>3, <1>4, <1>5, <1>6

LEMMA InvAtStart == Init => EngineInv
<1> SUFFICES ASSUME Init PROVE EngineInv
  OBVIOUS
<1>1. CtlTypes
  <2>1. ops \in 0..MaxOps /\ scans \in 0..MaxScans /\ awaited \subseteq Scans
    BY Numbers DEF Init
  <2> QED
    BY <2>1 DEF Init, CtlTypes, States
<1>2. BodyTypes
  BY Numbers DEF Init, BodyTypes, Points, Outcomes
<1>3. Visited /\ OneBody /\ PastGate /\ Found
  BY Numbers DEF Init, Visited, OneBody, PastGate, Found
<1> QED
  BY <1>1, <1>2, <1>3 DEF EngineInv

(* A step of one body to the point p.                                       *)
LEMMA BodyMoves ==
  ASSUME EngineInv, NEW s \in Scans, NEW p \in Points, Goto(s, p)
  PROVE  /\ pc' \in [Scans -> Points] /\ pc'[s] = p
         /\ \A q \in Scans : q # s => pc'[q] = pc[q]
BY DEF EngineInv, BodyTypes, Goto

(* One body of an engine without threads of its own moves: it is that of    *)
(* the newest scan, and the others are over or have not begun.              *)
LEMMA OneBodyKept ==
  ASSUME EngineInv, NEW s \in Scans, NEW p \in Points, Goto(s, p), pc[s] \notin {"none", "dead"},
         UNCHANGED <<kind, scans>>
  PROVE  OneBody'
<1>1. pc'[s] = p /\ \A q \in Scans : q # s => pc'[q] = pc[q]
  BY BodyMoves
<1>2. ~(s > scans) /\ (~E.nested => s = scans)
  BY DEF EngineInv, OneBody
<1> QED
  BY <1>1, <1>2 DEF EngineInv, OneBody, E

(* The loop goes past its gate while it is open, and no other body is past  *)
(* the gate of a loop that has one.                                         *)
LEMMA PastGateKept ==
  ASSUME EngineInv, NEW s \in Scans, NEW p \in Points, Goto(s, p), pc[s] \notin {"none", "dead"},
         UNCHANGED <<kind, ctl, leaked, unheard, scans>>, pauseEvent' \in BOOLEAN,
         pauseEvent' => pauseEvent /\ p \notin {"item", "walk"}
  PROVE  PastGate'
<1>1. pc'[s] = p /\ \A q \in Scans : q # s => pc'[q] = pc[q]
  BY BodyMoves
<1> QED
  BY <1>1 DEF EngineInv, PastGate, E

(* What a body found, when it is the newest's or the engine is nested.      *)
LEMMA FoundKept ==
  ASSUME EngineInv, NEW s \in Scans, NEW p \in Points, Goto(s, p), pc[s] \notin {"none", "dead"},
         UNCHANGED <<kind, scans>>,
         ~E.nested /\ s = scans =>
           /\ p \in {"walk", "check", "gate", "item", "last", "stopped", "results"} => results' = 0
           /\ p = "complete" => results' = found'[s]
           /\ p \in {"emit", "dead"} => results' = IF outcome'[s] = "completed" THEN found'[s] ELSE 0
  PROVE  Found'
<1>1. pc'[s] = p
  BY BodyMoves
<1>2. ~E.nested => s = scans
  BY DEF EngineInv, OneBody
<1> QED
  BY <1>1, <1>2 DEF Found, E

LEMMA VisitedKept ==
  ASSUME EngineInv, NEW s \in Scans, NEW p \in Points, Goto(s, p),
         \A q \in Scans : q # s => pos'[q] = pos[q] /\ found'[q] = found[q],
         /\ p \in {"none", "spawned", "walk"} => pos'[s] = 0
         /\ p \in {"check", "gate", "item"} => pos'[s] < found'[s]
         /\ p \in {"last", "results", "complete"} => pos'[s] = found'[s]
  PROVE  Visited'
<1>1. pc'[s] = p /\ \A q \in Scans : q # s => pc'[q] = pc[q]
  BY BodyMoves
<1> QED
  BY <1>1 DEF EngineInv, Visited

------------------------------------------------------------------------------
(* The controller.                                                          *)
LEMMA ControllerKeeps ==
  ASSUME EngineInv, Controller
  PROVE  EngineInv'
<1> USE DEF EngineInv
<1>1. CASE StartScan
  <2>1. scans \in Nat /\ scans' = scans + 1 /\ scans + 1 \in Scans /\ kind' = kind
        /\ pc' = [pc EXCEPT ![scans + 1] = "spawned"]
    BY <1>1, Numbers DEF StartScan, CtlTypes, Scans
  <2>2. pc[scans + 1] = "none"
    BY <2>1 DEF OneBody
  <2>3. pc' \in [Scans -> Points] /\ pc'[scans + 1] = "spawned"
        /\ \A q \in Scans : q # scans + 1 => pc'[q] = pc[q]
    BY <2>1 DEF BodyTypes, Points
  <2>4. CtlTypes' /\ BodyTypes'
    BY <1>1, <2>1, <2>3, Numbers DEF StartScan, engineVars, histVars, CtlTypes, BodyTypes, Scans
  <2>5. Visited'
    BY <1>1, <2>2, <2>3 DEF StartScan, Visited
  <2>6. OneBody'
    <3>1. ASSUME NEW q \in Scans, ~E.nested, pc'[q] \notin {"none", "dead"} PROVE q = scans + 1
      BY <1>1, <2>3, <3>1 DEF StartScan, ThreadAlive, Running
    <3>2. ASSUME NEW q \in Scans, q > scans + 1 PROVE pc'[q] = "none"
      BY <2>1, <2>3, <3>2, Numbers DEF OneBody
    <3> QED
      BY <2>1, <3>1, <3>2 DEF OneBody, E
  <2>7. PastGate'
    BY <1>1, <2>3 DEF StartScan, engineVars, histVars, PastGate, E
  <2>8. Found'
    BY <2>1, <2>3 DEF Found
  <2> QED
    BY <2>4, <2>5, <2>6, <2>7, <2>8
<1>2. CASE PauseBegin \/ PauseEvent \/ ResumeBegin \/ ResumeEvent \/ CancelBegin \/ SetState
  <2>1. UNCHANGED <<kind, results, pc, found, pos, outcome, awaited, scans>>
    BY <1>2 DEF PauseBegin, PauseEvent, ResumeBegin, ResumeEvent, CancelBegin, SetState, engineVars, bodyVars
  <2>2. Visited' /\ OneBody' /\ Found'
    BY <2>1 DEF Visited, OneBody, Found, E
  <2>3. /\ state' \in {state, ctl} \cap {state, "paused", "scanning", "cancelled"}
        /\ pauseEvent' \in {pauseEvent, TRUE, FALSE} /\ cancelEvent' \in {cancelEvent, TRUE}
        /\ leaked' \in {leaked, 0} /\ unheard' \in {unheard, 0}
        /\ ctl' \in {"idle", "pausing", "paused", "resuming", "scanning", "cancelled"}
        /\ ops' = ops \/ (ops' = ops + 1 /\ ops < MaxOps)
    <3>1. CASE PauseBegin \/ PauseEvent \/ ResumeBegin \/ ResumeEvent
      BY <3>1 DEF PauseBegin, PauseEvent, ResumeBegin, ResumeEvent, engineVars, bodyVars, histVars
    <3>2. CASE CancelBegin
      BY <3>2 DEF CancelBegin, bodyVars, histVars
    <3>3. CASE SetState
      BY <3>3 DEF SetState, bodyVars, histVars
    <3> QED
      BY <1>2, <3>1, <3>2, <3>3
  <2>4. CtlTypes' /\ BodyTypes'
    <3>1. ops' \in 0..MaxOps
      BY <2>3, Numbers DEF CtlTypes
    <3>2. state' \in States
      BY <2>3 DEF CtlTypes, States
    <3>3. CtlTypes'
      BY <2>1, <2>3, <3>1, <3>2 DEF CtlTypes
    <3>4. BodyTypes'
      BY <2>1, <2>3 DEF BodyTypes
    <3> QED
      BY <3>3, <3>4
  <2>5. PastGate'
    <3>0. ctl' = "pausing" => E.gate
      BY <1>2 DEF PauseBegin, PauseEvent, ResumeBegin, ResumeEvent, CancelBegin, SetState
    <3>1. \/ leaked' = 0 /\ unheard' = 0 /\ (pauseEvent' => E.gate)
          \/ leaked' = leaked /\ unheard' = unheard /\ (pauseEvent' => pauseEvent)
      <4>1. CASE PauseBegin \/ PauseEvent \/ ResumeBegin \/ ResumeEvent
        BY <4>1 DEF PauseBegin, PauseEvent, ResumeBegin, ResumeEvent, engineVars, bodyVars, histVars, PastGate
      <4>2. CASE CancelBegin
        BY <4>2 DEF CancelBegin, bodyVars, histVars
      <4>3. CASE SetState
        BY <4>3 DEF SetState, bodyVars, histVars
      <4> QED
        BY <1>2, <4>1, <4>2, <4>3
    <3> QED
      BY <2>1, <3>0, <3>1 DEF PastGate, E
  <2> QED
    BY <2>2, <2>4, <2>5
<1> QED
  BY <1>1, <1>2 DEF Controller

LEMMA AwaitKeeps ==
  ASSUME EngineInv, NEW s \in Scans, Await(s)
  PROVE  EngineInv'
<1> USE DEF EngineInv
<1>1. CtlTypes' /\ BodyTypes'
  BY DEF Await, engineVars, bodyVars, histVars, CtlTypes, BodyTypes
<1>2. Visited' /\ OneBody' /\ PastGate' /\ Found'
  BY DEF Await, engineVars, bodyVars, histVars, Visited, OneBody, PastGate, Found, E
<1> QED
  BY <1>1, <1>2

------------------------------------------------------------------------------
(* The body of a scan.                                                      *)
LEMMA BodyKeeps ==
  ASSUME EngineInv, NEW s \in Scans, Body(s)
  PROVE  EngineInv'
<1> USE DEF EngineInv
<1>1. /\ E.stop \in {"cancelled", "completed", "none"} /\ (E.gate => ~E.nested)
      /\ (~E.nested => E.gate /\ E.stop = "cancelled" /\ kind # "image")
  BY EngineTable DEF CtlTypes
<1>2. pos[s] \in Nat /\ pos[s] \in 0..NumItems /\ found[s] \in Nat /\ found[s] \in 0..NumItems
  BY Numbers DEF BodyTypes
<1>3. ASSUME NEW p \in Points, Goto(s, p), pc[s] \notin {"none", "dead"},
             UNCHANGED <<kind, scans>>, CtlTypes', results' \in 0..NumItems, leaked' \in Nat,
             unheard' \in Nat, found' \in [Scans -> 0..NumItems],
             pos' \in [Scans -> 0..NumItems], outcome' \in [Scans -> Outcomes],
             Visited', PastGate', Found'
      PROVE  EngineInv'
  <2>1. BodyTypes'
    BY <1>3, BodyMoves DEF BodyTypes
  <2> QED
    BY <1>3, <2>1, OneBodyKept
<1>4. CASE Start(s)
  <2>1. /\ UNCHANGED <<kind, ctl, scans, leaked, unheard, pos, outcome>> /\ pc[s] = "spawned"
        /\ results' = 0 /\ ~pauseEvent' /\ pauseEvent' \in BOOLEAN /\ pos[s] = 0
    BY <1>4 DEF Start, ctlVars, Visited, histVars
  <2>2. PICK p \in {"walk", "check", "last", "results"}, n \in 0..NumItems :
          /\ Goto(s, p) /\ (p = "check" => n > 0)
          /\ p \in {"last", "results"} => n = 0
          /\ found' = [found EXCEPT ![s] = n] \/ (p = "walk" /\ found' = found)
    <3>1. CASE E.walk # "none"
      BY <1>4, <3>1, Numbers DEF Start
    <3>2. CASE E.walk = "none"
      <4>1. PICK n \in 0..NumItems : found' = [found EXCEPT ![s] = n] /\ Goto(s, Entry(n))
        BY <1>4, <3>2 DEF Start
      <4> QED
        <5>1. n \in Nat
          BY Numbers
        <5>2. /\ Entry(n) \in {"check", "last", "results"}
              /\ Entry(n) = "check" => n > 0
              /\ Entry(n) \in {"last", "results"} => n = 0
          BY <5>1 DEF Entry
        <5> QED
          BY <4>1, <5>2
    <3> QED
      BY <3>1, <3>2
  <2>3. CtlTypes'
    BY <1>4 DEF Start, ctlVars, CtlTypes, States
  <2>4. /\ p \in Points /\ found' \in [Scans -> 0..NumItems]
        /\ p # "walk" => found'[s] = n
        /\ \A q \in Scans : q # s => found'[q] = found[q]
    BY <2>2 DEF Points, BodyTypes
  <2>5. Visited'
    BY <2>1, <2>2, <2>4, VisitedKept, Numbers
  <2>6. PastGate'
    BY <2>1, <2>2, <2>4, PastGateKept
  <2>7. Found'
    BY <2>1, <2>2, <2>4, FoundKept
  <2> QED
    BY <1>3, <2>1, <2>2, <2>3, <2>4, <2>5, <2>6, <2>7, Numbers DEF BodyTypes
<1>13. CASE Walk(s)
  <2>1. /\ Goto(s, "walk") /\ UNCHANGED <<kind, ctl, scans, results, pos, outcome, leaked, pauseEvent>>
        /\ pc[s] = "walk" /\ found[s] < NumItems /\ found' = [found EXCEPT ![s] = @ + 1]
        /\ unheard' \in {unheard, unheard + 1} /\ (unheard' # unheard => pauseEvent)
    <3>1. Goto(s, "walk")
      BY <1>13 DEF Walk, Goto, BodyTypes
    <3> QED
      BY <1>13, <3>1 DEF Walk, engineVars, ctlVars
  <2>2. CtlTypes'
    BY <1>13 DEF Walk, engineVars, ctlVars, CtlTypes
  <2>3. found[s] + 1 \in 0..NumItems
    BY <1>2, <2>1, Numbers
  <2>4. found' \in [Scans -> 0..NumItems] /\ \A q \in Scans : q # s => found'[q] = found[q]
    BY <2>1, <2>3 DEF BodyTypes
  <2>5. Visited'
    BY <2>1, <2>4, VisitedKept DEF Points, Visited
  <2>6. PastGate' /\ unheard' \in Nat
    <3>1. pc'[s] = "walk" /\ \A q \in Scans : q # s => pc'[q] = pc[q]
      BY <2>1, BodyMoves DEF Points
    <3>2. pauseEvent => leaked = 0
      BY <2>1 DEF PastGate, BodyTypes
    <3>3. pauseEvent => \A q \in Scans : pc[q] # "item"
      BY <1>1, <2>1 DEF PastGate, OneBody
    <3>4. unheard' \in Nat
      BY <2>1 DEF BodyTypes
    <3>5. \A q \in Scans : pc'[q] = "item" => pc[q] = "item"
      BY <3>1
    <3>6. unheard' > 0 => leaked' = 0
      BY <2>1, <3>2 DEF PastGate
    <3>7. pauseEvent' => (\A q \in Scans : pc'[q] # "item") /\ leaked' # 1
      BY <2>1, <3>2, <3>3, <3>5
    <3> QED
      BY <2>1, <3>4, <3>6, <3>7 DEF PastGate, E
  <2>7. Found'
    <3>1. ~E.nested /\ s = scans => results' = 0
      BY <2>1 DEF Found
    <3> QED
      BY <2>1, <3>1, FoundKept DEF Points
  <2> QED
    BY <1>3, <2>1, <2>2, <2>4, <2>5, <2>6, <2>7 DEF Points, BodyTypes
<1>14. CASE Walked(s)
  <2>1. PICK n \in 0..found[s] :
          /\ found' = [found EXCEPT ![s] = n]
          /\ Goto(s, IF E.hears /\ cancelEvent THEN "stopped" ELSE Entry(n))
    BY <1>14 DEF Walked
  <2>2. PICK p \in {"stopped", "check", "last", "results"} :
          /\ Goto(s, p) /\ (p = "check" => n > 0)
          /\ p \in {"last", "results"} => n = 0
    BY <1>2, <2>1 DEF Entry
  <2>3. /\ UNCHANGED <<kind, ctl, scans, leaked, unheard, pos, results, pauseEvent, outcome>>
        /\ pc[s] = "walk" /\ pos[s] = 0
    BY <1>14 DEF Walked, engineVars, ctlVars, histVars, Visited
  <2>4. CtlTypes'
    BY <1>14 DEF Walked, engineVars, ctlVars, CtlTypes
  <2>5. /\ p \in Points /\ n \in 0..NumItems /\ found' \in [Scans -> 0..NumItems]
        /\ found'[s] = n /\ \A q \in Scans : q # s => found'[q] = found[q]
    BY <1>2, <2>1, Numbers DEF Points, BodyTypes
  <2>6. Visited'
    BY <2>2, <2>3, <2>5, VisitedKept
  <2>7. PastGate'
    BY <2>2, <2>3, <2>5, PastGateKept DEF CtlTypes
  <2>8. Found'
    <3>1. ~E.nested /\ s = scans => results' = 0
      BY <2>3 DEF Found
    <3> QED
      BY <2>2, <2>3, <2>5, <3>1, FoundKept
  <2> QED
    BY <1>3, <2>2, <2>3, <2>4, <2>5, <2>6, <2>7, <2>8 DEF BodyTypes
<1>5. CASE StartFails(s)
  <2>1. /\ Goto(s, "dead") /\ UNCHANGED <<kind, ctl, scans, leaked, unheard, found, pos, results, pauseEvent>>
        /\ pc[s] = "spawned" /\ outcome' = [outcome EXCEPT ![s] = "error"] /\ E.nested
    BY <1>1, <1>5 DEF StartFails, engineVars, ctlVars, histVars
  <2>2. CtlTypes'
    BY <1>5 DEF StartFails, engineVars, ctlVars, CtlTypes
  <2>3. Visited'
    BY <2>1, VisitedKept DEF Points
  <2>4. PastGate'
    BY <2>1, PastGateKept DEF Points, CtlTypes
  <2>5. Found'
    BY <2>1, FoundKept DEF Points
  <2>6. outcome' \in [Scans -> Outcomes]
    BY <2>1 DEF Outcomes, BodyTypes
  <2> QED
    BY <1>3, <2>1, <2>2, <2>3, <2>4, <2>5, <2>6 DEF Points, BodyTypes
<1>6. CASE CheckCancel(s) \/ Gate(s) \/ LastCheck(s)
  <2>1. PICK p \in {"stopped", "gate", "item", "results"} :
          /\ Goto(s, p) /\ UNCHANGED <<kind, ctl, scans, leaked, unheard, found, pos, results, pauseEvent, outcome>>
          /\ pc[s] \in {"check", "gate", "last"}
          /\ pc[s] # "last" => p # "results"
          /\ pc[s] = "last" => p \in {"results", "stopped"}
          /\ p = "item" => ~pauseEvent \/ ~E.gate
    BY <1>6 DEF CheckCancel, Gate, LastCheck, engineVars, ctlVars, histVars
  <2>2. CtlTypes'
    BY <1>6 DEF CheckCancel, Gate, LastCheck, engineVars, ctlVars, CtlTypes
  <2>3. p \in Points
    BY DEF Points
  <2>4. Visited'
    <3>1. /\ pc[s] \in {"check", "gate"} => pos[s] < found[s]
          /\ pc[s] = "last" => pos[s] = found[s]
      BY DEF Visited
    <3> QED
      BY <2>1, <2>3, <3>1, VisitedKept
  <2>5. PastGate'
    <3>1. pauseEvent => p # "item"
      BY <2>1 DEF PastGate
    <3> QED
      BY <2>1, <2>3, <3>1, PastGateKept DEF CtlTypes
  <2>6. Found'
    <3>1. ~E.nested /\ s = scans => results' = 0
      BY <2>1 DEF Found
    <3> QED
      BY <2>1, <2>3, <3>1, FoundKept
  <2> QED
    BY <1>3, <2>1, <2>2, <2>3, <2>4, <2>5, <2>6 DEF BodyTypes
<1>7. CASE Visit(s)
  <2> DEFINE p == IF pos[s] + 1 < found[s] THEN "check" ELSE IF E.last THEN "last" ELSE "results"
  <2>1. /\ Goto(s, p) /\ UNCHANGED <<kind, ctl, scans, results, pauseEvent, outcome, found, unheard>>
        /\ pc[s] = "item" /\ pos' = [pos EXCEPT ![s] = @ + 1]
        /\ leaked' = IF pauseEvent THEN leaked + 1 ELSE leaked
    BY <1>7 DEF Visit, engineVars, ctlVars, histVars
  <2>2. CtlTypes'
    BY <1>7 DEF Visit, engineVars, ctlVars, CtlTypes
  <2>3. p \in Points /\ p \in {"check", "last", "results"}
    BY DEF Points
  <2>4. pos[s] + 1 \in 0..NumItems /\ (p # "check" => pos[s] + 1 = found[s])
    BY <1>2, <2>1, Numbers DEF Visited
  <2>5. p = "check" => pos[s] + 1 < found[s]
    OBVIOUS
  <2> HIDE DEF p
  <2>6. pos' \in [Scans -> 0..NumItems] /\ pos'[s] = pos[s] + 1
        /\ \A q \in Scans : q # s => pos'[q] = pos[q]
    BY <2>1, <2>4 DEF BodyTypes
  <2>7. Visited'
    BY <2>1, <2>3, <2>4, <2>5, <2>6, VisitedKept
  <2>8. PastGate' /\ leaked' \in Nat
    <3>1. pc'[s] = p /\ \A q \in Scans : q # s => pc'[q] = pc[q]
      BY <2>1, <2>3, BodyMoves
    <3>2. pauseEvent => leaked = 0 /\ unheard = 0
      BY <2>1 DEF PastGate, BodyTypes
    <3>3. pauseEvent => \A q \in Scans : pc[q] \in {"item", "walk"} => q = s
      BY <1>1, <2>1 DEF PastGate, OneBody
    <3>4. leaked' \in Nat /\ leaked' <= 1
      BY <2>1, <3>2 DEF PastGate, BodyTypes
    <3> QED
      BY <2>1, <2>3, <3>1, <3>3, <3>4 DEF PastGate, E
  <2>9. Found'
    <3>1. ~E.nested /\ s = scans => results' = 0
      BY <2>1 DEF Found
    <3> QED
      BY <2>1, <2>3, <3>1, FoundKept
  <2> QED
    BY <1>3, <2>1, <2>2, <2>3, <2>6, <2>7, <2>8, <2>9 DEF BodyTypes
<1>8. CASE Raise(s)
  <2>1. /\ Goto(s, "dead") /\ UNCHANGED <<kind, ctl, scans, leaked, unheard, found, pos, results, pauseEvent>>
        /\ pc[s] = "item" /\ outcome' = [outcome EXCEPT ![s] = "error"]
    BY <1>8 DEF Raise, ctlVars, histVars
  <2>2. CtlTypes'
    BY <1>8 DEF Raise, ctlVars, CtlTypes, States
  <2>3. Visited'
    BY <2>1, VisitedKept DEF Points
  <2>4. PastGate'
    BY <2>1, PastGateKept DEF Points, CtlTypes
  <2>5. outcome' \in [Scans -> Outcomes] /\ outcome'[s] = "error"
    BY <2>1 DEF Outcomes, BodyTypes
  <2>6. Found'
    <3>1. ~E.nested /\ s = scans => results' = 0
      BY <2>1 DEF Found
    <3> QED
      BY <2>1, <2>5, <3>1, FoundKept DEF Points
  <2> QED
    BY <1>3, <2>1, <2>2, <2>3, <2>4, <2>5, <2>6 DEF Points, BodyTypes
<1>9. CASE Stopped(s)
  <2> DEFINE p == IF E.stop = "none" THEN "dead" ELSE "emit"
  <2>1. /\ Goto(s, p) /\ UNCHANGED <<kind, ctl, scans, leaked, unheard, found, pos, pauseEvent>>
        /\ pc[s] = "stopped" /\ outcome' = [outcome EXCEPT ![s] = E.stop]
        /\ results' = IF E.stop = "completed" THEN 0 ELSE results
    BY <1>9 DEF Stopped, ctlVars, histVars
  <2>2. CtlTypes'
    BY <1>1, <1>9 DEF Stopped, ctlVars, CtlTypes, States
  <2>3. p \in Points /\ p \in {"dead", "emit"}
    BY DEF Points
  <2> HIDE DEF p
  <2>4. Visited'
    BY <2>1, <2>3, VisitedKept
  <2>5. PastGate'
    BY <2>1, <2>3, PastGateKept DEF CtlTypes
  <2>6. outcome' \in [Scans -> Outcomes] /\ outcome'[s] = E.stop
    BY <1>1, <2>1 DEF Outcomes, BodyTypes
  <2>7. Found'
    <3>1. ~E.nested /\ s = scans => results' = 0 /\ outcome'[s] = "cancelled"
      BY <1>1, <2>1, <2>6 DEF Found
    <3> QED
      BY <2>1, <2>3, <3>1, FoundKept
  <2>8. results' \in 0..NumItems
    BY <2>1, Numbers DEF BodyTypes
  <2> QED
    BY <1>3, <2>1, <2>2, <2>3, <2>4, <2>5, <2>6, <2>7, <2>8 DEF BodyTypes
<1>10. CASE SetResults(s)
  <2>1. /\ Goto(s, "complete") /\ UNCHANGED <<kind, ctl, scans, leaked, unheard, found, pos, pauseEvent, outcome>>
        /\ pc[s] = "results" /\ results' = pos[s]
    BY <1>10 DEF SetResults, engineVars, ctlVars, histVars
  <2>2. CtlTypes'
    BY <1>10 DEF SetResults, engineVars, ctlVars, CtlTypes
  <2>3. pos[s] = found[s]
    BY <2>1 DEF Visited
  <2>4. Visited'
    BY <2>1, <2>3, VisitedKept DEF Points
  <2>5. PastGate'
    BY <2>1, PastGateKept DEF Points, CtlTypes
  <2>6. Found'
    BY <2>1, <2>3, FoundKept DEF Points
  <2> QED
    BY <1>2, <1>3, <2>1, <2>2, <2>4, <2>5, <2>6 DEF Points, BodyTypes
<1>11. CASE Complete(s)
  <2>1. /\ Goto(s, "emit") /\ UNCHANGED <<kind, ctl, scans, leaked, unheard, found, pos, pauseEvent, results>>
        /\ pc[s] = "complete" /\ outcome' = [outcome EXCEPT ![s] = "completed"]
    BY <1>11 DEF Complete, ctlVars, histVars
  <2>2. CtlTypes'
    BY <1>11 DEF Complete, ctlVars, CtlTypes, States
  <2>3. Visited'
    BY <2>1, VisitedKept DEF Points
  <2>4. PastGate'
    BY <2>1, PastGateKept DEF Points, CtlTypes
  <2>5. outcome' \in [Scans -> Outcomes] /\ outcome'[s] = "completed"
    BY <2>1 DEF Outcomes, BodyTypes
  <2>6. Found'
    <3>1. ~E.nested /\ s = scans => results' = found[s]
      BY <2>1 DEF Found
    <3> QED
      BY <2>1, <2>5, <3>1, FoundKept DEF Points
  <2> QED
    BY <1>3, <2>1, <2>2, <2>3, <2>4, <2>5, <2>6 DEF Points, BodyTypes
<1>12. CASE Emit(s)
  <2>1. /\ Goto(s, "dead") /\ UNCHANGED <<kind, ctl, scans, leaked, unheard, found, pos, pauseEvent, results, outcome>>
        /\ pc[s] = "emit"
    BY <1>12 DEF Emit, engineVars, ctlVars, histVars
  <2>2. CtlTypes'
    BY <1>12 DEF Emit, engineVars, ctlVars, CtlTypes
  <2>3. Visited'
    BY <2>1, VisitedKept DEF Points
  <2>4. PastGate'
    BY <2>1, PastGateKept DEF Points, CtlTypes
  <2>5. Found'
    <3>1. ~E.nested /\ s = scans => results' = IF outcome'[s] = "completed" THEN found[s] ELSE 0
      BY <2>1 DEF Found
    <3> QED
      BY <2>1, <3>1, FoundKept DEF Points
  <2> QED
    BY <1>3, <2>1, <2>2, <2>3, <2>4, <2>5 DEF Points, BodyTypes
<1> QED
  BY <1>4, <1>5, <1>6, <1>7, <1>8, <1>9, <1>10, <1>11, <1>12, <1>13, <1>14 DEF Body

------------------------------------------------------------------------------
(* The inductive invariant of the loops.                                    *)
THEOREM EngineInvariant == Spec => []EngineInv
<1>1. ASSUME EngineInv, Next PROVE EngineInv'
  BY <1>1, ControllerKeeps, BodyKeeps, AwaitKeeps DEF Next
<1>2. ASSUME EngineInv, UNCHANGED vars PROVE EngineInv'
  <2>1. CtlTypes' /\ BodyTypes'
    BY <1>2 DEF EngineInv, vars, engineVars, bodyVars, histVars, ctlVars, CtlTypes, BodyTypes
  <2>2. Visited' /\ OneBody' /\ PastGate' /\ Found'
    BY <1>2 DEF EngineInv, vars, engineVars, bodyVars, histVars, ctlVars, Visited, OneBody, PastGate, Found, E
  <2> QED
    BY <2>1, <2>2 DEF EngineInv
<1> QED
  BY <1>1, <1>2, InvAtStart, PTL DEF Spec

(* The variables of a loop and its controller keep their types.             *)
THEOREM EngineTypesHold == Spec => []TypeOK
<1>1. EngineInv => TypeOK
  BY DEF EngineInv, CtlTypes, BodyTypes, TypeOK
<1> QED
  BY <1>1, EngineInvariant, PTL

(* After pause() the loop of an engine reads one more item at most, and     *)
(* none if its walk is still opening files, however pauses, resumes,        *)
(* cancels and scans follow each other.                                     *)
THEOREM PauseBoundAlways == Spec => []PauseBound
<1>1. EngineInv => PauseBound
  BY DEF EngineInv, PastGate, PauseBound
<1> QED
  BY <1>1, EngineInvariant, PTL

(* What get_results() answers after the newest scan of an engine without a  *)
(* thread of its own is everything if it completed, and nothing else.       *)
THEOREM AllOrNothingAlways == Spec => []AllOrNothing
<1>1. EngineInv => AllOrNothing
  BY DEF EngineInv, Found, AllOrNothing
<1> QED
  BY <1>1, EngineInvariant, PTL
===============================================================================
