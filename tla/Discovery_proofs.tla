--------------------------- MODULE Discovery_proofs ---------------------------
(***************************************************************************)
(* Proofs about Discovery, for any trees of directories, any folders,      *)
(* options and number of workers.                                          *)
(***************************************************************************)
EXTENDS Discovery, FiniteSetTheorems, TLAPS

------------------------------------------------------------------------------
(* The trees. *)

LEMMA ChildTowards ==
  ASSUME NEW a \in Dirs, NEW d \in Dirs, Below(d, a)
  PROVE  \E c \in Children(a) : Below(c, a) /\ (d = c \/ Below(d, c))
<1>1. \E c \in Dirs : /\ Below(c, a) /\ (d = c \/ Below(d, c))
                      /\ \A b \in Dirs : ~(Below(c, b) /\ Below(b, a))
  BY ChildAssumption DEF ChildAssumption
<1> QED
  BY <1>1 DEF Children

(* A walk of r that has come to s goes on towards what it is to list. *)
LEMMA ReachDown ==
  ASSUME TypeOK, NEW r \in Dirs, NEW s \in Dirs, s = r \/ Below(s, r), NEW d \in Reach(r),
         d = s \/ Below(d, s)
  PROVE  /\ d \in Dirs
         /\ ~Within(s, excluded)
         /\ Below(d, s) => recursive /\ \E c \in Children(s) \ skipped : d = c \/ Below(d, c)
<1>1. d \in Dirs /\ ~Within(r, excluded)
  BY DEF Reach
<1>2. d # r => recursive /\ Below(d, r) /\ \A x \in skipped : Below(x, r) => ~Within(d, {x})
  BY DEF Reach
<1>3. ~Within(s, excluded)
  <2> SUFFICES ASSUME NEW e \in excluded, s = e \/ Below(s, e) PROVE FALSE
    BY DEF Within
  <2>1. e \in skipped /\ e \in Dirs
    BY DEF TypeOK
  <2>2. ~(r = e \/ Below(r, e))
    BY <1>1 DEF Within
  <2>3. Below(e, r)
    BY <2>1, <2>2, OrderAssumption
  <2>4. d = e \/ Below(d, e)
    BY <1>1, <2>1, OrderAssumption
  <2>5. d # r
    BY <2>1, <2>3, <2>4, OrderAssumption
  <2> QED
    BY <1>2, <2>1, <2>3, <2>4, <2>5 DEF Within
<1>4. ASSUME Below(d, s)
      PROVE  recursive /\ \E c \in Children(s) \ skipped : d = c \/ Below(d, c)
  <2>1. d # r
    BY <1>1, <1>4, OrderAssumption
  <2>2. PICK c \in Children(s) : Below(c, s) /\ (d = c \/ Below(d, c))
    BY <1>1, <1>4, ChildTowards
  <2>3. c \in Dirs /\ Below(c, r)
    BY <2>2, OrderAssumption DEF Children
  <2>4. c \notin skipped
    BY <1>2, <2>1, <2>2, <2>3 DEF Within
  <2> QED
    BY <1>2, <2>1, <2>2, <2>4
<1> QED
  BY <1>1, <1>3, <1>4

LEMMA ReachSelf ==
  ASSUME NEW r \in Dirs, NEW d \in Reach(r)
  PROVE  d \in Dirs /\ (d = r \/ Below(d, r))
  BY DEF Reach

LEMMA ReachSame ==
  ASSUME UNCHANGED config, NEW r
  PROVE  Reach(r)' = Reach(r)
  BY DEF Reach, Within, config

------------------------------------------------------------------------------
(* Every variable keeps its type.                                           *)

LEMMA RunningFinite == IsFiniteSet(Running)
<1>1. Running \subseteq Dirs
  BY DEF Running
<1> QED
  BY <1>1, DirsAssumption, FS_Subset DEF DirsAssumption

LEMMA RunningSubset ==
  ASSUME TypeOK, NEW S \in SUBSET Running
  PROVE  Cardinality(S) <= NumWorkers
<1>1. IsFiniteSet(Running)
  BY RunningFinite
<1>2. IsFiniteSet(S) /\ Cardinality(S) <= Cardinality(Running)
  BY <1>1, FS_Subset
<1>3. Cardinality(S) \in Nat /\ Cardinality(Running) \in Nat
  BY <1>1, <1>2, FS_CardinalityType
<1> QED
  BY <1>2, <1>3, DirsAssumption DEF TypeOK, DirsAssumption

(* One change of a task. *)
LEMMA GotoType ==
  ASSUME TypeOK, NEW r \in Dirs, NEW p \in Futures, Goto(r, p)
  PROVE  future' \in [Dirs -> Futures]
  BY DEF TypeOK, Goto

LEMMA TypeInit == Init => TypeOK
<1> SUFFICES ASSUME Init PROVE TypeOK
  OBVIOUS
<1>1. Running = {}
  BY DEF Init, Running
<1>2. Cardinality(Running) <= NumWorkers
  BY <1>1, FS_EmptySet, DirsAssumption DEF DirsAssumption
<1>3. last \in Dirs
  <2>1. folders \subseteq Dirs /\ folders # {}
    BY DEF Init
  <2> QED
    BY <2>1 DEF Init
<1> QED
  BY <1>2, <1>3, ChoicesAssumption DEF Init, TypeOK, ChoicesAssumption, Points, Futures

LEMMA TypeStep == TypeOK /\ [Next]_vars => TypeOK'
<1> SUFFICES ASSUME TypeOK, [Next]_vars PROVE TypeOK'
  OBVIOUS
<1>1. CASE UNCHANGED vars
  BY <1>1 DEF vars, config, walkVars, TypeOK, Running
<1>2. CASE Folders \/ Dedupe \/ LookCancel \/ WaitTimesOut \/ WaitFirst \/ CheckCancel \/ Ingest
  <2>1. Running' = Running
    BY <1>2 DEF Folders, Dedupe, LookCancel, WaitTimesOut, WaitFirst, CheckCancel, Ingest, Running
  <2> QED
    BY <1>2, <2>1 DEF Folders, Dedupe, LookCancel, WaitTimesOut, WaitFirst, CheckCancel, Ingest,
                      TypeOK, config, walkVars, Points, Finished
<1>3. CASE Submit \/ Abort
  <2>1. Running' \subseteq Running
    BY <1>3 DEF Submit, Abort, Running, TypeOK
  <2>2. Cardinality(Running') <= NumWorkers
    BY <2>1, RunningSubset
  <2>3. future' \in [Dirs -> Futures] /\ stack' \in [Dirs -> SUBSET Dirs]
    BY <1>3 DEF Submit, Abort, TypeOK, walkVars, Futures
  <2>4. processes' \in BOOLEAN /\ pending' \subseteq Dirs /\ pc' \in Points
    BY <1>3 DEF Submit, Abort, TypeOK, Points
  <2> QED
    BY <1>3, <2>2, <2>3, <2>4 DEF Submit, Abort, TypeOK, config, walkVars
<1>4. ASSUME NEW r \in Dirs, Take(r) PROVE TypeOK'
  <2>1. Running' = Running \cup {r}
    BY <1>4 DEF Take, Goto, Running, TypeOK
  <2>2. IsFiniteSet(Running)
    BY RunningFinite
  <2>3. Cardinality(Running') <= NumWorkers
    <3>1. Cardinality(Running) \in Nat /\ Cardinality(Running) < NumWorkers /\ r \notin Running
      BY <1>4, <2>2, FS_CardinalityType DEF Take, Running
    <3>2. Cardinality(Running \cup {r}) = Cardinality(Running) + 1
      BY <2>2, <3>1, FS_AddElement
    <3> QED
      BY <2>1, <3>1, <3>2, DirsAssumption DEF DirsAssumption
  <2> QED
    BY <1>4, <2>3 DEF Take, Goto, TypeOK, config, walkVars, Futures
<1>5. ASSUME NEW r \in Dirs, WalkRaises(r) \/ WalkCancelled(r) \/ WalkEnds(r) PROVE TypeOK'
  <2>1. Running' \subseteq Running
    BY <1>5 DEF WalkRaises, WalkCancelled, WalkEnds, Goto, Running, TypeOK
  <2>2. Cardinality(Running') <= NumWorkers
    BY <2>1, RunningSubset
  <2> QED
    BY <1>5, <2>2 DEF WalkRaises, WalkCancelled, WalkEnds, Goto, TypeOK, config, walkVars, Futures
<1>6. ASSUME NEW r \in Dirs, NEW d \in Dirs, WalkDir(r, d) PROVE TypeOK'
  <2>1. Running' \subseteq Running /\ future' \in [Dirs -> Futures]
    BY <1>6 DEF WalkDir, Goto, Running, TypeOK, Futures
  <2>2. Cardinality(Running') <= NumWorkers
    BY <2>1, RunningSubset
  <2>3. stack' \in [Dirs -> SUBSET Dirs] /\ listed' \in [Dirs -> SUBSET Dirs]
    BY <1>6 DEF WalkDir, TypeOK, Children
  <2> QED
    BY <1>6, <2>1, <2>2, <2>3 DEF WalkDir, TypeOK, config
<1>7. CASE Cancel \/ \E d \in Dirs : Vanish(d)
  <2>1. Running' = Running
    BY <1>7 DEF Cancel, Vanish, Running
  <2> QED
    BY <1>7, <2>1 DEF Cancel, Vanish, TypeOK, config, walkVars
<1> QED
  BY <1>1, <1>2, <1>3, <1>4, <1>5, <1>6, <1>7 DEF Next, ScanThread, Worker

(* Every variable keeps its type, and no more workers run than the pool    *)
(* has.                                                                    *)
THEOREM TypeCorrect == Spec => []TypeOK
<1> QED
  BY TypeInit, TypeStep, PTL DEF Spec

------------------------------------------------------------------------------
(* The walks. *)

(* What the steps that concern no walk leave alone. *)
LEMMA WalksFrame ==
  ASSUME Walks, UNCHANGED <<config, disk, walkVars>>, cancelled => cancelled',
         future \in [Dirs -> Futures], future' \in [Dirs -> Futures],
         \A r \in Dirs : future'[r] = future[r] \/ future'[r] \in {"dropped", "raised", "none"}
                           \/ (future[r] = "queued" /\ future'[r] = "running")
                           \/ (future'[r] = "done" /\ cancelled')
  PROVE  Walks'
<1>1. \A r : Reach(r)' = Reach(r)
  BY ReachSame
<1>2. disk' = disk /\ stack' = stack /\ listed' = listed
  BY DEF walkVars
<1>3. \A r \in Dirs : (Covered(r) => Covered(r)') /\ (Complete(r) => Complete(r)')
  BY <1>1, <1>2 DEF Covered, Complete, Within
<1> QED
  BY <1>2, <1>3 DEF Walks

LEMMA WalksInit == Init => Walks
  BY DEF Init, Walks, Below

LEMMA WalksSubmit ==
  ASSUME TypeOK, Walks, Collection, Submit
  PROVE  Walks'
<1>1. \A r : Reach(r)' = Reach(r)
  BY ReachSame DEF Submit
<1>2. disk' = disk /\ listed' = listed
  BY DEF Submit
<1>3. \A r \in Dirs : /\ stack'[r] = IF r \in roots \cap disk THEN {r} ELSE {}
                      /\ future'[r] = IF r \in roots \cap disk THEN "queued" ELSE "none"
  BY DEF Submit
<1>4. \A r \in Dirs : future'[r] \in {"queued", "running"} => Covered(r)'
  BY <1>1, <1>2, <1>3, ReachSelf DEF Covered, Within
<1>5. \A r \in Dirs : future'[r] # "done"
  BY <1>3
<1>6. \A r \in Dirs : \A d \in listed'[r] \cup stack'[r] : d = r \/ Below(d, r)
  BY <1>2, <1>3 DEF Walks
<1> QED
  BY <1>2, <1>4, <1>5, <1>6 DEF Walks

LEMMA WalksDir ==
  ASSUME TypeOK, Walks, NEW r \in Dirs, NEW s \in Dirs, WalkDir(r, s)
  PROVE  Walks'
<1> DEFINE open == s \in disk /\ ~Within(s, excluded)
           more == IF open /\ recursive THEN Children(s) \ skipped ELSE {}
<1>1. \A k : Reach(k)' = Reach(k)
  BY ReachSame DEF WalkDir
<1>2. disk' = disk /\ cancelled' = cancelled
  BY DEF WalkDir
<1>3. s \in stack[r] /\ (s = r \/ Below(s, r)) /\ future[r] = "running"
  BY DEF WalkDir, Walks
<1>4. /\ listed'[r] = IF open THEN listed[r] \cup {s} ELSE listed[r]
      /\ stack'[r] = (stack[r] \ {s}) \cup more
      /\ \A k \in Dirs \ {r} : listed'[k] = listed[k] /\ stack'[k] = stack[k]
  BY DEF WalkDir, TypeOK
<1>5. /\ \A k \in Dirs \ {r} : future'[k] = future[k]
      /\ future'[r] \in {"running", "raised"}
  BY <1>3 DEF WalkDir, Goto, TypeOK
<1>6. \A k \in Dirs : \A d \in listed'[k] \cup stack'[k] : d = k \/ Below(d, k)
  <2>1. \A d \in more : d \in Dirs /\ Below(d, s)
    BY DEF Children
  <2>2. \A d \in more : Below(d, r)
    BY <1>3, <2>1, OrderAssumption
  <2> QED
    BY <1>3, <1>4, <2>2 DEF Walks
<1>7. Covered(r)'
  <2> SUFFICES ASSUME NEW d \in Reach(r) \cap disk
               PROVE  d \in listed'[r] \/ Within(d, stack'[r])
    BY <1>1, <1>2 DEF Covered, Within
  <2>1. d \in listed[r] \/ Within(d, stack[r])
    BY <1>3 DEF Walks, Covered
  <2>2. CASE d \in listed[r]
    BY <1>4, <2>2
  <2>3. CASE \E t \in stack[r] : t # s /\ (d = t \/ Below(d, t))
    BY <1>4, <2>3 DEF Within
  <2>4. CASE d = s \/ Below(d, s)
    <3>1. /\ d \in Dirs /\ ~Within(s, excluded)
          /\ Below(d, s) => recursive /\ \E c \in Children(s) \ skipped : d = c \/ Below(d, c)
      BY <1>3, <2>4, ReachDown
    <3>2. s \in disk
      BY <2>4 DEF Walks
    <3>3. open
      BY <3>1, <3>2
    <3>4. CASE d = s
      BY <1>4, <3>3, <3>4
    <3>5. CASE Below(d, s)
      <4>1. PICK c \in Children(s) \ skipped : d = c \/ Below(d, c)
        BY <3>1, <3>5
      <4>2. c \in more
        BY <3>1, <3>3, <3>5
      <4> QED
        BY <1>4, <4>1, <4>2 DEF Within
    <3> QED
      BY <2>4, <3>4, <3>5
  <2> QED
    BY <2>1, <2>2, <2>3, <2>4 DEF Within
<1>8. \A k \in Dirs \ {r} : (Covered(k) => Covered(k)') /\ (Complete(k) => Complete(k)')
  BY <1>1, <1>2, <1>4 DEF Covered, Complete, Within
<1> QED
  BY <1>2, <1>5, <1>6, <1>7, <1>8 DEF Walks

LEMMA WalksVanish ==
  ASSUME TypeOK, Walks, NEW v \in Dirs, Vanish(v)
  PROVE  Walks'
<1>1. \A r : Reach(r)' = Reach(r)
  BY ReachSame DEF Vanish
<1>2. /\ listed' = listed /\ stack' = stack /\ future' = future /\ cancelled' = cancelled
      /\ disk' = {e \in disk : ~Within(e, {v})}
  BY DEF Vanish, walkVars
<1>3. \A r \in Dirs : (Covered(r) => Covered(r)') /\ (Complete(r) => Complete(r)')
  BY <1>1, <1>2 DEF Covered, Complete, Within
<1>4. \A d \in disk', a \in Dirs : Below(d, a) => a \in disk'
  <2> SUFFICES ASSUME NEW d \in disk', NEW a \in Dirs, Below(d, a) PROVE a \in disk'
    OBVIOUS
  <2>1. d \in disk /\ d \in Dirs /\ ~(d = v \/ Below(d, v))
    BY <1>2 DEF Within, TypeOK
  <2>2. a \in disk
    BY <2>1 DEF Walks
  <2>3. ~(a = v \/ Below(a, v))
    BY <2>1, OrderAssumption
  <2> QED
    BY <1>2, <2>2, <2>3 DEF Within
<1> QED
  BY <1>2, <1>3, <1>4 DEF Walks

LEMMA WalksStep == TypeOK /\ Walks /\ Collection /\ [Next]_vars => Walks'
<1> SUFFICES ASSUME TypeOK, Walks, Collection, [Next]_vars PROVE Walks'
  OBVIOUS
<1>0. TypeOK'
  BY TypeStep
<1>1. CASE UNCHANGED vars
  BY <1>0, <1>1, WalksFrame DEF vars, TypeOK
<1>2. CASE Folders \/ Dedupe \/ LookCancel \/ WaitTimesOut \/ WaitFirst \/ CheckCancel \/ Ingest
  <2>1. UNCHANGED <<config, disk, walkVars, cancelled, future>>
    BY <1>2 DEF Folders, Dedupe, LookCancel, WaitTimesOut, WaitFirst, CheckCancel, Ingest
  <2> QED
    BY <1>0, <2>1, WalksFrame DEF TypeOK
<1>3. CASE Submit
  BY <1>3, WalksSubmit
<1>4. CASE Abort
  <2>1. UNCHANGED <<config, disk, walkVars, cancelled>>
    BY <1>4 DEF Abort
  <2>2. \A r \in Dirs : future'[r] = future[r] \/ future'[r] = "dropped"
    BY <1>4 DEF Abort
  <2> QED
    BY <1>0, <2>1, <2>2, WalksFrame DEF TypeOK
<1>5. ASSUME NEW r \in Dirs, Take(r) \/ WalkRaises(r) \/ WalkCancelled(r) PROVE Walks'
  <2>1. UNCHANGED <<config, disk, walkVars, cancelled>>
    BY <1>5 DEF Take, WalkRaises, WalkCancelled
  <2>2. /\ \A k \in Dirs \ {r} : future'[k] = future[k]
        /\ \/ future[r] = "queued" /\ future'[r] = "running"
           \/ future'[r] = "raised"
           \/ future'[r] = "done" /\ cancelled'
    BY <1>5 DEF Take, WalkRaises, WalkCancelled, Goto, TypeOK
  <2> QED
    BY <1>0, <2>1, <2>2, WalksFrame DEF TypeOK
<1>6. ASSUME NEW r \in Dirs, WalkEnds(r) PROVE Walks'
  <2>1. UNCHANGED <<config, disk, walkVars, cancelled>>
    BY <1>6 DEF WalkEnds
  <2>2. \A k : Reach(k)' = Reach(k)
    BY <2>1, ReachSame
  <2>3. \A k \in Dirs : (Covered(k) => Covered(k)') /\ (Complete(k) => Complete(k)')
    BY <2>1, <2>2 DEF Covered, Complete, Within, walkVars
  <2>4. Complete(r)
    BY <1>6 DEF WalkEnds, Walks, Covered, Complete, Within
  <2>5. future'[r] = "done" /\ \A k \in Dirs \ {r} : future'[k] = future[k]
    BY <1>6 DEF WalkEnds, Goto, TypeOK
  <2> QED
    BY <2>1, <2>3, <2>4, <2>5 DEF Walks, walkVars
<1>7. ASSUME NEW r \in Dirs, NEW d \in Dirs, WalkDir(r, d) PROVE Walks'
  BY <1>7, WalksDir
<1>8. CASE Cancel
  <2>1. UNCHANGED <<config, disk, walkVars, future>> /\ cancelled'
    BY <1>8 DEF Cancel
  <2> QED
    BY <1>0, <2>1, WalksFrame DEF TypeOK
<1>9. ASSUME NEW d \in Dirs, Vanish(d) PROVE Walks'
  BY <1>9, WalksVanish
<1> QED
  BY <1>1, <1>2, <1>3, <1>4, <1>5, <1>6, <1>7, <1>8, <1>9 DEF Next, ScanThread, Worker

------------------------------------------------------------------------------
(* The collection. *)

(* What is taken of a folder is complete, and no file is taken twice. *)
Taken == WholeOrNothing /\ FoundOnce

LEMMA RestInit == Init => Collection /\ Taken
  BY DEF Init, Collection, Taken, WholeOrNothing, FoundOnce

(* What the steps that take no result leave alone. *)
LEMMA TakenFrame ==
  ASSUME Taken, UNCHANGED <<config, ingested, found>>, disk' \subseteq disk
  PROVE  Taken'
<1>1. \A r : Reach(r)' = Reach(r)
  BY ReachSame
<1> QED
  BY <1>1 DEF Taken, WholeOrNothing, FoundOnce

LEMMA CompleteFrame ==
  ASSUME TypeOK, Collection, UNCHANGED config, disk' \subseteq disk, UNCHANGED last,
         pc = "ingest", future[last] = "done", listed'[last] = listed[last]
  PROVE  Complete(last)'
<1>1. \A r : Reach(r)' = Reach(r)
  BY ReachSame
<1> QED
  BY <1>1 DEF Collection, Complete

(* Steps of the workers, the user and the network. *)
LEMMA CollectionWorld ==
  ASSUME TypeOK, Collection, disk' \subseteq disk,
         UNCHANGED <<config, pc, roots, pending, last, ingested, found>>,
         future' \in [Dirs -> Futures], listed' \in [Dirs -> SUBSET Dirs],
         \A r \in Dirs : \/ future'[r] = future[r] /\ listed'[r] = listed[r]
                         \/ future[r] \in {"queued", "running"} /\ future'[r] # "none"
  PROVE  Collection'
<1>1. ASSUME pc = "ingest", future'[last] = "done" PROVE Complete(last)'
  <2>1. last \in Finished /\ last \in Dirs
    BY <1>1 DEF Collection, TypeOK
  <2>2. future'[last] = future[last] /\ listed'[last] = listed[last]
    BY <2>1 DEF Finished
  <2> QED
    BY <1>1, <2>2, CompleteFrame
<1>2. ASSUME pc \in {"check", "ingest"} PROVE last \in Finished'
  <2>1. last \in Finished /\ last \in Dirs
    BY <1>2 DEF Collection, TypeOK
  <2>2. future'[last] = future[last]
    BY <2>1 DEF Finished
  <2> QED
    BY <2>1, <2>2 DEF Finished
<1>3. \A r \in Dirs : future'[r] # "none" <=> future[r] # "none"
  OBVIOUS
<1>4. {r \in Dirs : future'[r] # "none"} = {r \in Dirs : future[r] # "none"}
  BY <1>3
<1> QED
  BY <1>1, <1>2, <1>3, <1>4 DEF Collection

LEMMA CollectionScan ==
  ASSUME TypeOK, Walks, Collection,
         Folders \/ Dedupe \/ Submit \/ Abort \/ LookCancel \/ WaitTimesOut \/ WaitFirst
           \/ CheckCancel
  PROVE  Collection' /\ UNCHANGED <<config, ingested, found, disk>>
<1>0. UNCHANGED <<config, ingested, found, disk, listed>>
  BY DEF Folders, Dedupe, Submit, Abort, LookCancel, WaitTimesOut, WaitFirst, CheckCancel, walkVars
<1>1. CASE Folders \/ Dedupe
  BY <1>0, <1>1 DEF Folders, Dedupe, Collection
<1>2. CASE Submit
  <2>1. \A r \in Dirs : future'[r] = IF r \in roots \cap disk THEN "queued" ELSE "none"
    BY <1>2 DEF Submit
  <2>2. pending' = roots \cap disk /\ roots' = roots /\ pc' \in {"wait", "over"} /\ ingested' = {}
    BY <1>2 DEF Submit, Collection
  <2>3. \A d \in Dirs : found'[d] > 0 => \E r \in ingested' : d = r \/ Below(d, r)
    BY <1>0, <1>2 DEF Submit, Collection
  <2>4. pending' \subseteq {r \in Dirs : future'[r] # "none"}
    BY <2>1, <2>2 DEF TypeOK
  <2>5. (\A r, k \in roots : ~Below(r, k)) /\ \A r \in Dirs : future'[r] # "none" => r \in roots
    BY <1>2, <2>1 DEF Submit, Collection
  <2>6. \A r, k \in roots' : ~Below(r, k)
    BY <2>2, <2>5
  <2>7. \A r \in Dirs : future'[r] # "none" => r \in roots'
    BY <2>2, <2>5
  <2> QED
    BY <1>0, <2>2, <2>3, <2>4, <2>6, <2>7 DEF Collection
<1>3. CASE Abort
  <2>1. \A r \in Dirs : future'[r] # "none" <=> future[r] # "none"
    BY <1>3 DEF Abort
  <2>2. {r \in Dirs : future'[r] # "none"} = {r \in Dirs : future[r] # "none"}
    BY <2>1
  <2>3. UNCHANGED <<roots, pending>> /\ pc' = "over" /\ pc \notin {"folders", "dedupe", "submit"}
    BY <1>3 DEF Abort
  <2> QED
    BY <1>0, <2>1, <2>2, <2>3 DEF Collection
<1>4. CASE LookCancel \/ WaitTimesOut
  BY <1>0, <1>4 DEF LookCancel, WaitTimesOut, Collection
<1>5. CASE WaitFirst
  <2>1. last' \in pending \cap Finished /\ pending' = pending \ Finished /\ pc' = "check"
    BY <1>5 DEF WaitFirst
  <2>2. UNCHANGED <<roots, future>> /\ pc = "select"
    BY <1>5 DEF WaitFirst
  <2>3. last' \in Finished' /\ last' \notin pending' \cup ingested'
    BY <1>0, <2>1, <2>2 DEF Finished, Collection
  <2> QED
    BY <1>0, <2>1, <2>2, <2>3 DEF Collection
<1>6. CASE CheckCancel
  <2>1. UNCHANGED <<roots, future, pending, last>> /\ pc = "check" /\ pc' = "ingest" /\ ~cancelled
    BY <1>6 DEF CheckCancel
  <2>2. last \in Dirs /\ \A r : Reach(r)' = Reach(r)
    BY <1>0, ReachSame DEF TypeOK
  <2>3. future[last] = "done" => Complete(last)'
    BY <1>0, <2>1, <2>2 DEF Walks, Complete
  <2> QED
    BY <1>0, <2>1, <2>3 DEF Collection, Finished
<1> QED
  BY <1>0, <1>1, <1>2, <1>3, <1>4, <1>5, <1>6

LEMMA IngestStep ==
  ASSUME TypeOK, Walks, Collection, Taken, Ingest
  PROVE  Collection' /\ Taken'
<1>1. UNCHANGED <<config, disk, roots, future, pending, last, listed>> /\ pc = "ingest"
  BY DEF Ingest, walkVars
<1>2. pc' \in {"over", "wait"}
  BY DEF Ingest
<1>3. \A r : Reach(r)' = Reach(r)
  BY <1>1, ReachSame
<1>4. last \in Dirs /\ last \in Finished /\ last \notin pending \cup ingested
  BY <1>1 DEF Collection, TypeOK
<1>5. CASE ingested' = ingested /\ found' = found
  <2>1. Taken'
    BY <1>1, <1>5, TakenFrame
  <2>2. Collection'
    BY <1>1, <1>2, <1>5 DEF Collection
  <2> QED
    BY <2>1, <2>2
<1>6. CASE /\ future[last] = "done" /\ ingested' = ingested \cup {last}
           /\ found' = [d \in Dirs |-> IF d \in listed[last] THEN found[d] + 1 ELSE found[d]]
  <2>1. \A d \in listed[last] : d \in Dirs /\ (d = last \/ Below(d, last))
    BY <1>4 DEF Walks, TypeOK
  <2>2. \A r \in ingested : r \in Dirs /\ r \in roots /\ r # last
    BY <1>4 DEF Collection, TypeOK
  <2>3. last \in roots /\ \A r, k \in roots : ~Below(r, k)
    BY <1>1, <1>4, <1>6 DEF Collection
  <2>4. \A d \in listed[last] : found[d] = 0
    <3> SUFFICES ASSUME NEW d \in listed[last], found[d] # 0 PROVE FALSE
      OBVIOUS
    <3>1. found[d] > 0
      BY <2>1 DEF TypeOK
    <3>2. PICK r \in ingested : d = r \/ Below(d, r)
      BY <2>1, <3>1 DEF Collection
    <3>3. r = last \/ Below(r, last) \/ Below(last, r)
      BY <1>4, <2>1, <2>2, <3>2, OrderAssumption
    <3> QED
      BY <2>2, <2>3, <3>3
  <2>5. \A d \in Dirs : found'[d] >= found[d] /\ found'[d] <= 1
    BY <1>6, <2>4 DEF Taken, FoundOnce, TypeOK
  <2>6. \A d \in listed[last] : found'[d] > 0
    BY <1>6, <2>1, <2>4
  <2>7. \A r \in ingested' : \A d \in Reach(r) \cap disk : found'[d] > 0
    <3>1. \A d \in Reach(last) \cap disk : d \in listed[last]
      BY <1>1, <1>6 DEF Collection, Complete
    <3>2. \A r \in ingested : \A d \in Reach(r) \cap disk : d \in Dirs /\ found[d] > 0
      BY DEF TypeOK, Taken, WholeOrNothing
    <3>3. \A d \in Dirs : found[d] > 0 => found'[d] > 0
      BY <1>6 DEF TypeOK
    <3> QED
      BY <1>6, <2>6, <3>1, <3>2, <3>3
  <2>8. Taken'
    BY <1>1, <1>3, <2>5, <2>7 DEF Taken, WholeOrNothing, FoundOnce
  <2>9. \A d \in Dirs : found'[d] > 0 => \E r \in ingested' : d = r \/ Below(d, r)
    BY <1>6, <2>1 DEF Collection
  <2>10. ingested' \cup pending' \subseteq {r \in Dirs : future'[r] # "none"}
    BY <1>1, <1>4, <1>6 DEF Collection
  <2>11. ingested' \cap pending' = {}
    BY <1>1, <1>4, <1>6 DEF Collection
  <2>12. Collection'
    BY <1>1, <1>2, <2>9, <2>10, <2>11 DEF Collection
  <2> QED
    BY <2>8, <2>12
<1> QED
  BY <1>5, <1>6 DEF Ingest

LEMMA RestStep ==
  ASSUME IInv, [Next]_vars
  PROVE  Collection' /\ Taken'
<1>0. TypeOK /\ TypeOK' /\ Walks /\ Collection /\ Taken
  BY TypeStep DEF IInv, Taken
<1>1. CASE UNCHANGED vars
  <2>1. Taken'
    BY <1>0, <1>1, TakenFrame DEF vars
  <2>2. \A r : Reach(r)' = Reach(r)
    BY <1>1, ReachSame DEF vars
  <2>3. Collection'
    BY <1>0, <1>1, <2>2 DEF vars, walkVars, Collection, Complete, Finished
  <2> QED
    BY <2>1, <2>3
<1>2. CASE Folders \/ Dedupe \/ Submit \/ Abort \/ LookCancel \/ WaitTimesOut \/ WaitFirst
             \/ CheckCancel
  BY <1>0, <1>2, CollectionScan, TakenFrame
<1>3. CASE Ingest
  BY <1>0, <1>3, IngestStep
<1>4. ASSUME NEW r \in Dirs, Worker(r) PROVE Collection' /\ Taken'
  <2>1. UNCHANGED <<config, pc, roots, pending, last, ingested, found>> /\ disk' = disk
    BY <1>4 DEF Worker, Take, WalkRaises, WalkCancelled, WalkEnds, WalkDir
  <2>2. \A k \in Dirs \ {r} : future'[k] = future[k] /\ listed'[k] = listed[k]
    BY <1>0, <1>4 DEF Worker, Take, WalkRaises, WalkCancelled, WalkEnds, WalkDir, Goto, TypeOK,
                      walkVars
  <2>3. future[r] \in {"queued", "running"} /\ future'[r] # "none"
    BY <1>0, <1>4 DEF Worker, Take, WalkRaises, WalkCancelled, WalkEnds, WalkDir, Goto, TypeOK
  <2>4. Collection'
    BY <1>0, <2>1, <2>2, <2>3, CollectionWorld DEF TypeOK
  <2> QED
    BY <1>0, <2>1, <2>4, TakenFrame
<1>5. CASE Cancel \/ \E d \in Dirs : Vanish(d)
  <2>1. /\ UNCHANGED <<config, pc, roots, pending, last, ingested, found, future, listed>>
        /\ disk' \subseteq disk
    BY <1>5 DEF Cancel, Vanish, walkVars
  <2>2. Collection'
    BY <1>0, <2>1, CollectionWorld DEF TypeOK
  <2> QED
    BY <1>0, <2>1, <2>2, TakenFrame
<1> QED
  BY <1>1, <1>2, <1>3, <1>4, <1>5 DEF Next, ScanThread

(* The inductive invariant: a walk that has not been cut short has listed, *)
(* or has still to list, what can be read, and of the folders walked,      *)
(* which do not overlap, each is taken once.                               *)
THEOREM Invariant == Spec => []IInv
<1>1. Init => IInv
  BY TypeInit, WalksInit, RestInit DEF IInv, Taken
<1>2. IInv /\ [Next]_vars => IInv'
  <2> SUFFICES ASSUME IInv, [Next]_vars PROVE IInv'
    OBVIOUS
  <2>1. TypeOK' /\ Walks'
    BY TypeStep, WalksStep DEF IInv
  <2> QED
    BY <2>1, RestStep DEF IInv, Taken
<1> QED
  BY <1>1, <1>2, PTL DEF Spec

(* Of a folder everything is taken that can still be read, or nothing.     *)
THEOREM WholeOrNothingHolds == Spec => []WholeOrNothing
<1>1. IInv => WholeOrNothing
  BY DEF IInv
<1> QED
  BY <1>1, Invariant, PTL

(* No file is counted twice, whatever folders overlap.                     *)
THEOREM FoundOnceHolds == Spec => []FoundOnce
<1>1. IInv => FoundOnce
  BY DEF IInv
<1> QED
  BY <1>1, Invariant, PTL

------------------------------------------------------------------------------
(* A folder that is walked alone. *)

(* Until it is taken or reported, its task is one that the scan thread     *)
(* waits for, or the last one it took from wait().                         *)
Lone ==
  pc \in {"wait", "select", "check", "ingest", "over"} /\ ~cancelled =>
    \A r \in roots : roots = {r} =>
      \/ future[r] = "none"
      \/ r \in ingested \cup told
      \/ r \in pending /\ pc # "over"
      \/ r = last /\ pc \in {"check", "ingest"}

LEMMA LoneInit == Init => Lone
  BY DEF Init, Lone

LEMMA LoneStep == IInv /\ Lone /\ [Next]_vars => Lone'
<1> SUFFICES ASSUME IInv, Lone, [Next]_vars,
                    pc' \in {"wait", "select", "check", "ingest", "over"}, ~cancelled',
                    NEW r \in roots', roots' = {r}
             PROVE  \/ future'[r] = "none"
                    \/ r \in ingested' \cup told'
                    \/ r \in pending' /\ pc' # "over"
                    \/ r = last' /\ pc' \in {"check", "ingest"}
  BY DEF Lone
<1>0. TypeOK /\ Collection
  BY DEF IInv
<1>1. CASE Folders \/ Dedupe
  BY <1>1 DEF Folders, Dedupe
<1>2. CASE Submit
  <2>1. r \in Dirs /\ r \in roots
    BY <1>0, <1>2 DEF Submit, TypeOK
  <2>2. future'[r] = IF r \in roots \cap disk THEN "queued" ELSE "none"
    BY <1>2, <2>1 DEF Submit
  <2> QED
    BY <1>2, <2>1, <2>2 DEF Submit
<1>3. CASE Abort
  BY <1>3 DEF Abort
<1>4. CASE LookCancel \/ WaitTimesOut \/ CheckCancel
  BY <1>4 DEF LookCancel, WaitTimesOut, CheckCancel, Lone
<1>5. CASE WaitFirst
  <2>1. /\ last' \in pending /\ pc = "select" /\ pc' = "check"
        /\ UNCHANGED <<roots, future, ingested, told, cancelled>>
    BY <1>5 DEF WaitFirst
  <2>2. last' \in roots
    BY <1>0, <2>1 DEF Collection
  <2> QED
    BY <2>1, <2>2
<1>6. CASE Ingest
  <2>1. /\ UNCHANGED <<roots, future, pending, last, cancelled>>
        /\ ingested \subseteq ingested' /\ told \subseteq told'
        /\ last \in ingested' \cup told'
        /\ pc = "ingest" /\ pc' = IF pending = {} THEN "over" ELSE "wait"
    BY <1>6 DEF Ingest
  <2> QED
    BY <2>1 DEF Lone
<1>7. ASSUME NEW k \in Dirs, Worker(k) PROVE future'[r] = "none" <=> future[r] = "none"
  BY <1>0, <1>7 DEF Worker, Take, WalkRaises, WalkCancelled, WalkEnds, WalkDir, Goto, TypeOK
<1>8. CASE (\E k \in Dirs : Worker(k)) \/ Cancel \/ (\E d \in Dirs : Vanish(d)) \/ UNCHANGED vars
  <2>1. CASE \E k \in Dirs : Worker(k)
    <3>1. UNCHANGED <<pc, roots, pending, last, ingested, told, cancelled>>
      BY <2>1 DEF Worker, Take, WalkRaises, WalkCancelled, WalkEnds, WalkDir
    <3> QED
      BY <1>7, <2>1, <3>1 DEF Lone
  <2>2. CASE Cancel
    BY <2>2 DEF Cancel
  <2>3. CASE (\E d \in Dirs : Vanish(d)) \/ UNCHANGED vars
    BY <2>3 DEF Vanish, vars, Lone
  <2> QED
    BY <1>8, <2>1, <2>2, <2>3
<1> QED
  BY <1>1, <1>2, <1>3, <1>4, <1>5, <1>6, <1>8 DEF Next, ScanThread

(* A scan that walks one folder takes its files or reports it, for any     *)
(* number of workers, any directories that go away, any refusals of the    *)
(* store, unless it is cancelled or the folder had gone before it had a    *)
(* task.                                                                   *)
THEOREM LoneFolderHandledHolds == Spec => []LoneFolderHandled
<1>1. ASSUME IInv, Lone PROVE LoneFolderHandled
  <2> SUFFICES ASSUME pc = "over", ~cancelled, Cardinality(roots) = 1, NEW r \in roots
               PROVE  future[r] = "none" \/ r \in ingested \cup told
    BY DEF LoneFolderHandled
  <2>1. IsFiniteSet(roots)
    BY <1>1, DirsAssumption, FS_Subset DEF IInv, TypeOK, DirsAssumption
  <2>2. roots = {r}
    BY <2>1, FS_Singleton
  <2> QED
    BY <1>1, <2>2 DEF Lone
<1> QED
  BY <1>1, LoneInit, LoneStep, Invariant, PTL DEF Spec
===============================================================================
