------------------------ MODULE CheckpointStore_proofs ------------------------
(***************************************************************************)
(* Proofs about CheckpointStore, for any number of files, scans and        *)
(* faults and any page size.                                               *)
(***************************************************************************)
EXTENDS CheckpointStore, FiniteSetTheorems, TLAPS

USE SizesAssumption, ScopesAssumption
    DEF SizesAssumption, ScopesAssumption, dbVars, loadVars, hashVars

------------------------------------------------------------------------------
(* What the store's operations return. *)

Tables  == [Manifests -> [Files -> Marks]]
Results == [Manifests -> [Files -> {"absent", "complete", "error"}]]

(* A write of results changes rows that exist, and to results only. *)
LEMMA WrittenRows ==
  ASSUME row \in Tables, NEW r \in Results
  PROVE  /\ Written(r) \in Tables
         /\ \A m \in Manifests, f \in Files :
              /\ Written(r)[m][f] = "absent" <=> row[m][f] = "absent"
              /\ Written(r)[m][f] = "pending" => row[m][f] = "pending" /\ r[m][f] = "absent"
  BY DEF Tables, Results, Marks, Written

(* An insertion changes absent rows of one manifest only. *)
LEMMA InsertedRows ==
  ASSUME row \in Tables, NEW m \in Manifests, NEW fs
  PROVE  /\ Insert(m, fs) \in Tables
         /\ \A k \in Manifests, f \in Files :
              /\ row[k][f] # "absent" => Insert(m, fs)[k][f] = row[k][f]
              /\ k # m => Insert(m, fs)[k][f] = row[k][f]
  BY DEF Tables, Marks, Insert

LEMMA NothingType == Nothing \in Results /\ Nothing \in Tables
  BY DEF Nothing, Results, Tables, Marks

(* A result stored under any manifest and file leaves a table of results. *)
LEMMA OneResult ==
  ASSUME NEW r \in Results, NEW m, NEW f \in Files, NEW st \in {"complete", "error"}
  PROVE  [r EXCEPT ![m][f] = st] \in Results
<1>1. CASE m \in Manifests
  BY <1>1 DEF Results
<1>2. CASE m \notin Manifests
  <2>1. [r EXCEPT ![m][f] = st] = r
    BY <1>2 DEF Results
  <2> QED
    BY <2>1
<1> QED
  BY <1>1, <1>2

LEMMA ForgetTypes ==
  ASSUME Forget
  PROVE  kind' = "new" /\ offset' \in Nat /\ loaded' \in [Files -> Nat] /\ disturbed' \in BOOLEAN
  BY DEF Forget

(* What leaving the scan does to the types. *)
LEMMA LeaveTypes ==
  ASSUME TypeOK, cur \in Manifests, LeavePool
  PROVE  zombies' \subseteq Manifests \X Files /\ inflight' \subseteq Files /\ todo' \subseteq Files
<1>1. {<<cur, f>> : f \in inflight} \subseteq Manifests \X Files
  BY DEF TypeOK
<1> QED
  BY <1>1 DEF TypeOK, LeavePool

(* The steps that Next is made of. *)
LEMMA StepCases ==
  ASSUME Next
  PROVE  \/ \E m \in Manifests, sc \in Scopes : StartNew(m, sc)
         \/ \E sc \in Scopes : StartResume(sc)
         \/ \E m \in Manifests : Discard(m)
         \/ Purge \/ Walk \/ WalkFails \/ Group
         \/ LoadPage("pending", "complete") \/ LoadPage("complete", "choose")
         \/ Choose \/ HashesDone \/ CancelHashes \/ Yielded \/ Abandon \/ FlushSync
         \/ SetStatus
         \/ \E f \in Files : StartHash(f) \/ PrefetchedHash(f) \/ EndHash(f)
         \/ \E m \in Manifests, f \in Files : EndZombie(m, f)
         \/ TakeResults \/ FlushHand \/ Cancel \/ FlushRefused \/ Crash
         \/ \E f \in Files : Remove(f)
  BY DEF Next, Scan, Worker, Writer, LoadPending, LoadComplete

------------------------------------------------------------------------------
(* IInv is inductive: types first. *)

LEMMA InvInit == Init => IInv
<1> SUFFICES ASSUME Init PROVE IInv
  OBVIOUS
<1>1. TypeOK
  BY NothingType DEF Init, TypeOK, Statuses, Points, Results, Tables
<1>2. RowsBelong /\ CurLive
  BY DEF Init, RowsBelong, CurLive, HasRows, Nothing
<1> QED
  BY <1>1, <1>2 DEF IInv

LEMMA TypeStep == IInv /\ [Next]_vars => TypeOK'
<1> SUFFICES ASSUME IInv, [Next]_vars PROVE TypeOK'
  OBVIOUS
<1>t. TypeOK /\ CurLive /\ row \in Tables /\ queue \in Results /\ hand \in Results
  BY DEF IInv, TypeOK, Tables, Results
<1>1. CASE UNCHANGED vars
  BY <1>t, <1>1 DEF TypeOK, vars
<1>2. ASSUME NEW m \in Manifests, NEW sc \in Scopes, StartNew(m, sc) PROVE TypeOK'
  BY <1>t, <1>2 DEF TypeOK, StartNew, StartOn, Statuses, Points
<1>3. ASSUME NEW sc \in Scopes, StartResume(sc) PROVE TypeOK'
  BY <1>t, <1>3 DEF TypeOK, StartResume, StartOn, Latest, Resumable, Points
<1>4. ASSUME NEW m \in Manifests, Discard(m) PROVE TypeOK'
  BY <1>t, <1>4 DEF TypeOK, Discard, Statuses
<1>5. CASE Purge
  <2>1. row' \in Tables
    BY <1>t, <1>5, NothingType DEF Purge, Tables
  <2>2. status' \in [Manifests -> Statuses]
    BY <1>t, <1>5 DEF TypeOK, Purge, Statuses
  <2> QED
    BY <1>t, <1>5, <2>1, <2>2 DEF TypeOK, Purge, Points, Tables
<1>6. CASE Walk
  <2>1. row' \in Tables
    BY <1>t, <1>6, InsertedRows DEF Walk, CurLive
  <2> QED
    BY <1>t, <1>6, <2>1 DEF TypeOK, Walk, Points, Tables
<1>7. CASE WalkFails \/ HashesDone \/ Yielded \/ Cancel
  BY <1>t, <1>7 DEF TypeOK, WalkFails, HashesDone, Yielded, Cancel, Points
<1>8. CASE Group
  BY <1>t, <1>8 DEF TypeOK, Group, Points
<1>9. ASSUME NEW st \in {"pending", "complete"}, NEW next \in {"complete", "choose"},
             LoadPage(st, next)
      PROVE TypeOK'
  <2>1. cur \in Manifests
    BY <1>t, <1>9 DEF LoadPage, CurLive
  <2>2. queue' \in Results
    <3> DEFINE gone == IF st = "pending" THEN Page(Rows(cur, st)) \ disk ELSE {}
    <3>1. queue' = [queue EXCEPT ![cur] =
                      [f \in Files |-> IF f \in gone THEN "error" ELSE queue[cur][f]]]
      BY <1>9 DEF LoadPage
    <3> HIDE DEF gone
    <3> QED
      BY <1>t, <2>1, <3>1 DEF Results
  <2>3. loaded' \in [Files -> Nat]
    <3> DEFINE page == Page(Rows(cur, st))
    <3>1. loaded' = [f \in Files |-> IF f \in page \cap disk THEN loaded[f] + 1
                                                             ELSE loaded[f]]
      BY <1>9 DEF LoadPage
    <3> HIDE DEF page
    <3> QED
      BY <1>t, <3>1 DEF TypeOK
  <2>4. offset' \in Nat /\ pc' \in Points
    <3> DEFINE full == Cardinality(Page(Rows(cur, st))) = BatchSize
    <3>1. IF full THEN offset' = offset + BatchSize /\ UNCHANGED pc
                  ELSE offset' = 0 /\ pc' = next
      BY <1>9 DEF LoadPage
    <3> HIDE DEF full
    <3> QED
      BY <1>t, <3>1 DEF TypeOK, Points
  <2>5. UNCHANGED <<disk, dbVars, hand, cur, cancelled, kind, disturbed, hashVars, scans,
                    faults>>
    BY <1>9 DEF LoadPage
  <2> QED
    BY <1>t, <2>2, <2>3, <2>4, <2>5 DEF TypeOK, Results
<1>10. CASE Abandon
  <2>1. cur \in Manifests /\ LeavePool
    BY <1>t, <1>10 DEF Abandon, Leave, CurLive
  <2> QED
    BY <1>t, <1>10, <2>1, LeaveTypes, ForgetTypes DEF TypeOK, Abandon, Leave, Points
<1>11. CASE Choose
  BY <1>t, <1>11 DEF TypeOK, Choose, Forget, Points
<1>12. ASSUME NEW f \in Files, StartHash(f) \/ PrefetchedHash(f) PROVE TypeOK'
  BY <1>t, <1>12 DEF TypeOK, StartHash, PrefetchedHash
<1>13. ASSUME NEW f \in Files, EndHash(f) PROVE TypeOK'
  <2>1. queue' \in Results
    <3>1. PICK st \in {"complete", "error"} : queue' = [queue EXCEPT ![cur][f] = st]
      BY <1>13 DEF EndHash
    <3>2. [queue EXCEPT ![cur][f] = st] \in Results
      BY <1>t, OneResult
    <3> QED
      BY <3>1, <3>2
  <2> QED
    BY <1>t, <1>13, <2>1 DEF TypeOK, EndHash, Results
<1>14. ASSUME NEW m \in Manifests, NEW f \in Files, EndZombie(m, f) PROVE TypeOK'
  <2>1. queue' \in Results
    <3>1. PICK st \in {"complete", "error"} : queue' = [queue EXCEPT ![m][f] = st]
      BY <1>14 DEF EndZombie
    <3>2. [queue EXCEPT ![m][f] = st] \in Results
      BY <1>t, OneResult
    <3> QED
      BY <3>1, <3>2
  <2> QED
    BY <1>t, <1>14, <2>1 DEF TypeOK, EndZombie, Results
<1>15. CASE CancelHashes
  <2>1. cur \in Manifests /\ LeavePool
    BY <1>t, <1>15 DEF CancelHashes, Leave, CurLive
  <2>2. CASE Leave
    BY <1>t, <1>15, <2>1, <2>2, LeaveTypes, ForgetTypes DEF TypeOK, CancelHashes, Leave, Points
  <2>3. CASE pc' = "flush" /\ UNCHANGED <<cur, cancelled, loadVars>>
    BY <1>t, <1>15, <2>1, <2>3, LeaveTypes DEF TypeOK, CancelHashes, Points
  <2> QED
    BY <1>15, <2>2, <2>3 DEF CancelHashes
<1>16. CASE FlushSync
  <2>1. row' \in Tables /\ disturbed' \in BOOLEAN
    BY <1>t, <1>16, WrittenRows DEF FlushSync, WriteResults
  <2> QED
    BY <1>t, <1>16, <2>1, NothingType
       DEF TypeOK, FlushSync, FinalStatus, Points, Tables, Results
<1>17. CASE SetStatus
  <2>1. cur \in Manifests /\ LeavePool
    BY <1>t, <1>17 DEF SetStatus, Leave, CurLive
  <2>2. status' \in [Manifests -> Statuses]
    BY <1>t, <1>17 DEF TypeOK, SetStatus, Statuses
  <2> QED
    BY <1>t, <1>17, <2>1, <2>2, LeaveTypes, ForgetTypes DEF TypeOK, SetStatus, Leave, Points
<1>18. CASE TakeResults
  BY <1>t, <1>18, NothingType DEF TypeOK, TakeResults, Results
<1>19. CASE FlushHand
  <2>1. row' \in Tables /\ disturbed' \in BOOLEAN
    BY <1>t, <1>19, WrittenRows DEF FlushHand, WriteResults
  <2> QED
    BY <1>t, <1>19, <2>1, NothingType DEF TypeOK, FlushHand, Tables, Results
<1>20. CASE FlushRefused
  BY <1>t, <1>20, NothingType DEF TypeOK, FlushRefused, FinalStatus, Points, Results
<1>21. CASE Crash
  <2>1. UNCHANGED <<disk, dbVars, scans>> /\ queue' = Nothing /\ hand' = Nothing
    BY <1>21 DEF Crash
  <2>2. zombies' = {} /\ inflight' = {} /\ todo' = {} /\ pc' = "idle" /\ cur' = 0
    BY <1>21 DEF Crash
  <2>3. cancelled' = FALSE /\ faults' = faults + 1 /\ Forget
    BY <1>21 DEF Crash
  <2>4. faults' \in Nat
    BY <1>t, <2>3 DEF TypeOK
  <2> QED
    BY <1>t, <2>1, <2>2, <2>3, <2>4, NothingType, ForgetTypes DEF TypeOK, Points, Results
<1>22. ASSUME NEW f \in Files, Remove(f) PROVE TypeOK'
  BY <1>t, <1>22 DEF TypeOK, Remove
<1> QED
  BY <1>1, <1>2, <1>3, <1>4, <1>5, <1>6, <1>7, <1>8, <1>9, <1>10, <1>11, <1>12, <1>13,
     <1>14, <1>15, <1>16, <1>17, <1>18, <1>19, <1>20, <1>21, <1>22, StepCases

------------------------------------------------------------------------------
(* Rows belong to manifests that are there. *)

(* The steps that insert, delete or update rows, and those that change a   *)
(* status, are few; all others keep both tables.                           *)
LEMMA RowsStep == IInv /\ [Next]_vars => RowsBelong'
<1> SUFFICES ASSUME IInv, [Next]_vars,
                    NEW m \in Manifests, NEW f \in Files, row'[m][f] # "absent"
             PROVE  status'[m] \notin {"none", "purged"}
  BY DEF RowsBelong, HasRows
<1>t. /\ TypeOK /\ CurLive /\ RowsBelong /\ row \in Tables
      /\ queue \in Results /\ hand \in Results
  BY DEF IInv, TypeOK, Tables, Results
<1>o. row[m][f] # "absent" => status[m] \notin {"none", "purged"}
  BY <1>t DEF RowsBelong, HasRows
<1>1. CASE UNCHANGED <<row, status>>
  BY <1>1, <1>o
<1>2. ASSUME NEW k \in Manifests, NEW sc \in Scopes, StartNew(k, sc)
      PROVE status'[m] \notin {"none", "purged"}
  BY <1>2, <1>o, <1>t DEF StartNew, TypeOK
<1>3. ASSUME NEW k \in Manifests, Discard(k) PROVE status'[m] \notin {"none", "purged"}
  BY <1>3, <1>o, <1>t DEF Discard, TypeOK
<1>4. CASE Purge
  BY <1>4, <1>o, <1>t DEF Purge, Nothing, TypeOK
<1>5. CASE Walk
  <2>1. row' = Insert(cur, disk) /\ status' = status /\ cur \in Manifests
        /\ status[cur] \notin {"none", "purged"}
    BY <1>5, <1>t DEF Walk, CurLive
  <2>2. m = cur \/ row'[m][f] = row[m][f]
    BY <2>1, <1>t, InsertedRows
  <2> QED
    BY <2>1, <2>2, <1>o
<1>6. CASE FlushSync
  <2>1. row' = Written(queue) /\ status' = status
    BY <1>6 DEF FlushSync, WriteResults
  <2> QED
    BY <2>1, <1>o, <1>t, WrittenRows
<1>7. CASE FlushHand
  <2>1. row' = Written(hand) /\ status' = status
    BY <1>7 DEF FlushHand, WriteResults
  <2> QED
    BY <2>1, <1>o, <1>t, WrittenRows
<1>8. CASE SetStatus
  BY <1>8, <1>o, <1>t DEF SetStatus, TypeOK
<1>9. ASSUME \/ WalkFails \/ Group \/ Choose \/ HashesDone \/ CancelHashes \/ Yielded
             \/ Abandon \/ TakeResults \/ Cancel \/ FlushRefused \/ Crash
      PROVE UNCHANGED <<row, status>>
  BY <1>9 DEF WalkFails, Group, Choose, HashesDone, CancelHashes, Yielded, Abandon,
              TakeResults, Cancel, FlushRefused, Crash
<1>10. ASSUME \/ \E sc \in Scopes : StartResume(sc)
              \/ LoadPage("pending", "complete") \/ LoadPage("complete", "choose")
       PROVE UNCHANGED <<row, status>>
  BY <1>10 DEF StartResume, LoadPage
<1>11. ASSUME \/ \E g \in Files : \/ StartHash(g) \/ PrefetchedHash(g) \/ EndHash(g)
                                  \/ Remove(g)
              \/ \E k \in Manifests, g \in Files : EndZombie(k, g)
       PROVE UNCHANGED <<row, status>>
  BY <1>11 DEF StartHash, PrefetchedHash, EndHash, EndZombie, Remove
<1>12. CASE UNCHANGED vars
  BY <1>12, <1>1 DEF vars
<1> QED
  BY <1>1, <1>2, <1>3, <1>4, <1>5, <1>6, <1>7, <1>8, <1>9, <1>10, <1>11, <1>12, StepCases

LEMMA CurStep == IInv /\ [Next]_vars => CurLive'
<1> SUFFICES ASSUME IInv, [Next]_vars, pc' # "idle"
             PROVE  cur' \in Manifests /\ status'[cur'] \notin {"none", "purged"}
  BY DEF CurLive
<1>t. TypeOK /\ CurLive
  BY DEF IInv
<1>1. CASE UNCHANGED <<cur, status>> /\ pc # "idle"
  BY <1>1, <1>t DEF CurLive
<1>2. ASSUME NEW k \in Manifests, NEW sc \in Scopes, StartNew(k, sc)
      PROVE cur' \in Manifests /\ status'[cur'] \notin {"none", "purged"}
  BY <1>2, <1>t DEF StartNew, StartOn, TypeOK
<1>3. ASSUME NEW sc \in Scopes, StartResume(sc)
      PROVE cur' \in Manifests /\ status'[cur'] \notin {"none", "purged"}
  BY <1>3, <1>t DEF StartResume, StartOn, Latest, Resumable
<1>4. CASE Purge
  <2>1. cur \in Manifests /\ status[cur] \notin {"none", "purged"} /\ cur' = cur
    BY <1>4, <1>t DEF Purge, CurLive
  <2>2. status'[cur] = status[cur]
    BY <1>4, <2>1 DEF Purge
  <2> QED
    BY <2>1, <2>2
<1>5. CASE Abandon \/ SetStatus \/ Crash
  BY <1>5 DEF Abandon, SetStatus, Leave, Crash
<1>6. CASE CancelHashes
  BY <1>6, <1>1 DEF CancelHashes, Leave
<1>7. ASSUME \/ Walk \/ WalkFails \/ Group \/ Choose \/ HashesDone \/ Yielded \/ FlushSync
             \/ LoadPage("pending", "complete") \/ LoadPage("complete", "choose")
      PROVE UNCHANGED <<cur, status>> /\ pc # "idle"
  BY <1>7 DEF Walk, WalkFails, Group, Choose, HashesDone, Yielded, FlushSync, LoadPage
<1>8. ASSUME \E k \in Manifests : Discard(k)
      PROVE FALSE
  BY <1>8 DEF Discard
<1>9. ASSUME TakeResults \/ FlushHand \/ Cancel
      PROVE UNCHANGED <<cur, status>> /\ pc # "idle"
  BY <1>9 DEF TakeResults, FlushHand, Cancel
<1>10. CASE FlushRefused
  BY <1>10, <1>1 DEF FlushRefused
<1>11. ASSUME \/ \E g \in Files : \/ StartHash(g) \/ PrefetchedHash(g) \/ EndHash(g)
                                  \/ Remove(g)
              \/ \E k \in Manifests, g \in Files : EndZombie(k, g)
       PROVE UNCHANGED <<cur, status>> /\ pc # "idle"
  BY <1>11 DEF StartHash, PrefetchedHash, EndHash, EndZombie, Remove
<1>12. CASE UNCHANGED vars
  BY <1>12, <1>1 DEF vars
<1> QED
  BY <1>1, <1>2, <1>3, <1>4, <1>5, <1>6, <1>7, <1>8, <1>9, <1>10, <1>11, <1>12, StepCases

LEMMA InvStep == IInv /\ [Next]_vars => IInv'
  BY TypeStep, RowsStep, CurStep DEF IInv

THEOREM Invariant == Spec => []IInv
  BY InvInit, InvStep, PTL DEF Spec

(* Type correctness of CheckpointStore. *)
THEOREM TypeCorrect == Spec => []TypeOK
<1>1. IInv => TypeOK
  BY DEF IInv
<1> QED
  BY <1>1, Invariant, PTL

(* No late result brings a deleted manifest's rows back (_flush_items      *)
(* against purge_old_scans), and no walk inserts rows without a manifest.  *)
THEOREM RowsBelongHolds == Spec => []RowsBelong
<1>1. IInv => RowsBelong
  BY DEF IInv
<1> QED
  BY <1>1, Invariant, PTL

------------------------------------------------------------------------------
(* Results. *)

RowForward(m, f) ==
  row[m][f] \in {"complete", "error"} =>
    row'[m][f] # "pending" /\ (row'[m][f] = "absent" => status'[m] = "purged")

LEMMA ForwardStep ==
  ASSUME IInv, [Next]_vars, NEW m \in Manifests, NEW f \in Files
  PROVE  RowForward(m, f)
<1> SUFFICES ASSUME row[m][f] \in {"complete", "error"}
             PROVE row'[m][f] # "pending" /\ (row'[m][f] = "absent" => status'[m] = "purged")
  BY DEF RowForward
<1>t. TypeOK /\ CurLive /\ row \in Tables /\ queue \in Results /\ hand \in Results
  BY DEF IInv, TypeOK, Tables, Results
<1>1. CASE UNCHANGED row
  BY <1>1
<1>2. CASE Purge
  BY <1>2, <1>t DEF Purge, Nothing, TypeOK
<1>3. CASE Walk
  <2>1. row' = Insert(cur, disk) /\ cur \in Manifests
    BY <1>3, <1>t DEF Walk, CurLive
  <2> QED
    BY <2>1, <1>t, InsertedRows
<1>4. CASE FlushSync \/ FlushHand
  <2>1. row' = Written(queue) \/ row' = Written(hand)
    BY <1>4 DEF FlushSync, FlushHand, WriteResults
  <2> QED
    BY <2>1, <1>t, WrittenRows
<1>5. ASSUME \/ WalkFails \/ Group \/ Choose \/ HashesDone \/ CancelHashes \/ Yielded
             \/ Abandon \/ SetStatus \/ TakeResults \/ Cancel \/ FlushRefused \/ Crash
      PROVE UNCHANGED row
  BY <1>5 DEF WalkFails, Group, Choose, HashesDone, CancelHashes, Yielded, Abandon,
              SetStatus, TakeResults, Cancel, FlushRefused, Crash
<1>6. ASSUME \/ \E sc \in Scopes : StartResume(sc)
             \/ LoadPage("pending", "complete") \/ LoadPage("complete", "choose")
      PROVE UNCHANGED row
  BY <1>6 DEF StartResume, LoadPage
<1>7. ASSUME \/ \E g \in Files : \/ StartHash(g) \/ PrefetchedHash(g) \/ EndHash(g)
                                 \/ Remove(g)
             \/ \E k \in Manifests : Discard(k) \/ \E g \in Files : EndZombie(k, g)
             \/ \E k \in Manifests, sc \in Scopes : StartNew(k, sc)
      PROVE UNCHANGED row
  BY <1>7 DEF StartHash, PrefetchedHash, EndHash, EndZombie, Remove, Discard, StartNew
<1>8. CASE UNCHANGED vars
  BY <1>8, <1>1 DEF vars
<1> QED
  BY <1>1, <1>2, <1>3, <1>4, <1>5, <1>6, <1>7, <1>8, StepCases

(* INSERT OR IGNORE: no scan that comes back to a manifest makes a file    *)
(* pending whose result has come, and only a purge deletes it.             *)
THEOREM RowsForwardHolds == Spec => RowsForward
<1>1. IInv /\ [Next]_vars =>
        [\A m \in Manifests, f \in Files :
           row[m][f] \in {"complete", "error"} =>
             row'[m][f] # "pending" /\ (row'[m][f] = "absent" => status'[m] = "purged")]_vars
  BY ForwardStep DEF RowForward
<1> QED
  BY <1>1, Invariant, PTL DEF Spec, RowsForward

Lost(m, f) ==
  Waiting(m, f) /\ faults' = faults /\ ~Waiting(m, f)' /\ row'[m][f] = "pending"

LEMMA LostStep ==
  ASSUME IInv, [Next]_vars, NEW m \in Manifests, NEW f \in Files
  PROVE  ~Lost(m, f)
<1> SUFFICES ASSUME Waiting(m, f), faults' = faults, row'[m][f] = "pending"
             PROVE Waiting(m, f)'
  BY DEF Lost
<1>t. TypeOK /\ CurLive /\ row \in Tables /\ queue \in Results /\ hand \in Results
  BY DEF IInv, TypeOK, Tables, Results
<1>1. CASE UNCHANGED <<queue, hand>>
  BY <1>1 DEF Waiting
<1>2. ASSUME NEW st \in {"pending", "complete"}, NEW next \in {"complete", "choose"},
             LoadPage(st, next)
      PROVE Waiting(m, f)'
  <2> DEFINE gone == IF st = "pending" THEN Page(Rows(cur, st)) \ disk ELSE {}
  <2>1. queue' = [queue EXCEPT ![cur] =
                    [g \in Files |-> IF g \in gone THEN "error" ELSE queue[cur][g]]]
        /\ hand' = hand /\ cur \in Manifests
    BY <1>2, <1>t DEF LoadPage, CurLive
  <2> HIDE DEF gone
  <2>2. queue[m][f] # "absent" => queue'[m][f] # "absent"
    BY <1>t, <2>1 DEF Results
  <2> QED
    BY <2>1, <2>2 DEF Waiting
<1>3. ASSUME NEW g \in Files, NEW k, NEW st \in {"complete", "error"},
             queue' = [queue EXCEPT ![k][g] = st], hand' = hand
      PROVE Waiting(m, f)'
  <2>1. queue[m][f] # "absent" => queue'[m][f] # "absent"
    BY <1>t, <1>3 DEF Results
  <2> QED
    BY <1>3, <2>1 DEF Waiting
<1>4. ASSUME NEW g \in Files, EndHash(g) PROVE Waiting(m, f)'
  <2>1. PICK st \in {"complete", "error"} : queue' = [queue EXCEPT ![cur][g] = st]
    BY <1>4 DEF EndHash
  <2>2. hand' = hand
    BY <1>4 DEF EndHash
  <2> QED
    BY <2>1, <2>2, <1>3
<1>5. ASSUME NEW k \in Manifests, NEW g \in Files, EndZombie(k, g) PROVE Waiting(m, f)'
  <2>1. PICK st \in {"complete", "error"} : queue' = [queue EXCEPT ![k][g] = st]
    BY <1>5 DEF EndZombie
  <2>2. hand' = hand
    BY <1>5 DEF EndZombie
  <2> QED
    BY <2>1, <2>2, <1>3
<1>6. CASE TakeResults
  BY <1>6, <1>t DEF TakeResults, Waiting, Results
<1>7. CASE FlushSync
  <2>1. row' = Written(queue) /\ hand' = hand
    BY <1>7 DEF FlushSync, WriteResults
  <2>2. queue[m][f] = "absent"
    BY <2>1, <1>t, WrittenRows
  <2> QED
    BY <2>1, <2>2 DEF Waiting
<1>8. CASE FlushHand
  <2>1. row' = Written(hand) /\ queue' = queue
    BY <1>8 DEF FlushHand, WriteResults
  <2>2. hand[m][f] = "absent"
    BY <2>1, <1>t, WrittenRows
  <2> QED
    BY <2>1, <2>2 DEF Waiting
<1>9. CASE FlushRefused \/ Crash
  BY <1>9, <1>t DEF FlushRefused, Crash, TypeOK
<1>10. ASSUME \/ Purge \/ Walk \/ WalkFails \/ Group \/ Choose \/ HashesDone
              \/ CancelHashes \/ Yielded \/ Abandon \/ SetStatus \/ Cancel
       PROVE UNCHANGED <<queue, hand>>
  BY <1>10 DEF Purge, Walk, WalkFails, Group, Choose, HashesDone, CancelHashes, Yielded,
               Abandon, SetStatus, Cancel
<1>11. ASSUME \/ \E g \in Files : StartHash(g) \/ PrefetchedHash(g) \/ Remove(g)
              \/ \E k \in Manifests : Discard(k)
              \/ \E k \in Manifests, sc \in Scopes : StartNew(k, sc)
              \/ \E sc \in Scopes : StartResume(sc)
       PROVE UNCHANGED <<queue, hand>>
  BY <1>11 DEF StartHash, PrefetchedHash, Remove, Discard, StartNew, StartResume
<1>12. CASE UNCHANGED vars
  BY <1>12, <1>1 DEF vars
<1> QED
  BY <1>1, <1>2, <1>4, <1>5, <1>6, <1>7, <1>8, <1>9, <1>10, <1>11, <1>12, StepCases

(* The writer thread and flush_sync both empty the queue; between them no  *)
(* result is lost.                                                         *)
THEOREM ResultsNotLostHolds == Spec => ResultsNotLost
<1>1. IInv /\ [Next]_vars =>
        [\A m \in Manifests, f \in Files :
           Waiting(m, f) /\ faults' = faults => Waiting(m, f)' \/ row'[m][f] # "pending"]_vars
  BY LostStep DEF Lost
<1> QED
  BY <1>1, Invariant, PTL DEF Spec, ResultsNotLost
------------------------------------------------------------------------------
(* What a scan loads, page by page.                                         *)

\* The place of a row in a query's order.
PlaceIn(fs, f) == Cardinality({g \in fs : g <= f})

(* Between scans and outside the loading nothing is loaded, and only a scan *)
(* that resumes reads pages.                                                *)
Unread ==
  /\ pc \notin {"pending", "complete", "choose"} =>
       offset = 0 /\ loaded = [f \in Files |-> 0] /\ kind # "resumed"
  /\ pc \in {"pending", "complete"} => kind = "resumed"
  /\ pc = "idle" => kind = "new"
  /\ inflight # {} => pc = "hash"

(* Nobody has a result for a manifest that is not there, or whose first     *)
(* scan has not begun to hash.                                              *)
NewManifest(m) ==
  status[m] = "none" \/ (m = cur /\ kind = "new" /\ pc \in {"clean", "walk", "group", "choose"})

NothingYet ==
  \A m \in Manifests, f \in Files : NewManifest(m) =>
    /\ queue[m][f] = "absent" /\ hand[m][f] = "absent" /\ <<m, f>> \notin zombies
    /\ row[m][f] \in {"absent", "pending"}

(* The pages read so far: each file of them that is there was loaded once.  *)
Read(st, f) == row[cur][f] = st /\ PlaceIn(Rows(cur, st), f) <= offset

HasLoaded(f) ==
  CASE pc = "pending"  -> Read("pending", f)
    [] pc = "complete" -> row[cur][f] = "pending" \/ Read("complete", f)
    [] OTHER           -> row[cur][f] \in {"pending", "complete"}

PagesRead ==
  pc \in {"pending", "complete", "choose"} /\ kind # "again" /\ ~disturbed =>
    \A f \in Files :
      /\ loaded[f] \in {0, 1}
      /\ loaded[f] = 1 => HasLoaded(f)
      /\ f \in disk /\ HasLoaded(f) => loaded[f] = 1

LInv == IInv /\ Unread /\ NothingYet /\ PagesRead

LEMMA FilesFinite == IsFiniteSet(Files) /\ Files \subseteq Nat
  BY FS_Interval DEF Files

(* The rows of a query are numbered from one, without a gap.                *)
LEMMA Places ==
  ASSUME NEW fs \in SUBSET Files
  PROVE  /\ IsFiniteSet(fs) /\ Cardinality(fs) \in Nat
         /\ \A f \in fs : PlaceIn(fs, f) \in 1..Cardinality(fs)
         /\ \A f, g \in fs : f < g => PlaceIn(fs, f) < PlaceIn(fs, g)
         /\ \A p \in 1..Cardinality(fs) : \E f \in fs : PlaceIn(fs, f) = p
<1> DEFINE Upto(f) == {g \in fs : g <= f}
<1>1. IsFiniteSet(fs) /\ Cardinality(fs) \in Nat /\ fs \subseteq Nat
  BY FilesFinite, FS_Subset, FS_CardinalityType
<1>2. ASSUME NEW f \in fs
      PROVE  /\ Upto(f) \in SUBSET fs /\ IsFiniteSet(Upto(f)) /\ f \in Upto(f)
             /\ PlaceIn(fs, f) = Cardinality(Upto(f)) /\ PlaceIn(fs, f) \in 1..Cardinality(fs)
  <2>1. Upto(f) \in SUBSET fs /\ f \in Upto(f) /\ PlaceIn(fs, f) = Cardinality(Upto(f))
    BY <1>1 DEF PlaceIn
  <2> HIDE DEF Upto
  <2>2. IsFiniteSet(Upto(f)) /\ Cardinality(Upto(f)) <= Cardinality(fs)
    BY <1>1, <2>1, FS_Subset
  <2>3. Cardinality(Upto(f)) \in Nat /\ Cardinality(Upto(f)) # 0
    BY <2>1, <2>2, FS_CardinalityType, FS_EmptySet
  <2> QED
    BY <1>1, <2>1, <2>2, <2>3
<1>3. ASSUME NEW f \in fs, NEW g \in fs, f < g PROVE PlaceIn(fs, f) < PlaceIn(fs, g)
  <2>1. Upto(f) \in SUBSET Upto(g) /\ g \notin Upto(f) /\ g \in Upto(g)
    <3>1. f \in Nat /\ g \in Nat /\ ~(g <= f) /\ g <= g
      BY <1>1, <1>3
    <3>2. \A h \in fs : h <= f => h <= g
      BY <1>1, <1>3
    <3> QED
      BY <3>1, <3>2
  <2> HIDE DEF Upto
  <2>2. Cardinality(Upto(f)) <= Cardinality(Upto(g)) /\ Cardinality(Upto(g)) # Cardinality(Upto(f))
    BY <1>2, <2>1, FS_Subset
  <2>3. PlaceIn(fs, f) \in Nat /\ PlaceIn(fs, g) \in Nat
    BY <1>1, <1>2
  <2> QED
    BY <1>2, <2>2, <2>3
<1>4. \A p \in 1..Cardinality(fs) : \E f \in fs : PlaceIn(fs, f) = p
  <2> DEFINE n == Cardinality(fs)
             place == [f \in fs |-> PlaceIn(fs, f)]
  <2>1. place \in [fs -> 1..n] /\ \A f \in fs : place[f] = PlaceIn(fs, f)
    BY <1>2
  <2>2. ASSUME NEW f \in fs, NEW g \in fs, f # g PROVE place[f] # place[g]
    <3>1. f \in Nat /\ g \in Nat /\ (f < g \/ g < f)
      BY <1>1, <2>2
    <3>2. \A h \in fs : PlaceIn(fs, h) \in Nat
      <4> HIDE DEF Upto
      <4>1. \A h \in fs : PlaceIn(fs, h) \in 1..Cardinality(fs)
        BY <1>2
      <4> QED
        BY <1>1, <4>1
    <3> QED
      BY <1>3, <2>1, <3>1, <3>2
  <2> HIDE DEF place
  <2>3. place \in Injection(fs, 1..n)
    BY <2>1, <2>2 DEF Injection, IsInjective
  <2>4. IsFiniteSet(1..n) /\ Cardinality(1..n) = n
    BY <1>1, FS_Interval
  <2>5. place \in Surjection(fs, 1..n)
    BY <2>3, <2>4, FS_Injection
  <2> QED
    BY <2>1, <2>5 DEF Surjection
<1> QED
  BY <1>1, <1>2, <1>3, <1>4

(* A page that is not full is the last.                                     *)
LEMMA LastPage ==
  ASSUME NEW fs \in SUBSET Files, offset \in Nat, Cardinality(Page(fs)) # BatchSize
  PROVE  \A f \in fs : PlaceIn(fs, f) <= offset + BatchSize
<1> DEFINE page == {f \in fs : offset < PlaceIn(fs, f) /\ PlaceIn(fs, f) <= offset + BatchSize}
           slots == (offset + 1)..(offset + BatchSize)
           n == Cardinality(fs)
<1>1. Page(fs) = page
  BY DEF Page, PlaceIn
<1>2. /\ IsFiniteSet(fs) /\ n \in Nat
      /\ \A f \in fs : PlaceIn(fs, f) \in 1..n
      /\ \A f, g \in fs : f < g => PlaceIn(fs, f) < PlaceIn(fs, g)
      /\ \A p \in 1..n : \E f \in fs : PlaceIn(fs, f) = p
  BY Places
<1>3. IsFiniteSet(slots) /\ Cardinality(slots) = BatchSize
  BY FS_Interval
<1> SUFFICES ASSUME NEW f \in fs, PlaceIn(fs, f) > offset + BatchSize PROVE FALSE
  BY <1>2
<1>4. offset + BatchSize <= n
  BY <1>2
<1> DEFINE place == [g \in page |-> PlaceIn(fs, g)]
<1>5. place \in [page -> slots] /\ \A g \in page : place[g] = PlaceIn(fs, g)
  BY <1>2
<1>6. ASSUME NEW g \in page, NEW h \in page, g # h PROVE place[g] # place[h]
  <2>1. g \in Nat /\ h \in Nat /\ (g < h \/ h < g) /\ g \in fs /\ h \in fs
    BY <1>6, FilesFinite
  <2>2. PlaceIn(fs, g) \in Nat /\ PlaceIn(fs, h) \in Nat
    BY <1>2, <2>1
  <2> QED
    BY <1>2, <1>5, <2>1, <2>2
<1>7. \A p \in slots : \E g \in page : place[g] = p
  <2> SUFFICES ASSUME NEW p \in slots PROVE \E g \in page : place[g] = p
    OBVIOUS
  <2>1. p \in 1..n /\ offset < p /\ p <= offset + BatchSize
    BY <1>2, <1>4
  <2>2. PICK g \in fs : PlaceIn(fs, g) = p
    BY <1>2, <2>1
  <2>3. g \in page
    BY <2>1, <2>2
  <2> QED
    BY <1>5, <2>2, <2>3
<1> HIDE DEF place, page, slots
<1>8. place \in Injection(page, slots) /\ place \in Surjection(page, slots)
  BY <1>5, <1>6, <1>7 DEF Injection, Surjection, IsInjective
<1>9. Cardinality(page) = Cardinality(slots)
  BY <1>3, <1>8, FS_Injection
<1> QED
  BY <1>1, <1>3, <1>9

LEMMA LoadInit == Init => LInv
<1> SUFFICES ASSUME Init PROVE LInv
  OBVIOUS
<1>1. Unread /\ PagesRead
  BY DEF Init, Unread, PagesRead
<1>2. NothingYet
  BY DEF Init, NothingYet, Nothing
<1> QED
  BY <1>1, <1>2, InvInit DEF LInv

LEMMA UnreadStep == LInv /\ [Next]_vars => Unread'
<1> SUFFICES ASSUME LInv, [Next]_vars PROVE Unread'
  OBVIOUS
<1>t. Unread /\ TypeOK
  BY DEF LInv, IInv
<1>1. ASSUME NEW m \in Manifests, NEW sc \in Scopes, StartNew(m, sc) PROVE Unread'
  BY <1>t, <1>1 DEF StartNew, StartOn, Unread
<1>2. ASSUME NEW sc \in Scopes, StartResume(sc) PROVE Unread'
  <2>1. PICK m \in Latest(sc) : StartOn(m, "resumed", "pending") \/ StartOn(m, "again", "clean")
    BY <1>2 DEF StartResume
  <2> QED
    BY <1>t, <1>2, <2>1 DEF StartResume, StartOn, Unread
<1>3. CASE Purge \/ Walk \/ WalkFails \/ Group
  BY <1>t, <1>3 DEF Purge, Walk, WalkFails, Group, Unread
<1>4. CASE HashesDone \/ Yielded \/ FlushSync
  BY <1>t, <1>4 DEF HashesDone, Yielded, FlushSync, WriteResults, FinalStatus, Unread
<1>5. ASSUME NEW st, NEW next, LoadPage(st, next), <<st, next>> \in {<<"pending", "complete">>, <<"complete", "choose">>}
      PROVE  Unread'
  <2>1. pc = st /\ UNCHANGED <<kind, inflight>> /\ (pc' = pc \/ (pc' = next))
    BY <1>5 DEF LoadPage
  <2> QED
    BY <1>t, <1>5, <2>1 DEF Unread
<1>6. CASE Choose
  BY <1>t, <1>6 DEF Choose, Forget, Unread
<1>7. CASE Abandon \/ SetStatus \/ Crash
  BY <1>t, <1>7 DEF Abandon, SetStatus, Crash, Leave, LeavePool, Forget, Unread
<1>8. CASE CancelHashes
  BY <1>t, <1>8 DEF CancelHashes, Leave, LeavePool, Forget, Unread
<1>9. ASSUME NEW f \in Files, StartHash(f) \/ PrefetchedHash(f) \/ EndHash(f) \/ Remove(f)
      PROVE  Unread'
  BY <1>t, <1>9 DEF StartHash, PrefetchedHash, EndHash, Remove, Unread
<1>10. ASSUME UNCHANGED <<pc, offset, loaded, kind, inflight>> PROVE Unread'
  BY <1>t, <1>10 DEF Unread
<1>11. ASSUME NEW m \in Manifests, Discard(m) PROVE Unread'
  BY <1>10, <1>11 DEF Discard
<1>12. ASSUME NEW m \in Manifests, NEW f \in Files, EndZombie(m, f) PROVE Unread'
  BY <1>10, <1>12 DEF EndZombie
<1>13. CASE TakeResults \/ FlushHand \/ Cancel
  BY <1>10, <1>13 DEF TakeResults, FlushHand, Cancel
<1>14. CASE FlushRefused
  BY <1>t, <1>14 DEF FlushRefused, FinalStatus, Unread
<1>15. CASE UNCHANGED vars
  BY <1>10, <1>15 DEF vars
<1> QED
  BY <1>1, <1>2, <1>3, <1>4, <1>5, <1>6, <1>7, <1>8, <1>9, <1>11, <1>12, <1>13, <1>14, <1>15, StepCases

LEMMA NothingStep == LInv /\ [Next]_vars => NothingYet'
<1> SUFFICES ASSUME LInv, [Next]_vars, NEW m \in Manifests, NEW f \in Files, NewManifest(m)'
             PROVE  /\ queue'[m][f] = "absent" /\ hand'[m][f] = "absent" /\ <<m, f>> \notin zombies'
                    /\ row'[m][f] \in {"absent", "pending"}
  BY DEF NothingYet
<1> DEFINE Untouched == /\ queue[m][f] = "absent" /\ hand[m][f] = "absent" /\ <<m, f>> \notin zombies
                        /\ row[m][f] \in {"absent", "pending"}
<1>t. /\ TypeOK /\ CurLive /\ Unread /\ row \in Tables /\ queue \in Results /\ hand \in Results
      /\ NewManifest(m) => Untouched
  BY DEF LInv, IInv, NothingYet, TypeOK, Tables, Results
<1> HIDE DEF Untouched
<1> SUFFICES Untouched'
  BY DEF Untouched
<1>o. pc # "idle" /\ status[m] = "none" => m # cur
  BY <1>t DEF CurLive
<1>1. ASSUME NewManifest(m), UNCHANGED <<queue, hand, zombies, row>> PROVE Untouched'
  BY <1>t, <1>1 DEF Untouched
<1>2. ASSUME NEW k \in Manifests, NEW sc \in Scopes, StartNew(k, sc) PROVE Untouched'
  <2>1. NewManifest(m)
    BY <1>t, <1>2 DEF StartNew, StartOn, NewManifest, TypeOK
  <2> QED
    BY <1>1, <1>2, <2>1 DEF StartNew
<1>3. ASSUME NEW sc \in Scopes, StartResume(sc) PROVE Untouched'
  <2>1. PICK k \in Latest(sc) : StartOn(k, "resumed", "pending") \/ StartOn(k, "again", "clean")
    BY <1>3 DEF StartResume
  <2>2. NewManifest(m)
    BY <1>3, <2>1 DEF StartResume, StartOn, NewManifest
  <2> QED
    BY <1>1, <1>3, <2>2 DEF StartResume
<1>4. ASSUME NEW k \in Manifests, Discard(k) PROVE Untouched'
  <2>1. NewManifest(m)
    BY <1>t, <1>4 DEF Discard, NewManifest, TypeOK
  <2> QED
    BY <1>1, <1>4, <2>1 DEF Discard
<1>5. CASE Purge
  <2>1. PICK old \in SUBSET {k \in Manifests \ {cur} : status[k] \in {"active", "indexed"}} :
          /\ status' = [k \in Manifests |-> IF k \in old THEN "purged" ELSE status[k]]
          /\ row' = [k \in Manifests |-> IF k \in old THEN Nothing[k] ELSE row[k]]
    BY <1>5 DEF Purge
  <2>2. NewManifest(m)
    BY <1>5, <2>1 DEF Purge, NewManifest
  <2>3. row'[m][f] \in {row[m][f], "absent"}
    BY <2>1 DEF Nothing
  <2> QED
    BY <1>t, <1>5, <2>2, <2>3 DEF Purge, Untouched
<1>6. CASE Walk
  <2>1. NewManifest(m) /\ row' = Insert(cur, disk) /\ cur \in Manifests
    BY <1>t, <1>6 DEF Walk, NewManifest, CurLive
  <2>2. row'[m][f] = row[m][f] \/ row'[m][f] = "pending"
    BY <2>1 DEF Insert
  <2> QED
    BY <1>t, <1>6, <2>1, <2>2 DEF Walk, Untouched
<1>7. CASE WalkFails \/ Group \/ Cancel
  BY <1>1, <1>7 DEF WalkFails, Group, Cancel, NewManifest
<1>8. CASE Choose \/ HashesDone \/ Yielded
  BY <1>1, <1>8 DEF Choose, HashesDone, Yielded, NewManifest
<1>9. ASSUME NEW st, NEW next, LoadPage(st, next), <<st, next>> \in {<<"pending", "complete">>, <<"complete", "choose">>}
      PROVE  Untouched'
  <2>1. /\ pc = st /\ UNCHANGED <<kind, status, row, hand, zombies, cur>>
        /\ pc' \in {pc, next} /\ kind = "resumed"
    BY <1>t, <1>9 DEF LoadPage, Unread
  <2>2. status[m] = "none" /\ m # cur
    BY <1>o, <1>9, <2>1 DEF NewManifest
  <2>3. queue'[m] = queue[m]
    BY <1>t, <1>9, <2>2 DEF LoadPage, Results
  <2> QED
    BY <1>t, <2>1, <2>2, <2>3 DEF Untouched, NewManifest
<1>10. ASSUME LeavePool, pc # "idle", status'[m] = "none" => status[m] = "none",
              UNCHANGED <<queue, hand, row>>, pc' \notin {"clean", "walk", "group", "choose"}
       PROVE  Untouched'
  <2>1. status[m] = "none" /\ m # cur
    BY <1>o, <1>10 DEF NewManifest
  <2>2. <<m, f>> \in zombies' => <<m, f>> \in zombies
    BY <1>10, <2>1 DEF LeavePool
  <2> QED
    BY <1>t, <1>10, <2>1, <2>2 DEF Untouched, NewManifest
<1>11. CASE Abandon \/ CancelHashes
  BY <1>10, <1>11 DEF Abandon, CancelHashes, Leave
<1>12. CASE SetStatus
  <2>1. status' = [status EXCEPT ![cur] = pc] /\ pc # "none" /\ LeavePool /\ pc' = "idle" /\ pc # "idle"
        /\ UNCHANGED <<queue, hand, row>>
    BY <1>12 DEF SetStatus, Leave
  <2>2. status'[m] = "none" => status[m] = "none"
    BY <1>t, <2>1 DEF TypeOK
  <2> QED
    BY <1>10, <2>1, <2>2
<1>13. ASSUME NEW g \in Files, StartHash(g) \/ PrefetchedHash(g) \/ Remove(g) PROVE Untouched'
  BY <1>1, <1>13 DEF StartHash, PrefetchedHash, Remove, NewManifest
<1>14. ASSUME NEW g \in Files, EndHash(g) PROVE Untouched'
  <2>1. pc = "hash" /\ UNCHANGED <<pc, cur, kind, status, hand, zombies, row>>
    BY <1>t, <1>14 DEF EndHash, Unread
  <2>2. status[m] = "none" /\ m # cur
    BY <1>o, <2>1 DEF NewManifest
  <2>3. PICK st : queue' = [queue EXCEPT ![cur][g] = st]
    BY <1>14 DEF EndHash
  <2>4. queue'[m] = queue[m]
    BY <1>t, <2>2, <2>3 DEF Results
  <2> QED
    BY <1>t, <2>1, <2>2, <2>4 DEF Untouched, NewManifest
<1>15. ASSUME NEW k \in Manifests, NEW g \in Files, EndZombie(k, g) PROVE Untouched'
  <2>1. NewManifest(m) /\ Untouched
    BY <1>t, <1>15 DEF EndZombie, NewManifest
  <2>2. <<k, g>> \in zombies /\ <<m, f>> \notin zombies
    BY <1>15, <2>1 DEF EndZombie, Untouched
  <2>3. PICK st : queue' = [queue EXCEPT ![k][g] = st]
    BY <1>15 DEF EndZombie
  <2>4. queue'[m][f] = queue[m][f]
    BY <1>t, <2>2, <2>3 DEF Results
  <2> QED
    BY <1>15, <2>1, <2>4 DEF EndZombie, Untouched
<1>16. ASSUME NEW r \in Results, row' = Written(r), r = queue \/ r = hand, NewManifest(m),
              zombies' = zombies, queue' \in {queue, Nothing}, hand' \in {hand, Nothing}
       PROVE  Untouched'
  <2>1. r[m][f] = "absent" /\ Nothing[m][f] = "absent"
    BY <1>t, <1>16 DEF Untouched, Nothing
  <2>2. row'[m][f] = row[m][f]
    BY <1>16, <2>1 DEF Written
  <2> QED
    BY <1>t, <1>16, <2>1, <2>2 DEF Untouched
<1>17. CASE FlushSync
  <2>1. row' = Written(queue) /\ queue' = Nothing /\ UNCHANGED <<hand, zombies>>
    BY <1>17 DEF FlushSync, WriteResults
  <2>2. NewManifest(m)
    BY <1>17 DEF FlushSync, FinalStatus, NewManifest
  <2> QED
    BY <1>t, <1>16, <2>1, <2>2
<1>18. CASE FlushHand
  <2>1. row' = Written(hand) /\ hand' = Nothing /\ UNCHANGED <<queue, zombies>> /\ NewManifest(m)
    BY <1>18 DEF FlushHand, WriteResults, NewManifest
  <2> QED
    BY <1>t, <1>16, <2>1
<1>19. CASE TakeResults
  BY <1>t, <1>19 DEF TakeResults, Nothing, Untouched, NewManifest
<1>20. CASE FlushRefused
  <2>1. NewManifest(m) /\ queue' \in {queue, Nothing} /\ hand' \in {hand, Nothing} /\ UNCHANGED <<row, zombies>>
    BY <1>20 DEF FlushRefused, FinalStatus, NewManifest
  <2> QED
    BY <1>t, <2>1 DEF Nothing, Untouched
<1>21. CASE Crash
  <2>1. NewManifest(m) /\ row' = row
    BY <1>21 DEF Crash, NewManifest
  <2> QED
    BY <1>t, <1>21, <2>1 DEF Crash, Nothing, Untouched
<1>22. CASE UNCHANGED vars
  BY <1>1, <1>22 DEF vars, NewManifest
<1> QED
  BY <1>2, <1>3, <1>4, <1>5, <1>6, <1>7, <1>8, <1>9, <1>11, <1>12, <1>13, <1>14, <1>15, <1>17, <1>18,
     <1>19, <1>20, <1>21, <1>22, StepCases

(* A full page moves the offset by its length; each row of it, and none     *)
(* other, is loaded once more if its file is there.                         *)
LEMMA PageLoads ==
  ASSUME TypeOK, cur \in Manifests, NEW st \in {"pending", "complete"}, NEW next, LoadPage(st, next)
  PROVE  /\ \A f \in Files :
              loaded'[f] = IF /\ f \in disk /\ row[cur][f] = st
                              /\ offset < PlaceIn(Rows(cur, st), f)
                              /\ PlaceIn(Rows(cur, st), f) <= offset + BatchSize
                           THEN loaded[f] + 1 ELSE loaded[f]
         /\ \/ pc' = st /\ offset' = offset + BatchSize
            \/ /\ pc' = next /\ offset' = 0
               /\ \A f \in Files : row[cur][f] = st => PlaceIn(Rows(cur, st), f) <= offset + BatchSize
<1> DEFINE fs == Rows(cur, st)
           page == Page(fs)
<1>1. fs \in SUBSET Files /\ \A f \in Files : f \in fs <=> row[cur][f] = st
  BY DEF Rows
<1>2. \A f \in Files : f \in page <=> /\ row[cur][f] = st /\ offset < PlaceIn(fs, f)
                                      /\ PlaceIn(fs, f) <= offset + BatchSize
  BY <1>1 DEF Page, PlaceIn
<1>3. /\ pc = st
      /\ loaded' = [f \in Files |-> IF f \in page \cap disk THEN loaded[f] + 1 ELSE loaded[f]]
      /\ IF Cardinality(page) = BatchSize THEN offset' = offset + BatchSize /\ UNCHANGED pc
         ELSE offset' = 0 /\ pc' = next
  BY DEF LoadPage
<1>4. Cardinality(page) # BatchSize => \A f \in fs : PlaceIn(fs, f) <= offset + BatchSize
  BY <1>1, LastPage DEF TypeOK
<1> HIDE DEF page
<1>5. \A f \in Files : loaded'[f] = IF f \in page /\ f \in disk THEN loaded[f] + 1 ELSE loaded[f]
  BY <1>3
<1>6. \/ pc' = st /\ offset' = offset + BatchSize
      \/ /\ pc' = next /\ offset' = 0
         /\ \A f \in Files : row[cur][f] = st => PlaceIn(fs, f) <= offset + BatchSize
  BY <1>1, <1>3, <1>4
<1> HIDE DEF fs
<1>7. \A f \in Files :
        loaded'[f] = IF /\ f \in disk /\ row[cur][f] = st /\ offset < PlaceIn(fs, f)
                        /\ PlaceIn(fs, f) <= offset + BatchSize
                     THEN loaded[f] + 1 ELSE loaded[f]
  BY <1>2, <1>5
<1> QED
  BY <1>6, <1>7 DEF fs

(* No row has a place before the first page.                                *)
LEMMA PlaceOfRow ==
  ASSUME NEW st, NEW f \in Files, row[cur][f] = st
  PROVE  PlaceIn(Rows(cur, st), f) \in Nat /\ PlaceIn(Rows(cur, st), f) # 0
<1>1. Rows(cur, st) \in SUBSET Files /\ f \in Rows(cur, st)
  BY DEF Rows
<1> QED
  BY <1>1, Places

\* What PagesRead says of one file.
FileRead(f) ==
  /\ loaded[f] \in {0, 1}
  /\ loaded[f] = 1 => HasLoaded(f)
  /\ f \in disk /\ HasLoaded(f) => loaded[f] = 1

LEMMA PagesStep == LInv /\ [Next]_vars => PagesRead'
<1> SUFFICES ASSUME LInv, [Next]_vars, pc' \in {"pending", "complete", "choose"}, kind' # "again",
                    ~disturbed', NEW f \in Files
             PROVE  FileRead(f)'
  BY DEF PagesRead, FileRead
<1>t. /\ TypeOK /\ CurLive /\ Unread
      /\ pc \in {"pending", "complete", "choose"} /\ kind # "again" /\ ~disturbed => FileRead(f)
  BY DEF LInv, IInv, PagesRead, FileRead
<1>1. ASSUME UNCHANGED <<pc, kind, loaded, offset, cur>>, disk' \subseteq disk, row'[cur] = row[cur],
             ~disturbed
      PROVE  FileRead(f)'
  <2>1. FileRead(f) /\ \A st : Rows(cur, st)' = Rows(cur, st)
    BY <1>t, <1>1 DEF Rows
  <2>2. HasLoaded(f)' = HasLoaded(f)
    BY <1>1, <2>1 DEF HasLoaded, Read
  <2> QED
    BY <1>1, <2>1, <2>2 DEF FileRead
<1>2. ASSUME NEW sc \in Scopes, StartResume(sc) PROVE FileRead(f)'
  <2>1. PICK m \in Latest(sc) : StartOn(m, "resumed", "pending") \/ StartOn(m, "again", "clean")
    BY <1>2 DEF StartResume
  <2>2. cur' = m /\ pc' = "pending" /\ offset' = 0 /\ loaded' = [g \in Files |-> 0]
    BY <1>t, <1>2, <2>1 DEF StartResume, StartOn, Unread
  <2>3. row' = row
    BY <1>2 DEF StartResume
  <2>4. ~HasLoaded(f)'
    <3>1. row[m][f] = "pending" => PlaceIn(Rows(m, "pending"), f) \in Nat /\ PlaceIn(Rows(m, "pending"), f) # 0
      <4>1. Rows(m, "pending") \in SUBSET Files
            /\ (row[m][f] = "pending" => f \in Rows(m, "pending"))
        BY DEF Rows
      <4> QED
        BY <4>1, Places
    <3>2. Rows(cur, "pending")' = Rows(m, "pending")
      BY <2>2, <2>3 DEF Rows
    <3> QED
      BY <2>2, <2>3, <3>1, <3>2 DEF HasLoaded, Read
  <2> QED
    BY <2>2, <2>4 DEF FileRead
<1>3. CASE Group
  <2>1. pc = "group" /\ pc' = "choose" /\ UNCHANGED <<row, cur, disk, kind>>
        /\ loaded' = [g \in Files |-> IF row[cur][g] = "pending" THEN 1 ELSE 0]
    BY <1>3 DEF Group
  <2>2. cur \in Manifests /\ NewManifest(cur)
    BY <1>t, <2>1 DEF Unread, TypeOK, CurLive, NewManifest
  <2>3. row[cur][f] \in {"absent", "pending"}
    BY <2>2 DEF LInv, NothingYet
  <2> QED
    BY <2>1, <2>3 DEF FileRead, HasLoaded
<1>4. CASE LoadPage("pending", "complete")
  <2> DEFINE place == PlaceIn(Rows(cur, "pending"), f)
  <2>1. /\ pc = "pending" /\ UNCHANGED <<row, cur, disk, kind, disturbed>> /\ cur \in Manifests
        /\ offset \in Nat /\ BatchSize \in Nat
    BY <1>t, <1>4 DEF LoadPage, CurLive, TypeOK
  <2>2. Rows(cur, "pending")' = Rows(cur, "pending") /\ Rows(cur, "complete")' = Rows(cur, "complete")
    BY <2>1 DEF Rows
  <2>3. /\ loaded[f] \in {0, 1}
        /\ loaded[f] = 1 => row[cur][f] = "pending" /\ place <= offset
        /\ f \in disk /\ row[cur][f] = "pending" /\ place <= offset => loaded[f] = 1
    BY <1>t, <2>1 DEF FileRead, HasLoaded, Read
  <2>4. row[cur][f] = "pending" => place \in Nat
    BY PlaceOfRow
  <2>5. loaded'[f] = IF /\ f \in disk /\ row[cur][f] = "pending" /\ offset < place
                        /\ place <= offset + BatchSize
                     THEN loaded[f] + 1 ELSE loaded[f]
    BY <1>t, <1>4, <2>1, PageLoads
  <2>6. \/ pc' = "pending" /\ offset' = offset + BatchSize
        \/ /\ pc' = "complete" /\ offset' = 0
           /\ row[cur][f] = "pending" => place <= offset + BatchSize
    BY <1>t, <1>4, <2>1, PageLoads
  <2>7. row[cur][f] = "complete" =>
          PlaceIn(Rows(cur, "complete"), f) \in Nat /\ PlaceIn(Rows(cur, "complete"), f) # 0
    BY PlaceOfRow
  <2>8. /\ pc' = "pending" => (HasLoaded(f)' <=> row[cur][f] = "pending" /\ place <= offset + BatchSize)
        /\ pc' = "complete" => (HasLoaded(f)' <=> row[cur][f] = "pending")
    BY <2>1, <2>2, <2>6, <2>7 DEF HasLoaded, Read
  <2> HIDE DEF place
  <2>9. /\ loaded'[f] \in {0, 1}
        /\ loaded'[f] = 1 => row[cur][f] = "pending" /\ place <= offset + BatchSize
        /\ f \in disk /\ row[cur][f] = "pending" /\ place <= offset + BatchSize => loaded'[f] = 1
    BY <2>1, <2>3, <2>4, <2>5
  <2> QED
    BY <2>1, <2>6, <2>8, <2>9 DEF FileRead
<1>5. CASE LoadPage("complete", "choose")
  <2> DEFINE place == PlaceIn(Rows(cur, "complete"), f)
  <2>1. /\ pc = "complete" /\ UNCHANGED <<row, cur, disk, kind, disturbed>> /\ cur \in Manifests
        /\ offset \in Nat /\ BatchSize \in Nat
    BY <1>t, <1>5 DEF LoadPage, CurLive, TypeOK
  <2>2. Rows(cur, "complete")' = Rows(cur, "complete")
    BY <2>1 DEF Rows
  <2>3. /\ loaded[f] \in {0, 1}
        /\ loaded[f] = 1 => row[cur][f] = "pending" \/ (row[cur][f] = "complete" /\ place <= offset)
        /\ f \in disk /\ row[cur][f] = "pending" => loaded[f] = 1
        /\ f \in disk /\ row[cur][f] = "complete" /\ place <= offset => loaded[f] = 1
    BY <1>t, <2>1 DEF FileRead, HasLoaded, Read
  <2>4. row[cur][f] = "complete" => place \in Nat
    BY PlaceOfRow
  <2>5. loaded'[f] = IF /\ f \in disk /\ row[cur][f] = "complete" /\ offset < place
                        /\ place <= offset + BatchSize
                     THEN loaded[f] + 1 ELSE loaded[f]
    BY <1>t, <1>5, <2>1, PageLoads
  <2>6. \/ pc' = "complete" /\ offset' = offset + BatchSize
        \/ /\ pc' = "choose" /\ offset' = 0
           /\ row[cur][f] = "complete" => place <= offset + BatchSize
    BY <1>t, <1>5, <2>1, PageLoads
  <2>7. HasLoaded(f)' <=> \/ row[cur][f] = "pending"
                          \/ row[cur][f] = "complete" /\ place <= offset + BatchSize
    BY <2>1, <2>2, <2>6 DEF HasLoaded, Read
  <2> HIDE DEF place
  <2>8. /\ loaded'[f] \in {0, 1}
        /\ loaded'[f] = 1 => \/ row[cur][f] = "pending"
                             \/ row[cur][f] = "complete" /\ place <= offset + BatchSize
        /\ f \in disk /\ row[cur][f] = "pending" => loaded'[f] = 1
        /\ f \in disk /\ row[cur][f] = "complete" /\ place <= offset + BatchSize => loaded'[f] = 1
    BY <2>1, <2>3, <2>4, <2>5
  <2> QED
    BY <2>1, <2>7, <2>8 DEF FileRead
<1>6. ASSUME NEW r, WriteResults(r), UNCHANGED <<pc, kind, loaded, offset, cur, disk>>
      PROVE  FileRead(f)'
  <2>1. ~disturbed /\ row'[cur] = row[cur]
    BY <1>6 DEF WriteResults, Loading
  <2> QED
    BY <1>1, <1>6, <2>1
<1>7. CASE FlushHand
  BY <1>6, <1>7 DEF FlushHand
<1>8. CASE FlushRefused
  BY <1>1, <1>8 DEF FlushRefused, FinalStatus
<1>9. ASSUME \/ \E g \in Files : Remove(g)
             \/ \E m \in Manifests, g \in Files : EndZombie(m, g)
             \/ TakeResults \/ Cancel \/ UNCHANGED vars
      PROVE  FileRead(f)'
  <2>1. /\ UNCHANGED <<pc, kind, loaded, offset, cur, row, disturbed>>
        /\ disk' \subseteq disk
    <3>1. CASE \E g \in Files : Remove(g)
      BY <3>1 DEF Remove, dbVars, loadVars
    <3>2. CASE \E m \in Manifests, g \in Files : EndZombie(m, g)
      BY <3>2 DEF EndZombie, dbVars, loadVars
    <3>3. CASE TakeResults
      BY <3>3 DEF TakeResults, dbVars, loadVars
    <3>4. CASE Cancel
      BY <3>4 DEF Cancel, dbVars, loadVars
    <3>5. CASE UNCHANGED vars
      BY <3>5 DEF vars, dbVars, loadVars
    <3> QED
      BY <1>9, <3>1, <3>2, <3>3, <3>4, <3>5
  <2> QED
    BY <1>1, <2>1
<1>10. ~(\/ \E m \in Manifests, sc \in Scopes : StartNew(m, sc)
         \/ \E m \in Manifests : Discard(m)
         \/ Purge \/ Walk \/ WalkFails \/ HashesDone \/ Yielded \/ Abandon \/ SetStatus \/ Crash)
  BY DEF StartNew, StartOn, Discard, Purge, Walk, WalkFails, HashesDone, Yielded, Abandon, SetStatus, Leave,
     Crash
<1>11. ~(Choose \/ CancelHashes \/ FlushSync \/ \E g \in Files : StartHash(g) \/ PrefetchedHash(g) \/ EndHash(g))
  BY <1>t DEF Choose, CancelHashes, Leave, FlushSync, FinalStatus, StartHash, PrefetchedHash, EndHash, Unread
<1> QED
  BY <1>2, <1>3, <1>4, <1>5, <1>7, <1>8, <1>9, <1>10, <1>11, StepCases

(* A scan that resumes loads each file of its catalogue that is there once, *)
(* whatever the size of a page and however the rows lie on the pages, if no *)
(* row changed while it loaded; and a new scan loads what it catalogued.    *)
THEOREM LoadExactHolds == Spec => []LoadExact
<1>1. LInv => LoadExact
  BY DEF LInv, IInv, TypeOK, PagesRead, HasLoaded, LoadExact
<1>2. LInv /\ [Next]_vars => LInv'
  BY InvStep, UnreadStep, NothingStep, PagesStep DEF LInv
<1> QED
  BY <1>1, <1>2, LoadInit, PTL DEF Spec
==============================================================================
