---------------------------- MODULE CheckpointStore ----------------------------
(***************************************************************************)
(* CheckpointDB and the scans that fill it and resume from it: manifests,  *)
(* one row per catalogued file, and hash results that wait in a queue and  *)
(* then in the hands of the writer thread before they reach their rows.    *)
(*                                                                         *)
(* A scan has one folder, which is catalogued in one transaction.  Files   *)
(* are numbered in the order of the queries.  The queue and the writer's   *)
(* hands hold at most one result of a row, the last: an earlier one would  *)
(* be overwritten in the same transaction.  "active" stands for active,    *)
(* paused and crashed, which every query takes alike.                      *)
(***************************************************************************)
EXTENDS Integers, FiniteSets

CONSTANTS
  NumFiles,      \* files in the folder at first
  MaxScans,      \* bound: scans started, each of which may create a manifest
  BatchSize,     \* rows per page of the resume queries (50,000)
  Scopes,        \* subset of {"quick", "verify", "index"}: the scans' options
  MaxFaults      \* bound: crashes and refused transactions

ASSUME SizesAssumption ==
  NumFiles \in Nat /\ MaxScans \in Nat /\ BatchSize \in Nat \ {0} /\ MaxFaults \in Nat
ASSUME ScopesAssumption == Scopes \subseteq {"quick", "verify", "index"}

VARIABLES
  disk,       \* files that exist
  status,     \* per manifest; "none" before it is created
  scope,      \* per manifest
  row,        \* per manifest and file: hash_status, "absent" without a row
  queue,      \* per manifest and file: the result enqueued, or "absent"
  hand,       \* the same for what the writer has taken from the queue
  zombies,    \* files a cancelled scan's workers still hash
  cur,        \* manifest of the scan under way, 0: none
  kind,       \* how the scan came by it: "new", "resumed" or "again"
  pc,         \* where the scan thread is
  offset,     \* of the next page
  loaded,     \* per file: how often it is in discovered_files
  todo,       \* files to hash in full
  inflight,   \* files the scan's workers hash
  cancelled,  \* the scan's cancel event
  disturbed,  \* a row of the manifest changed while the scan loaded it
  scans,      \* scans started so far
  faults      \* crashes and refused transactions so far

dbVars   == <<status, scope, row>>
loadVars == <<kind, offset, loaded, disturbed>>
hashVars == <<todo, inflight, zombies>>
vars == <<disk, dbVars, queue, hand, cur, pc, cancelled, loadVars, hashVars, scans, faults>>

Files     == 1..NumFiles
Manifests == 1..MaxScans
Nothing   == [m \in Manifests |-> [f \in Files |-> "absent"]]

Init ==
  /\ disk = Files
  /\ status = [m \in Manifests |-> "none"]
  /\ scope = [m \in Manifests |-> "quick"]
  /\ row = Nothing /\ queue = Nothing /\ hand = Nothing
  /\ zombies = {}
  /\ cur = 0 /\ kind = "new" /\ pc = "idle" /\ offset = 0
  /\ loaded = [f \in Files |-> 0]
  /\ todo = {} /\ inflight = {}
  /\ cancelled = FALSE /\ disturbed = FALSE
  /\ scans = 0 /\ faults = 0

------------------------------------------------------------------------------
(* The store's operations.                                                  *)

Rows(m, st) == {f \in Files : row[m][f] = st}

HasRows(m) == \E f \in Files : row[m][f] # "absent"

(* find_resumable_manifest: total_files > 0, the latest one.               *)
Resumable(sc) ==
  {m \in Manifests : status[m] \in {"active", "indexed"} /\ scope[m] = sc /\ HasRows(m)}

Latest(sc) == {m \in Resumable(sc) : \A k \in Resumable(sc) : k <= m}

(* Variant: INSERT OR REPLACE. *)
InsertReplacing(m, fs) ==
  [row EXCEPT ![m] = [f \in Files |-> IF f \in fs THEN "pending" ELSE row[m][f]]]

(* insert_pending_files_batch: INSERT OR IGNORE. *)
Insert(m, fs) ==
  [row EXCEPT ![m] =
     [f \in Files |-> IF f \in fs /\ row[m][f] = "absent" THEN "pending" ELSE row[m][f]]]

(* Variant: the results are inserted, not updated. *)
WrittenByUpsert(results) ==
  [m \in Manifests |-> [f \in Files |->
     IF results[m][f] # "absent" THEN results[m][f] ELSE row[m][f]]]

(* _flush_items: UPDATE, which does nothing where there is no row.         *)
Written(results) ==
  [m \in Manifests |-> [f \in Files |->
     IF results[m][f] # "absent" /\ row[m][f] # "absent" THEN results[m][f] ELSE row[m][f]]]

(* The scan has begun to read its manifest and has not grouped the files.  *)
Loading == pc \in {"pending", "complete", "choose"}

WriteResults(results) ==
  /\ row' = Written(results)
  /\ disturbed' = (disturbed \/ (Loading /\ row'[cur] # row[cur]))

------------------------------------------------------------------------------
(* How the engine comes by a manifest.                                      *)

StartOn(m, how, point) ==
  /\ cur' = m /\ kind' = how /\ pc' = point
  /\ scans < MaxScans /\ scans' = scans + 1
  /\ UNCHANGED <<offset, loaded, disturbed, cancelled, todo>>

(* No resume asked for, or nothing to resume: create_manifest.             *)
StartNew(m, sc) ==
  /\ pc = "idle"
  /\ status[m] = "none" /\ \A k \in Manifests : k < m => status[k] # "none"
  /\ status' = [status EXCEPT ![m] = "active"]
  /\ scope' = [scope EXCEPT ![m] = sc]
  /\ StartOn(m, "new", "clean")
  /\ UNCHANGED <<disk, row, queue, hand, inflight, zombies, faults>>

(* Resume: index_only is off, hence never a manifest of an index.  Without *)
(* a pending row the scan is an ordinary one on the old manifest.          *)
StartResume(sc) ==
  /\ pc = "idle" /\ sc # "index"
  /\ \E m \in Latest(sc) :
       IF Rows(m, "pending") # {}
       THEN StartOn(m, "resumed", "pending")
       ELSE StartOn(m, "again", "clean")
  /\ UNCHANGED <<disk, dbVars, queue, hand, inflight, zombies, faults>>

(* The dashboard's Discard.                                                *)
Discard(m) ==
  /\ pc = "idle" /\ status[m] \in {"active", "indexed"} /\ HasRows(m)
  /\ status' = [status EXCEPT ![m] = "completed"]
  /\ UNCHANGED <<disk, scope, row, queue, hand, cur, pc, cancelled, loadVars, hashVars,
                 scans, faults>>

(* purge_old_scans, at the start of a scan that walks: manifests of more   *)
(* than a week ago that have not completed.  The scan's own is younger: it *)
(* is new or was just found by find_resumable_manifest.                    *)
Purge ==
  /\ pc = "clean"
  /\ \E old \in SUBSET {m \in Manifests \ {cur} : status[m] \in {"active", "indexed"}} :
       /\ status' = [m \in Manifests |-> IF m \in old THEN "purged" ELSE status[m]]
       /\ row' = [m \in Manifests |-> IF m \in old THEN Nothing[m] ELSE row[m]]
  /\ pc' = "walk"
  /\ UNCHANGED <<disk, scope, queue, hand, cur, cancelled, loadVars, hashVars, scans, faults>>

------------------------------------------------------------------------------
(* The scan.                                                                *)

(* What a scan has read is of no use once the files are grouped.           *)
Forget ==
  kind' = "new" /\ offset' = 0 /\ loaded' = [f \in Files |-> 0] /\ disturbed' = FALSE

(* Files that workers hash when the pool is left stay with them.           *)
LeavePool ==
  /\ zombies' = zombies \cup {<<cur, f>> : f \in inflight}
  /\ inflight' = {} /\ todo' = {}

(* The scan thread is over.                                                *)
Leave == pc' = "idle" /\ cur' = 0 /\ cancelled' = FALSE /\ Forget /\ LeavePool

(* The walk of the folder, in the database once it is over.                *)
Walk ==
  /\ pc = "walk" /\ ~cancelled
  /\ row' = Insert(cur, disk)
  /\ pc' = "group"
  /\ UNCHANGED <<disk, status, scope, queue, hand, cur, cancelled, loadVars, hashVars,
                 scans, faults>>

(* A cancel, an unreachable folder or a refused transaction: no rows.      *)
WalkFails ==
  /\ pc = "walk"
  /\ pc' = "group"
  /\ UNCHANGED <<disk, dbVars, queue, hand, cur, cancelled, loadVars, hashVars, scans, faults>>

(* _group_files_by_size on the database: pending rows only.                *)
Group ==
  /\ pc = "group"
  /\ loaded' = [f \in Files |-> IF row[cur][f] = "pending" THEN 1 ELSE 0]
  /\ pc' = "choose"
  /\ UNCHANGED <<disk, dbVars, queue, hand, cur, cancelled, kind, offset, disturbed,
                 hashVars, scans, faults>>

(* Variant: every page after the first begins one row late. *)
PageSkippingOne(fs) ==
  LET Place(f) == Cardinality({g \in fs : g <= f})
      first == IF offset = 0 THEN 0 ELSE offset + 1
  IN {f \in fs : first < Place(f) /\ Place(f) <= offset + BatchSize}

(* LIMIT BatchSize OFFSET offset. *)
Page(fs) ==
  LET Place(f) == Cardinality({g \in fs : g <= f})
  IN {f \in fs : offset < Place(f) /\ Place(f) <= offset + BatchSize}

(* A page of rows with status st.  Files that are gone are left out; those *)
(* of a pending row are enqueued as errors.                                *)
LoadPage(st, next) ==
  LET page == Page(Rows(cur, st))
      gone == IF st = "pending" THEN page \ disk ELSE {}
  IN /\ pc = st /\ (page # {} => ~cancelled)
     /\ loaded' = [f \in Files |-> IF f \in page \cap disk THEN loaded[f] + 1
                                                           ELSE loaded[f]]
     /\ queue' = [queue EXCEPT ![cur] =
                    [f \in Files |-> IF f \in gone THEN "error" ELSE queue[cur][f]]]
     /\ IF Cardinality(page) = BatchSize
        THEN offset' = offset + BatchSize /\ UNCHANGED pc
        ELSE offset' = 0 /\ pc' = next
     /\ UNCHANGED <<disk, dbVars, hand, cur, cancelled, kind, disturbed, hashVars, scans, faults>>

LoadPending  == LoadPage("pending", "complete")
LoadComplete == LoadPage("complete", "choose")

(* A cancel seen at a page, in the grouping, or while results are given to *)
(* the engine: the generator ends there.                                   *)
Abandon ==
  /\ cancelled /\ pc \in {"pending", "complete", "choose", "yield"}
  /\ Leave
  /\ UNCHANGED <<disk, dbVars, queue, hand, scans, faults>>

(* Which of the loaded files get as far as the full hash.                  *)
Choose ==
  /\ pc = "choose"
  /\ \/ scope[cur] = "index" /\ pc' = "flush" /\ UNCHANGED todo
     \/ scope[cur] = "quick" /\ pc' = "yield" /\ UNCHANGED todo
     \/ /\ scope[cur] = "verify" /\ pc' = "hash"
        /\ todo' \in SUBSET {f \in Files : loaded[f] > 0}
  /\ Forget
  /\ UNCHANGED <<disk, dbVars, queue, hand, cur, cancelled, inflight, zombies, scans, faults>>

StartHash(f) ==
  /\ pc = "hash" /\ ~cancelled /\ f \in todo
  /\ todo' = todo \ {f}
  /\ inflight' = inflight \cup {f}
  /\ UNCHANGED <<disk, dbVars, queue, hand, cur, pc, cancelled, loadVars, zombies, scans, faults>>

(* A hash found by the cache's prefetch is not told to the store.          *)
PrefetchedHash(f) ==
  /\ pc = "hash" /\ ~cancelled /\ f \in todo
  /\ todo' = todo \ {f}
  /\ UNCHANGED <<disk, dbVars, queue, hand, cur, pc, cancelled, loadVars, inflight, zombies,
                 scans, faults>>

(* hash_worker: enqueue_hash_result.                                       *)
EndHash(f) ==
  /\ f \in inflight /\ inflight' = inflight \ {f}
  /\ \E st \in {"complete", "error"} : queue' = [queue EXCEPT ![cur][f] = st]
  /\ UNCHANGED <<disk, dbVars, hand, cur, pc, cancelled, loadVars, todo, zombies, scans, faults>>

EndZombie(m, f) ==
  /\ <<m, f>> \in zombies /\ zombies' = zombies \ {<<m, f>>}
  /\ \E st \in {"complete", "error"} : queue' = [queue EXCEPT ![m][f] = st]
  /\ UNCHANGED <<disk, dbVars, hand, cur, pc, cancelled, loadVars, todo, inflight, scans, faults>>

HashesDone ==
  /\ pc = "hash" /\ todo = {} /\ inflight = {}
  /\ pc' = "yield"
  /\ UNCHANGED <<disk, dbVars, queue, hand, cur, cancelled, loadVars, hashVars, scans, faults>>

(* The pool is left without waiting.  With groups found the generator ends *)
(* at the first one, with none it goes on to its end.                      *)
CancelHashes ==
  /\ pc = "hash" /\ cancelled
  /\ \/ Leave
     \/ pc' = "flush" /\ LeavePool /\ UNCHANGED <<cur, cancelled, loadVars>>
  /\ UNCHANGED <<disk, dbVars, queue, hand, scans, faults>>

(* The engine has all results.                                             *)
Yielded ==
  /\ pc = "yield"
  /\ pc' = "flush"
  /\ UNCHANGED <<disk, dbVars, queue, hand, cur, cancelled, loadVars, hashVars, scans, faults>>

(* The scan's end: the status is chosen, flush_sync empties the queue (not *)
(* the writer's hands), then the status is stored.                         *)
FinalStatus ==
  IF scope[cur] = "index" THEN "indexed" ELSE IF cancelled THEN "active" ELSE "completed"

FlushSync ==
  /\ pc = "flush"
  /\ WriteResults(queue)
  /\ queue' = Nothing
  /\ pc' = FinalStatus
  /\ UNCHANGED <<disk, status, scope, hand, cur, cancelled, kind, offset, loaded, hashVars,
                 scans, faults>>

SetStatus ==
  /\ pc \in {"indexed", "active", "completed"}
  /\ status' = [status EXCEPT ![cur] = pc]
  /\ Leave
  /\ UNCHANGED <<disk, scope, row, queue, hand, scans, faults>>

------------------------------------------------------------------------------
(* The writer thread, the user and the world.                               *)

(* The writer takes what there is; it may hold it for two seconds.         *)
TakeResults ==
  /\ queue # Nothing
  /\ hand' = [m \in Manifests |-> [f \in Files |->
                 IF queue[m][f] # "absent" THEN queue[m][f] ELSE hand[m][f]]]
  /\ queue' = Nothing
  /\ UNCHANGED <<disk, dbVars, cur, pc, cancelled, loadVars, hashVars, scans, faults>>

(* Variant: what is enqueued while the writer flushes is dropped with it. *)
FlushHandDropping ==
  /\ hand # Nothing
  /\ WriteResults(hand)
  /\ hand' = Nothing /\ queue' = Nothing
  /\ UNCHANGED <<disk, status, scope, cur, pc, cancelled, kind, offset, loaded,
                 hashVars, scans, faults>>

FlushHand ==
  /\ hand # Nothing
  /\ WriteResults(hand)
  /\ hand' = Nothing
  /\ UNCHANGED <<disk, status, scope, queue, cur, pc, cancelled, kind, offset, loaded,
                 hashVars, scans, faults>>

(* sqlite3.Error in _flush_items: the results are lost.                    *)
FlushRefused ==
  /\ faults < MaxFaults /\ faults' = faults + 1
  /\ \/ hand # Nothing /\ hand' = Nothing /\ UNCHANGED <<queue, pc>>
     \/ pc = "flush" /\ queue' = Nothing /\ pc' = FinalStatus /\ UNCHANGED hand
  /\ UNCHANGED <<disk, dbVars, cur, cancelled, loadVars, hashVars, scans>>

Cancel ==
  /\ pc # "idle" /\ ~cancelled
  /\ cancelled' = TRUE
  /\ UNCHANGED <<disk, dbVars, queue, hand, cur, pc, loadVars, hashVars, scans, faults>>

(* The process dies; what is committed stays.                              *)
Crash ==
  /\ faults < MaxFaults /\ faults' = faults + 1
  /\ queue' = Nothing /\ hand' = Nothing
  /\ zombies' = {} /\ inflight' = {} /\ todo' = {}
  /\ pc' = "idle" /\ cur' = 0 /\ cancelled' = FALSE /\ Forget
  /\ UNCHANGED <<disk, dbVars, scans>>

Remove(f) ==
  /\ f \in disk /\ disk' = disk \ {f}
  /\ UNCHANGED <<dbVars, queue, hand, cur, pc, cancelled, loadVars, hashVars, scans, faults>>

Scan ==
  \/ Purge \/ Walk \/ WalkFails \/ Group \/ LoadPending \/ LoadComplete
  \/ Choose \/ HashesDone \/ CancelHashes \/ Yielded \/ Abandon
  \/ FlushSync \/ SetStatus

Worker ==
  \/ \E f \in Files : StartHash(f) \/ PrefetchedHash(f) \/ EndHash(f)
  \/ \E m \in Manifests, f \in Files : EndZombie(m, f)

Writer == TakeResults \/ FlushHand

Next ==
  \/ \E m \in Manifests, sc \in Scopes : StartNew(m, sc)
  \/ \E sc \in Scopes : StartResume(sc)
  \/ \E m \in Manifests : Discard(m)
  \/ Scan \/ Worker \/ Writer
  \/ Cancel \/ FlushRefused \/ Crash
  \/ \E f \in Files : Remove(f)

Spec == Init /\ [][Next]_vars

------------------------------------------------------------------------------
Marks    == {"absent", "pending", "complete", "error"}
Statuses == {"none", "active", "indexed", "completed", "purged"}
Points   == {"idle", "clean", "walk", "group", "pending", "complete", "choose", "hash",
             "yield", "flush", "active", "completed", "indexed"}

(* Every variable keeps its type. *)
TypeOK ==
  /\ disk \subseteq Files
  /\ status \in [Manifests -> Statuses] /\ scope \in [Manifests -> Scopes \cup {"quick"}]
  /\ row \in [Manifests -> [Files -> Marks]]
  /\ queue \in [Manifests -> [Files -> {"absent", "complete", "error"}]]
  /\ hand \in [Manifests -> [Files -> {"absent", "complete", "error"}]]
  /\ zombies \subseteq Manifests \X Files
  /\ cur \in Manifests \cup {0}
  /\ kind \in {"new", "resumed", "again"} /\ pc \in Points
  /\ offset \in Nat /\ loaded \in [Files -> Nat] /\ scans \in Nat
  /\ todo \subseteq Files /\ inflight \subseteq Files
  /\ cancelled \in BOOLEAN /\ disturbed \in BOOLEAN /\ faults \in Nat

(* A row is a row of a manifest: results that come late, from a worker     *)
(* that a cancelled scan left behind or from the writer's hands, do not    *)
(* bring back what purge_old_scans has deleted.                            *)
RowsBelong ==
  \A m \in Manifests : HasRows(m) => status[m] \notin {"none", "purged"}

(* The scan under way has a manifest that is not deleted under it.         *)
CurLive == pc # "idle" => cur \in Manifests /\ status[cur] \notin {"none", "purged"}

IInv == TypeOK /\ RowsBelong /\ CurLive

(* What a scan has loaded once it has the catalogue: each file it should   *)
(* see exactly once, whatever page its row is on and on whichever side of  *)
(* the two resume queries; in a resume, if no row changed while it loaded. *)
LoadExact ==
  pc = "choose" /\ kind # "again" /\ ~disturbed =>
    \A f \in Files :
      /\ loaded[f] <= 1
      /\ f \in disk /\ row[cur][f] \in {"pending", "complete"} => loaded[f] = 1

(* A row whose result has come never waits for one again: a later scan on  *)
(* the same manifest does not forget what an earlier one did.              *)
RowsForward ==
  [][\A m \in Manifests, f \in Files :
       row[m][f] \in {"complete", "error"} =>
         row'[m][f] # "pending" /\ (row'[m][f] = "absent" => status'[m] = "purged")]_vars

(* A result handed to the store is in the queue or in the writer's hands   *)
(* until it is in its row: only a crash or a refused transaction loses it, *)
(* never the two threads that both empty the queue.                        *)
Waiting(m, f) == queue[m][f] # "absent" \/ hand[m][f] # "absent"

ResultsNotLost ==
  [][\A m \in Manifests, f \in Files :
       Waiting(m, f) /\ faults' = faults => Waiting(m, f)' \/ row'[m][f] # "pending"]_vars
==============================================================================
