------------------------------ MODULE ReviewFlow ------------------------------
(***************************************************************************)
(* The review of duplicates: ReviewFlowHost and its ReviewFlowState, what  *)
(* they exchange with the application's store, and the files they delete   *)
(* and restore through DeleteService.                                      *)
(*                                                                         *)
(* A listing gives each group number its files, none if there is no such   *)
(* group.  A choice is what the user chose of one group: the files kept    *)
(* and the files deleted.  Each action is a handler of the UI, with every  *)
(* call it makes; the files that can be moved are given by the environment.*)
(* The screens and what they show are left out, but for the files that the *)
(* sheet of "Remove selected" is about.                                    *)
(***************************************************************************)
EXTENDS DeleteService, Sequences

CONSTANTS
  MaxGroup,    \* groups are numbered from 1 (BackendService.start_scan)
  CopySets,    \* the sets of files that a scan takes for copies of each other
  UndoDepth,   \* bound: edits that the user takes back in a row
  MaxTurns     \* bound: choices and listings in a behaviour

ASSUME ReviewAssumption ==
  /\ MaxGroup \in Nat /\ UndoDepth \in Nat /\ MaxTurns \in Nat
  /\ CopySets \subseteq SUBSET Path

VARIABLES
  tab,         \* "review", or "other"
  results,     \* scan_results: the listing under review
  marked,      \* marked_paths
  sel,         \* set_selections: the choice of each group
  undoStack, redoStack,
  snap,        \* _apply_undo_snapshot, and the batch of its apply
  sheet,       \* the sheet's step, "closed", or "nothing": an outcome of no file
  ticked,      \* its checkbox
  toast,       \* the toast has an Undo button
  groups,      \* the store's groups
  selected,    \* the store's selected_files
  backend,     \* the results of the engine's last scan
  lastJson,    \* last.json
  saved,       \* marks of review_session.v1.json
  chosen,      \* every file the user ever chose for deletion
  turns        \* choices and listings so far

edits      == <<marked, sel, undoStack, redoStack>>
sheetVars  == <<snap, sheet, ticked, toast>>
storeVars  == <<groups, selected, backend, lastJson>>
reviewVars == <<tab, results, edits, sheetVars, storeVars, saved, chosen, turns>>
vars       == <<trashVars, reviewVars>>

Groups    == 1..MaxGroup
NoListing == [g \in Groups |-> {}]
NoChoice  == [kept |-> {}, deleted |-> {}]
None      == [none |-> TRUE]

Listed(gs) == UNION {gs[g] : g \in Groups}

(* What the edits' undo goes back to. *)
Edits == [marked |-> marked, sel |-> sel]

ReviewInit ==
  /\ tab = "other" /\ results = NoListing
  /\ marked = {} /\ sel = [g \in Groups |-> NoChoice]
  /\ undoStack = <<>> /\ redoStack = <<>>
  /\ snap = None /\ sheet = "closed" /\ ticked = FALSE /\ toast = FALSE
  /\ groups = NoListing /\ selected = {} /\ backend = NoListing

Init ==
  /\ TrashInit /\ ReviewInit
  /\ lastJson = NoListing /\ saved = None /\ chosen = {}
  /\ turns = 0

------------------------------------------------------------------------------
(* Choosing files. *)

(* Variant: of a group with a choice, all that is not kept. *)
CartAllButKept == {p \in Listed(results) :
           p \in marked \/ \E g \in Groups : /\ p \in results[g] /\ sel[g].deleted # {}
                                            /\ p \notin sel[g].kept}

(* cart_buckets()["delete"] *)
Cart == {p \in Listed(results) :
           p \in marked \/ \E g \in Groups : p \in results[g] /\ p \in sel[g].deleted}

(* The last snapshots of a stack that the user goes back to. *)
Recent(s) == SubSeq(s, IF Len(s) > UndoDepth THEN Len(s) - UndoDepth + 1 ELSE 1, Len(s))

PushUndo(snapshots) ==
  undoStack' = Recent(undoStack \o snapshots) /\ redoStack' = <<>>

(* Variant: a file that is marked stays among the kept. *)
ToggleMarkKeeping(g, p) ==
  /\ tab = "review" /\ sheet = "closed" /\ p \in results[g]
  /\ IF p \in marked \cup sel[g].deleted
     THEN /\ marked' = marked \ {p}
          /\ sel' = [sel EXCEPT ![g].deleted = @ \ {p}]
          /\ UNCHANGED chosen
     ELSE /\ marked' = marked \cup {p}
          /\ sel' = [sel EXCEPT ![g].deleted = @ \cup {p}]
          /\ chosen' = chosen \cup {p}
  /\ selected' = marked'
  /\ UNCHANGED <<tab, results, undoStack, redoStack, sheetVars, groups, backend, lastJson, saved, trashVars>>

(* _browse_toggle_file_mark(): the checkbox of a file in a group's details. *)
ToggleMark(g, p) ==
  /\ tab = "review" /\ sheet = "closed" /\ p \in results[g]
  /\ IF p \in marked \cup sel[g].deleted
     THEN /\ marked' = marked \ {p}
          /\ sel' = [sel EXCEPT ![g].deleted = @ \ {p}]
          /\ UNCHANGED chosen
     ELSE /\ marked' = marked \cup {p}
          /\ sel' = [sel EXCEPT ![g].deleted = @ \cup {p}, ![g].kept = @ \ {p}]
          /\ chosen' = chosen \cup {p}
  /\ selected' = marked'
  /\ UNCHANGED <<tab, results, undoStack, redoStack, sheetVars, groups, backend, lastJson, saved, trashVars>>

(* What _apply_paths_for_group() leaves of the choices and the marks when   *)
(* it is given delete[g] for each group g of gs.                            *)
ChoiceAfter(gs, delete) ==
  [g \in Groups |-> IF g \in gs
                    THEN [kept |-> results[g] \ delete[g], deleted |-> delete[g]]
                    ELSE sel[g]]
MarkedAfter(gs, delete) == marked \cup UNION {delete[g] : g \in gs}

Choose(gs, delete) ==
  /\ sel' = ChoiceAfter(gs, delete)
  /\ marked' = MarkedAfter(gs, delete)
  /\ chosen' = chosen \cup UNION {delete[g] : g \in gs}

(* _apply_smart_rule_all_visible(): in the groups of order, which are those *)
(* the filter shows and that have no protected file, all but the keeper are *)
(* marked.  Each group is an edit, and so is the beginning of the whole.    *)
SmartRule(order, keeper) ==
  LET n == Len(order)
      delete == [g \in Groups |-> results[g] \ {keeper[g]}]
      Upto(i) == {order[j] : j \in 1..i}
  IN /\ tab = "review" /\ sheet = "closed"
     /\ \A i \in 1..n : keeper[order[i]] \in results[order[i]] /\ delete[order[i]] # {}
     /\ Choose(Upto(n), delete)
     /\ selected' = IF n = 0 THEN selected ELSE marked'
     /\ PushUndo(<<Edits>> \o [i \in 1..n |->
                   [marked |-> MarkedAfter(Upto(i - 1), delete),
                    sel |-> ChoiceAfter(Upto(i - 1), delete)]])
     /\ toast' = FALSE
     /\ UNCHANGED <<tab, results, snap, sheet, ticked, groups, backend, lastJson, saved, trashVars>>

(* _apply_paths_for_group() from the inspect screen: keep one file of the   *)
(* group, by a button or a key, or delete all of it.                        *)
InspectDelete(g, delete) ==
  /\ tab = "review" /\ results[g] # {}
  /\ \/ \E p \in results[g] : delete = results[g] \ {p}
     \/ sheet = "closed" /\ delete = results[g]
  /\ Choose({g}, [h \in Groups |-> delete])
  /\ selected' = marked'
  /\ PushUndo(<<Edits>>)
  /\ UNCHANGED <<tab, results, sheetVars, groups, backend, lastJson, saved, trashVars>>

(* _inspect_keep_both(): the marks stay.                                    *)
InspectKeepAll(g) ==
  /\ tab = "review" /\ results[g] # {}
  /\ sel' = [sel EXCEPT ![g] = [kept |-> results[g], deleted |-> {}]]
  /\ PushUndo(<<Edits>>)
  /\ UNCHANGED <<tab, results, marked, chosen, sheetVars, storeVars, saved, trashVars>>

(* _undo() and _redo(): from one stack to the other, and not to the store.  *)
EditUndo ==
  /\ tab = "review" /\ undoStack # <<>>
  /\ LET s == undoStack[Len(undoStack)] IN marked' = s.marked /\ sel' = s.sel
  /\ undoStack' = SubSeq(undoStack, 1, Len(undoStack) - 1)
  /\ redoStack' = Append(redoStack, Edits)
  /\ UNCHANGED <<tab, results, sheetVars, storeVars, saved, chosen, trashVars>>

EditRedo ==
  /\ tab = "review" /\ redoStack # <<>>
  /\ LET s == redoStack[Len(redoStack)] IN marked' = s.marked /\ sel' = s.sel
  /\ redoStack' = SubSeq(redoStack, 1, Len(redoStack) - 1)
  /\ undoStack' = Append(undoStack, Edits)
  /\ UNCHANGED <<tab, results, sheetVars, storeVars, saved, chosen, trashVars>>

(* _save_session()                                                          *)
SaveSession ==
  /\ tab = "review"
  /\ saved' = [none |-> FALSE, marked |-> marked]
  /\ toast' = FALSE
  /\ UNCHANGED <<tab, results, edits, snap, sheet, ticked, storeVars, chosen, trashVars>>

------------------------------------------------------------------------------
(* Deleting and restoring. *)

(* _open_apply_sheet(): the snapshot of an earlier apply is dropped, its    *)
(* toast stays.                                                             *)
OpenSheet ==
  /\ tab = "review" /\ sheet = "closed"
  /\ IF Cart = {} THEN toast' = FALSE /\ UNCHANGED <<snap, sheet, ticked>>
     ELSE sheet' = "summary" /\ ticked' = FALSE /\ snap' = None /\ UNCHANGED toast
  /\ UNCHANGED <<tab, results, edits, storeVars, saved, chosen, trashVars>>

(* _apply_goto_confirm(), _apply_goto_summary(), the checkbox, and the ways *)
(* to close the sheet.                                                      *)
MoveSheet ==
  /\ \/ sheet = "summary" /\ sheet' = "confirm" /\ UNCHANGED ticked
     \/ sheet = "confirm" /\ sheet' = "summary" /\ UNCHANGED ticked
     \/ sheet = "confirm" /\ UNCHANGED sheet /\ ticked' = ~ticked
     \/ sheet # "closed" /\ sheet' = "closed" /\ ticked' = FALSE
  /\ UNCHANGED <<tab, results, edits, snap, toast, storeVars, saved, chosen, trashVars>>

(* Variant: a group that keeps one file stays. *)
PruneOne(gs, gone) ==
  [g \in Groups |-> gs[g] \ gone]

(* prune_paths_from_groups()                                                *)
Prune(gs, gone) ==
  [g \in Groups |-> IF gone # {} /\ Cardinality(gs[g] \ gone) < 2
                    THEN {} ELSE gs[g] \ gone]

(* _reconcile_state_after_delete(), and the marks go to the store.          *)
Reconcile(gs) ==
  /\ results' = gs
  /\ marked' = marked \cap Listed(gs)
  /\ sel' = [g \in Groups |->
               IF gs[g] = {} THEN NoChoice
               ELSE [kept |-> sel[g].kept \cap Listed(gs),
                     deleted |-> sel[g].deleted \cap Listed(gs)]]
  /\ selected' = marked'

(* _apply_run_confirmed(), _apply_execute_deletes(): of the cart, the files *)
(* of moved can be moved.                                                   *)
Apply(moved) ==
  /\ tab = "review" /\ sheet = "confirm" /\ ticked
  /\ DeleteFiles(Cart, moved)
  /\ snap' = [none |-> FALSE, results |-> results, marked |-> marked, sel |-> sel,
              batch |-> IF moved = {} THEN 0 ELSE batch + 1]
  /\ Reconcile(Prune(results, moved))
  /\ sheet' = IF moved = {} THEN "nothing" ELSE "outcome"
  /\ toast' = TRUE
  /\ UNCHANGED <<tab, undoStack, redoStack, ticked, groups, backend, lastJson, saved, chosen>>

(* Variant: an undo leaves the snapshot behind. *)
UndoApplyKeeping(back) ==
  /\ UndoLast(back)
  /\ IF snap.none THEN UNCHANGED <<results, marked, sel>>
     ELSE results' = snap.results /\ marked' = snap.marked /\ sel' = snap.sel
  /\ selected' = marked'
  /\ toast' = FALSE
  /\ UNCHANGED <<snap, tab, undoStack, redoStack, groups, backend, lastJson, saved, chosen>>

(* _toast_undo_last_apply(): what DeleteService could restore is not asked. *)
UndoApply(back) ==
  /\ UndoLast(back)
  /\ IF snap.none THEN UNCHANGED <<results, marked, sel>>
     ELSE results' = snap.results /\ marked' = snap.marked /\ sel' = snap.sel
  /\ snap' = None
  /\ selected' = marked'
  /\ toast' = FALSE
  /\ UNCHANGED <<tab, undoStack, redoStack, groups, backend, lastJson, saved, chosen>>

(* Undo in the toast; "Restore from managed storage" in the sheet, which is *)
(* there when a file was moved.                                             *)
ToastUndo(back) ==
  tab = "review" /\ sheet = "closed" /\ toast /\ UndoApply(back) /\ UNCHANGED <<sheet, ticked>>
RestoreManaged(back) ==
  sheet = "outcome" /\ UndoApply(back) /\ sheet' = "closed" /\ ticked' = FALSE

------------------------------------------------------------------------------
(* The application around the review. *)

(* on_show(): listing and marks come from the store, the marks of a saved   *)
(* session in their place; the choices stay.                                *)
ShownMarks(store) == IF saved.none THEN store ELSE saved.marked

Show ==
  /\ tab = "other"
  /\ tab' = "review"
  /\ results' = IF groups = NoListing THEN results ELSE groups
  /\ marked' = ShownMarks(selected)
  /\ UNCHANGED <<sel, undoStack, redoStack, sheetVars, storeVars, saved, chosen, trashVars>>

Leave ==
  /\ tab = "review" /\ tab' = "other"
  /\ UNCHANGED <<results, edits, sheetVars, storeVars, saved, chosen, trashVars>>

(* ScanCompleted in the reducer and its listeners: the review is shown, if  *)
(* it was not, and is given the listing.                                    *)
ScanCompleted(gs) ==
  /\ groups' = gs /\ selected' = {}
  /\ tab' = "review" /\ results' = gs
  /\ marked' = IF tab = "review" THEN marked ELSE ShownMarks({})
  /\ UNCHANGED <<sel, undoStack, redoStack, sheetVars, saved, chosen, trashVars>>

(* A listing of copies that are there, in groups numbered without a gap.    *)
IsListing(gs) ==
  /\ \A g \in Groups : gs[g] # {} =>
       /\ Cardinality(gs[g]) >= 2
       /\ \E c \in CopySets : gs[g] = c \cap OnDisk
       /\ \A h \in 1..(g - 1) : gs[h] # {} /\ gs[h] \cap gs[g] = {}

(* A scan ends, dispatch_scan_complete(): it may have been cut short, or of *)
(* other folders, so that it lists some of the copies.                      *)
ScanEnds(gs) ==
  /\ IsListing(gs)
  /\ ScanCompleted(gs)
  /\ backend' = gs
  /\ lastJson' = IF gs = NoListing THEN lastJson ELSE gs

(* open_last_session(): what the engine has, else what last.json has.       *)
OpenLast ==
  LET gs == IF backend = NoListing THEN lastJson ELSE backend IN
  /\ gs # NoListing
  /\ ScanCompleted(gs)
  /\ UNCHANGED <<backend, lastJson>>

(* The program ends, between two handlers or within a delete, and starts    *)
(* again: the files that it wrote are left.                                 *)
Restarted ==
  /\ tab' = "other" /\ results' = NoListing
  /\ marked' = {} /\ sel' = [g \in Groups |-> NoChoice]
  /\ undoStack' = <<>> /\ redoStack' = <<>>
  /\ snap' = None /\ sheet' = "closed" /\ ticked' = FALSE /\ toast' = FALSE
  /\ groups' = NoListing /\ selected' = {} /\ backend' = NoListing
  /\ UNCHANGED <<lastJson, saved, chosen>>

Quit == ForgetHistory /\ Restarted

DieInApply(moved) ==
  /\ tab = "review" /\ sheet = "confirm" /\ ticked
  /\ DieDeleting(Cart, moved)
  /\ Restarted

Put(p) ==
  /\ PutFile(p)
  /\ UNCHANGED <<tab, results, edits, sheetVars, storeVars, saved, chosen>>

------------------------------------------------------------------------------
Orders == {s \in UNION {[1..n -> Groups] : n \in 0..MaxGroup} :
             \A i, j \in DOMAIN s : i # j => s[i] # s[j]}

(* A choice of files, or a listing: the bound lets MaxTurns happen.         *)
Turn == turns < MaxTurns /\ turns' = turns + 1

Mark ==
  /\ Turn
  /\ \/ \E g \in Groups, p \in Path : ToggleMark(g, p)
     \/ \E order \in Orders, keeper \in [Groups -> Path] : SmartRule(order, keeper)
     \/ \E g \in Groups, delete \in SUBSET Path : InspectDelete(g, delete)
     \/ \E g \in Groups : InspectKeepAll(g)
     \/ EditUndo \/ EditRedo \/ SaveSession

NewListing ==
  /\ Turn
  /\ OpenLast \/ \E gs \in [Groups -> SUBSET Path] : ScanEnds(gs)

Other ==
  /\ UNCHANGED turns
  /\ \/ OpenSheet \/ MoveSheet
     \/ \E moved \in SUBSET Path : Apply(moved) \/ DieInApply(moved)
     \/ \E back \in SUBSET Path : ToastUndo(back) \/ RestoreManaged(back)
     \/ Show \/ Leave \/ Quit
     \/ \E p \in Path : Put(p)

Next == Mark \/ NewListing \/ Other

Spec == Init /\ [][Next]_vars

------------------------------------------------------------------------------
Choices   == [kept : SUBSET Path, deleted : SUBSET Path]
Snapshots == [marked : SUBSET Path, sel : [Groups -> Choices]]
Listings  == [Groups -> SUBSET Path]

(* The variables' types. *)
TypeOK ==
  /\ TrashTypeOK
  /\ tab \in {"review", "other"}
  /\ results \in Listings /\ groups \in Listings
  /\ backend \in Listings /\ lastJson \in Listings
  /\ Edits \in Snapshots
  /\ undoStack \in Seq(Snapshots) /\ redoStack \in Seq(Snapshots)
  /\ snap.none \/ /\ snap.results \in Listings /\ snap.batch \in 0..batch
                  /\ [marked |-> snap.marked, sel |-> snap.sel] \in Snapshots
  /\ sheet \in {"closed", "summary", "confirm", "outcome", "nothing"}
  /\ ticked \in BOOLEAN /\ toast \in BOOLEAN
  /\ selected \in SUBSET Path /\ chosen \in SUBSET Path
  /\ saved.none \/ saved.marked \in SUBSET Path

(* A file that the user never chose for deletion is never moved to the      *)
(* trash, through whatever rescans, tabs, saved sessions, undone edits and  *)
(* undone deletes its path went: group numbers are used again while the     *)
(* choices by number stay (host.py:203-209, state.py:160).                  *)
UnchosenStays == \A b \in Batches : InTrash(b) \subseteq chosen

(* No file of a group is both kept and deleted in the choice the user made  *)
(* of the group, nor in any that an undo may bring back (host.py:636-650,   *)
(* 774-780, 799-806).                                                       *)
Consistent(choices) == \A g \in Groups : choices[g].kept \cap choices[g].deleted = {}

ChoicesConsistent ==
  /\ Consistent(sel)
  /\ \A i \in 1..Len(undoStack) : Consistent(undoStack[i].sel)
  /\ \A i \in 1..Len(redoStack) : Consistent(redoStack[i].sel)
  /\ snap.none \/ Consistent(snap.sel)

(* The review state that an Undo would bring back is that of the batch it   *)
(* would bring back, if the apply of that state moved anything              *)
(* (host.py:587-598 asks nothing of the kind).                              *)
SnapOfLastBatch == snap.none \/ snap.batch = 0 \/ IsLast(snap.batch)

(* An Undo with such a state that restores every file of the batch leaves   *)
(* each of them at its place with what the batch took, listed, and in the   *)
(* cart (host.py:587-598, delete_service.py:168-193).                       *)
UndoBringsBack ==
  [][(~snap.none /\ snap' # snap /\ disk' # disk /\ batch' = batch /\ history' # history)
     => /\ results' = snap.results
        /\ snap.batch # 0 =>
             \A p \in InTrash(snap.batch) :
               disk'[p] = trash[snap.batch][p] /\ p \in Cart']_vars

(* After an apply no moved file is listed, marked or chosen, a group that   *)
(* lost no file is as it was, and no group is left with one file            *)
(* (groups_prune.py:15-39, host.py:425-437).                                *)
ReviewAfterApply ==
  [][batch' # batch /\ ~snap'.none =>
       LET moved == OnDisk \ OnDisk' IN
       /\ moved \cap (Listed(results') \cup marked'
                      \cup UNION {sel'[g].deleted \cup sel'[g].kept : g \in Groups}) = {}
       /\ \A g \in Groups :
            /\ results[g] \cap moved = {} => results'[g] = results[g]
            /\ Cardinality(results'[g]) # 1]_vars
===============================================================================
