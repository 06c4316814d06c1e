----------------------------- MODULE DeleteService -----------------------------
(***************************************************************************)
(* The managed trash of DeleteService: batches of files that were moved    *)
(* there, the history of the batches that can be undone, and the places    *)
(* the files came from, where the user may have put another file since.    *)
(*                                                                         *)
(* A file is its path and a number: n is the n-th content the path had,    *)
(* the first of which it holds at the start, and 0 is none.  A move is a   *)
(* rename.  The history is a list in the order of its batches' numbers     *)
(* (the tx_id is the time), so that a set of numbers says as much: its     *)
(* largest is the list's last.                                             *)
(***************************************************************************)
EXTENDS Integers, FiniteSets

CONSTANTS
  Path,         \* the files' places
  MaxHistory,   \* _MAX_TRASH_HISTORY
  MaxBatch,     \* bound: batches in a behaviour
  MaxVersion,   \* bound: contents a place has in turn
  MaxStuck,     \* bound: files that a delete or an undo leaves behind
  MaxPlaces     \* bound: places where the user puts another file

ASSUME TrashAssumption ==
  /\ IsFiniteSet(Path)
  /\ MaxHistory \in Nat \ {0} /\ MaxBatch \in Nat /\ MaxVersion \in Nat \ {0}
  /\ MaxStuck \in Nat /\ MaxPlaces \in Nat

VARIABLES
  disk,      \* what is at each path
  newest,    \* the number of the content the user put there last
  batch,     \* number of the last batch
  trash,     \* what each batch's directory holds of each path
  history    \* _TRASH_HISTORY

trashVars == <<disk, newest, batch, trash, history>>

Batches  == 1..MaxBatch
OnDisk   == {p \in Path : disk[p] # 0}
InTrash(b) == {p \in Path : trash[b][p] # 0}
IsLast(b)  == b \in history /\ \A c \in history : c <= b

TrashInit ==
  /\ disk = [p \in Path |-> 1] /\ newest = [p \in Path |-> 1]
  /\ batch = 0
  /\ trash = [b \in Batches |-> [p \in Path |-> 0]]
  /\ history = {}

------------------------------------------------------------------------------
(* The last MaxHistory of a set of batches: "while len > max: pop(0)".      *)
Capped(H) == {b \in H : Cardinality({c \in H : c > b}) < MaxHistory}

(* The files of moved go to the directory of a batch of their own.          *)
MoveToTrash(moved) ==
  /\ disk' = [p \in Path |-> IF p \in moved THEN 0 ELSE disk[p]]
  /\ batch' = batch + 1
  /\ trash' = [trash EXCEPT ![batch + 1] =
                 [p \in Path |-> IF p \in moved THEN disk[p] ELSE 0]]
  /\ UNCHANGED newest

(* Of the files of all, those of moved can be moved. *)
Movable(moved, all) == moved \subseteq all /\ Cardinality(all \ moved) <= MaxStuck

(* delete_files() with the managed trash: of the paths that are there those *)
(* of moved can be moved.  A batch that moved nothing is not recorded.      *)
DeleteFiles(paths, moved) ==
  /\ Movable(moved, paths \cap OnDisk)
  /\ IF moved = {} THEN UNCHANGED trashVars
     ELSE /\ batch < MaxBatch
          /\ MoveToTrash(moved)
          /\ history' = Capped(history \cup {batch + 1})

(* The program ends while delete_files() has moved what is in moved: the    *)
(* batch is not in the history, and the history is gone.                    *)
DieDeleting(paths, moved) ==
  /\ moved \subseteq paths \cap OnDisk /\ moved # {} /\ batch < MaxBatch
  /\ MoveToTrash(moved)
  /\ history' = {}

(* The program ends: the history is in memory only.                         *)
ForgetHistory ==
  /\ history' = {}
  /\ UNCHANGED <<disk, newest, batch, trash>>

(* Variant: the directory is removed, with what stayed behind. *)
MoveBackRemoving(b, back) ==
  /\ disk' = [p \in Path |-> IF p \in back THEN trash[b][p] ELSE disk[p]]
  /\ trash' = [trash EXCEPT ![b] = [p \in Path |-> 0]]
  /\ UNCHANGED <<newest, batch>>

(* The files of back leave the directory of batch b for their places.       *)
MoveBack(b, back) ==
  /\ disk' = [p \in Path |-> IF p \in back THEN trash[b][p] ELSE disk[p]]
  /\ trash' = [trash EXCEPT ![b] =
                 [p \in Path |-> IF p \in back THEN 0 ELSE trash[b][p]]]
  /\ UNCHANGED <<newest, batch>>

(* Variant: the oldest batch of the history is undone first. *)
UndoLastOldest(back) ==
  IF history = {} THEN back = {} /\ UNCHANGED trashVars
  ELSE \E b \in history :
         /\ \A c \in history : b <= c
         /\ Movable(back, InTrash(b))
         /\ MoveBack(b, back)
         /\ history' = IF back = InTrash(b) THEN history \ {b} ELSE history

(* undo_last_trash_delete(): of the last batch's files, back can be moved;  *)
(* what is at their places is overwritten.  A batch of which a file stayed  *)
(* behind stays in the history.                                             *)
UndoLast(back) ==
  IF history = {} THEN back = {} /\ UNCHANGED trashVars
  ELSE \E b \in Batches :
         /\ IsLast(b)
         /\ Movable(back, InTrash(b))
         /\ MoveBack(b, back)
         /\ history' = IF back = InTrash(b) THEN history \ {b} ELSE history

(* The user, or another program, puts a file at a place that is free.       *)
PutFile(p) ==
  /\ disk[p] = 0 /\ newest[p] < MaxVersion
  /\ Cardinality({q \in Path : newest[q] > 1} \cup {p}) <= MaxPlaces
  /\ disk' = [disk EXCEPT ![p] = newest[p] + 1]
  /\ newest' = [newest EXCEPT ![p] = newest[p] + 1]
  /\ UNCHANGED <<batch, trash, history>>

TrashNext ==
  \/ \E moved \in SUBSET Path :
        DeleteFiles(moved, moved) \/ DieDeleting(moved, moved)
  \/ ForgetHistory
  \/ \E back \in SUBSET Path : UndoLast(back)
  \/ \E p \in Path : PutFile(p)

TrashSpec == TrashInit /\ [][TrashNext]_trashVars

------------------------------------------------------------------------------
(* The variables' types; the trash holds nothing of batches to come, nor    *)
(* does the history.                                                        *)
TrashTypeOK ==
  /\ disk \in [Path -> Nat] /\ newest \in [Path -> Nat]
  /\ batch \in 0..MaxBatch
  /\ trash \in [Batches -> [Path -> Nat]]
  /\ history \subseteq 1..batch
  /\ \A b \in Batches : b > batch => InTrash(b) = {}

(* No content is newer than the last one the user put there, and a content  *)
(* that an undo may bring back is older than the one at its place and than  *)
(* the ones of the batches that are undone before.                          *)
OldestBelow ==
  \A p \in Path :
    /\ disk[p] <= newest[p] /\ \A b \in Batches : trash[b][p] <= newest[p]
    /\ \A b \in history : trash[b][p] # 0 =>
         /\ disk[p] # 0 => trash[b][p] < disk[p]
         /\ \A c \in history : b < c /\ trash[c][p] # 0 => trash[b][p] < trash[c][p]

(* The file that was at a path at first is there or in the trash, whatever  *)
(* is deleted, undone, half undone or put in its place, and wherever the    *)
(* program ends: an undo overwrites (delete_service.py:183), but never an   *)
(* original.                                                                *)
OriginalsKept == \A p \in Path : disk[p] = 1 \/ \E b \in Batches : trash[b][p] = 1
===============================================================================
