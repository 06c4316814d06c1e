--------------------------- MODULE ReviewFlow_proofs ---------------------------
(***************************************************************************)
(* Proofs about the managed trash and the review, for every choice of the  *)
(* constants.                                                              *)
(***************************************************************************)
EXTENDS ReviewFlow, FiniteSetTheorems, SequenceTheorems, TLAPS

(* What each move does to a path and to a batch's directory. *)
LEMMA Moving ==
  ASSUME TrashTypeOK, NEW moved \in SUBSET OnDisk, MoveToTrash(moved), batch < MaxBatch
  PROVE  /\ batch + 1 \in Batches /\ batch' = batch + 1 /\ newest' = newest
         /\ disk' \in [Path -> Nat] /\ trash' \in [Batches -> [Path -> Nat]]
         /\ \A p \in Path : disk'[p] = IF p \in moved THEN 0 ELSE disk[p]
         /\ \A b \in Batches, p \in Path :
              trash'[b][p] = IF b = batch + 1 THEN IF p \in moved THEN disk[p] ELSE 0
                             ELSE trash[b][p]
<1>1. batch \in Nat /\ MaxBatch \in Nat /\ batch + 1 \in Batches
  BY TrashAssumption DEF TrashTypeOK, Batches
<1>2. disk \in [Path -> Nat] /\ trash \in [Batches -> [Path -> Nat]]
  BY DEF TrashTypeOK
<1>3. batch' = batch + 1 /\ newest' = newest
  BY DEF MoveToTrash
<1>4. disk' = [p \in Path |-> IF p \in moved THEN 0 ELSE disk[p]]
  BY DEF MoveToTrash
<1>5. trash' = [trash EXCEPT ![batch + 1] = [p \in Path |-> IF p \in moved THEN disk[p] ELSE 0]]
  BY DEF MoveToTrash
<1>6. [p \in Path |-> IF p \in moved THEN disk[p] ELSE 0] \in [Path -> Nat]
  BY <1>2
<1> QED BY <1>1, <1>2, <1>3, <1>4, <1>5, <1>6

LEMMA MovingBack ==
  ASSUME TrashTypeOK, NEW b \in Batches, NEW back \in SUBSET InTrash(b), MoveBack(b, back)
  PROVE  /\ newest' = newest /\ batch' = batch
         /\ disk' \in [Path -> Nat] /\ trash' \in [Batches -> [Path -> Nat]]
         /\ \A p \in Path : disk'[p] = IF p \in back THEN trash[b][p] ELSE disk[p]
         /\ \A c \in Batches, p \in Path :
              trash'[c][p] = IF c = b /\ p \in back THEN 0 ELSE trash[c][p]
<1>2. disk \in [Path -> Nat] /\ trash \in [Batches -> [Path -> Nat]]
  BY DEF TrashTypeOK
<1>3. batch' = batch /\ newest' = newest
  BY DEF MoveBack
<1>4. disk' = [p \in Path |-> IF p \in back THEN trash[b][p] ELSE disk[p]]
  BY DEF MoveBack
<1>5. trash' = [trash EXCEPT ![b] = [p \in Path |-> IF p \in back THEN 0 ELSE trash[b][p]]]
  BY DEF MoveBack
<1>6. [p \in Path |-> IF p \in back THEN 0 ELSE trash[b][p]] \in [Path -> Nat]
  BY <1>2
<1> QED BY <1>2, <1>3, <1>4, <1>5, <1>6

------------------------------------------------------------------------------
TrashInv == TrashTypeOK /\ OldestBelow /\ OriginalsKept

LEMMA TrashInvInit == TrashInit => TrashInv
<1> SUFFICES ASSUME TrashInit PROVE TrashInv
  OBVIOUS
<1>1. TrashTypeOK
  BY TrashAssumption DEF TrashInit, TrashTypeOK, Batches, InTrash
<1>2. OldestBelow /\ OriginalsKept
  BY TrashAssumption DEF TrashInit, OldestBelow, OriginalsKept, Batches
<1> QED BY <1>1, <1>2 DEF TrashInv

(* A delete, recorded or not. *)
LEMMA TrashInvMove ==
  ASSUME TrashInv, NEW moved \in SUBSET OnDisk, MoveToTrash(moved), batch < MaxBatch,
         history' \subseteq history \cup {batch + 1}
  PROVE  TrashInv'
<1> USE DEF TrashInv
<1>0. /\ batch \in Nat /\ batch + 1 \in Batches /\ history \subseteq 1..batch
      /\ disk \in [Path -> Nat] /\ newest \in [Path -> Nat]
      /\ trash \in [Batches -> [Path -> Nat]]
  BY Moving, TrashAssumption DEF TrashTypeOK
<1>1. TrashTypeOK'
  <2>1. history' \subseteq 1..batch' /\ batch' \in 0..MaxBatch
    BY <1>0, Moving DEF Batches
  <2>2. ASSUME NEW b \in Batches, b > batch' PROVE InTrash(b)' = {}
    <3>1. b # batch + 1 /\ b > batch
      BY <1>0, <2>2, Moving DEF Batches
    <3>2. InTrash(b) = {}
      BY <3>1 DEF TrashTypeOK
    <3> QED BY <3>1, <3>2, Moving DEF InTrash
  <2> QED BY <1>0, <2>1, <2>2, Moving DEF TrashTypeOK
<1>2. OldestBelow'
  <2> SUFFICES ASSUME NEW p \in Path
      PROVE /\ disk'[p] <= newest'[p] /\ \A b \in Batches : trash'[b][p] <= newest'[p]
            /\ \A b \in history' : trash'[b][p] # 0 =>
                 /\ disk'[p] # 0 => trash'[b][p] < disk'[p]
                 /\ \A c \in history' : b < c /\ trash'[c][p] # 0 => trash'[b][p] < trash'[c][p]
    BY DEF OldestBelow
  <2>0. /\ disk[p] \in Nat /\ newest[p] \in Nat /\ \A b \in Batches : trash[b][p] \in Nat
        /\ disk[p] <= newest[p] /\ \A b \in Batches : trash[b][p] <= newest[p]
        /\ history \subseteq Batches
        /\ \A b \in history : trash[b][p] # 0 => (disk[p] # 0 => trash[b][p] < disk[p])
        /\ \A b, c \in history : trash[b][p] # 0 /\ b < c /\ trash[c][p] # 0
                                  => trash[b][p] < trash[c][p]
    BY <1>0, TrashAssumption DEF OldestBelow, Batches, TrashTypeOK
  <2>1. disk'[p] <= newest'[p] /\ \A b \in Batches : trash'[b][p] <= newest'[p]
    BY <2>0, Moving
  <2>2. ASSUME NEW b \in history', trash'[b][p] # 0, disk'[p] # 0
        PROVE  trash'[b][p] < disk'[p]
    <3>1. b \in Batches /\ disk'[p] = disk[p] /\ p \notin moved
      BY <1>0, <2>0, <2>2, Moving
    <3>2. b # batch + 1 /\ b \in history /\ trash'[b][p] = trash[b][p]
      BY <1>0, <2>2, <3>1, Moving
    <3> QED BY <2>0, <2>2, <3>1, <3>2
  <2>3. ASSUME NEW b \in history', NEW c \in history', b < c,
               trash'[b][p] # 0, trash'[c][p] # 0
        PROVE  trash'[b][p] < trash'[c][p]
    <3>1. b \in history /\ b # batch + 1 /\ b \in Batches /\ c \in Batches
      <4>1. b \in history \cup {batch + 1} /\ c \in history \cup {batch + 1}
        OBVIOUS
      <4>2. \A e \in history : e \in 1..MaxBatch /\ e \in Nat /\ e <= batch
        BY <1>0, <2>0 DEF Batches
      <4>3. b < batch + 1
        BY <1>0, <2>3, <4>1, <4>2
      <4>4. b \in history
        BY <1>0, <4>1, <4>3
      <4>5. c \in Batches
        BY <1>0, <4>1, <4>2 DEF Batches
      <4>6. b \in Batches
        BY <4>2, <4>4 DEF Batches
      <4> QED BY <1>0, <4>2, <4>3, <4>4, <4>5, <4>6
    <3>2. CASE c = batch + 1
      BY <1>0, <2>0, <2>3, <3>1, <3>2, Moving
    <3>3. CASE c # batch + 1
      BY <1>0, <2>0, <2>3, <3>1, <3>3, Moving
    <3> QED BY <3>2, <3>3
  <2> QED BY <2>1, <2>2, <2>3
<1>3. OriginalsKept'
  <2> SUFFICES ASSUME NEW p \in Path
               PROVE  disk'[p] = 1 \/ \E b \in Batches : trash'[b][p] = 1
    BY DEF OriginalsKept
  <2>1. CASE disk[p] = 1
    BY <2>1, <1>0, Moving
  <2>2. CASE \E b \in Batches : trash[b][p] = 1
    <3>1. PICK b \in Batches : trash[b][p] = 1
      BY <2>2
    <3>2. b # batch + 1
      BY <3>1, <1>0 DEF TrashTypeOK, InTrash
    <3> QED BY <3>1, <3>2, Moving
  <2> QED BY <2>1, <2>2 DEF OriginalsKept
<1> QED BY <1>1, <1>2, <1>3

(* An undo of the last batch. *)
LEMMA TrashInvMoveBack ==
  ASSUME TrashInv, NEW b \in history, IsLast(b), NEW back \in SUBSET InTrash(b),
         MoveBack(b, back), history' \subseteq history
  PROVE  TrashInv'
<1> USE DEF TrashInv
<1>0. /\ batch \in Nat /\ b \in Batches /\ history \subseteq 1..batch /\ history \subseteq Batches
      /\ disk \in [Path -> Nat] /\ newest \in [Path -> Nat]
      /\ trash \in [Batches -> [Path -> Nat]]
  BY TrashAssumption DEF TrashTypeOK, Batches
<1>1. TrashTypeOK'
  <2>1. ASSUME NEW c \in Batches, c > batch' PROVE InTrash(c)' = {}
    <3>1. c > batch /\ InTrash(c) = {}
      BY <1>0, <2>1, MovingBack DEF TrashTypeOK
    <3> QED BY <1>0, <3>1, MovingBack DEF InTrash
  <2> QED BY <1>0, <2>1, MovingBack DEF TrashTypeOK
<1>2. ASSUME NEW p \in Path
      PROVE  /\ disk[p] \in Nat /\ newest[p] \in Nat /\ \A c \in Batches : trash[c][p] \in Nat
             /\ disk[p] <= newest[p] /\ \A c \in Batches : trash[c][p] <= newest[p]
             /\ \A c \in history : trash[c][p] # 0 => (disk[p] # 0 => trash[c][p] < disk[p])
             /\ \A c, e \in history : trash[c][p] # 0 /\ c < e /\ trash[e][p] # 0
                                       => trash[c][p] < trash[e][p]
             /\ \A c \in history : c <= b
             /\ p \in back => trash[b][p] # 0
  BY <1>0 DEF OldestBelow, IsLast, InTrash
<1>3. OldestBelow'
  <2> SUFFICES ASSUME NEW p \in Path
      PROVE /\ disk'[p] <= newest'[p] /\ \A c \in Batches : trash'[c][p] <= newest'[p]
            /\ \A c \in history' : trash'[c][p] # 0 =>
                 /\ disk'[p] # 0 => trash'[c][p] < disk'[p]
                 /\ \A e \in history' : c < e /\ trash'[e][p] # 0 => trash'[c][p] < trash'[e][p]
    BY DEF OldestBelow
  <2>1. disk'[p] <= newest'[p] /\ \A c \in Batches : trash'[c][p] <= newest'[p]
    BY <1>0, <1>2, MovingBack
  <2>2. ASSUME NEW c \in history', trash'[c][p] # 0, disk'[p] # 0
        PROVE  trash'[c][p] < disk'[p]
    <3>1. CASE p \in back
      <4>1. c # b /\ c < b /\ trash'[c][p] = trash[c][p] /\ disk'[p] = trash[b][p]
        BY <1>0, <1>2, <2>2, <3>1, MovingBack DEF Batches
      <4> QED BY <1>0, <1>2, <2>2, <3>1, <4>1
    <3>2. CASE p \notin back
      BY <1>0, <1>2, <2>2, <3>2, MovingBack
    <3> QED BY <3>1, <3>2
  <2>3. ASSUME NEW c \in history', NEW e \in history', c < e,
               trash'[c][p] # 0, trash'[e][p] # 0
        PROVE  trash'[c][p] < trash'[e][p]
    <3>1. trash'[c][p] = trash[c][p] /\ trash'[e][p] = trash[e][p]
      BY <1>0, <2>3, MovingBack
    <3> QED BY <1>0, <1>2, <2>3, <3>1
  <2> QED BY <2>1, <2>2, <2>3
<1>4. OriginalsKept'
  <2> SUFFICES ASSUME NEW p \in Path
               PROVE  disk'[p] = 1 \/ \E c \in Batches : trash'[c][p] = 1
    BY DEF OriginalsKept
  <2>1. CASE disk[p] = 1
    <3>1. p \notin back
      BY <1>0, <1>2, <2>1
    <3> QED BY <1>0, <2>1, <3>1, MovingBack
  <2>2. CASE \E c \in Batches : trash[c][p] = 1
    BY <1>0, <2>2, MovingBack
  <2> QED BY <2>1, <2>2 DEF OriginalsKept
<1> QED BY <1>1, <1>3, <1>4

LEMMA TrashInvPut == ASSUME TrashInv, NEW p \in Path, PutFile(p) PROVE TrashInv'
<1> USE DEF TrashInv
<1>0. /\ history \subseteq Batches /\ history' = history /\ trash' = trash /\ batch' = batch
      /\ disk \in [Path -> Nat] /\ newest \in [Path -> Nat]
      /\ trash \in [Batches -> [Path -> Nat]]
      /\ disk[p] = 0 /\ disk' = [disk EXCEPT ![p] = newest[p] + 1]
      /\ newest' = [newest EXCEPT ![p] = newest[p] + 1]
  BY TrashAssumption DEF TrashTypeOK, Batches, PutFile
<1>1. TrashTypeOK'
  BY <1>0 DEF TrashTypeOK, InTrash
<1>2. OldestBelow'
  BY <1>0 DEF OldestBelow
<1>3. OriginalsKept'
  BY <1>0 DEF OriginalsKept
<1> QED BY <1>1, <1>2, <1>3

LEMMA TrashInvStep == TrashInv /\ [TrashNext]_trashVars => TrashInv'
<1> SUFFICES ASSUME TrashInv, [TrashNext]_trashVars PROVE TrashInv'
  OBVIOUS
<1>1. CASE UNCHANGED trashVars
  BY <1>1 DEF trashVars, TrashInv, TrashTypeOK, OldestBelow, OriginalsKept, InTrash
<1>2. ASSUME NEW moved \in SUBSET Path, DeleteFiles(moved, moved) PROVE TrashInv'
  <2>1. CASE moved = {}
    BY <1>1, <1>2, <2>1 DEF DeleteFiles
  <2>2. CASE moved # {}
    <3>1. moved \in SUBSET OnDisk /\ batch < MaxBatch /\ MoveToTrash(moved)
          /\ history' \subseteq history \cup {batch + 1}
      BY <1>2, <2>2 DEF DeleteFiles, Movable, Capped
    <3> QED BY <3>1, TrashInvMove
  <2> QED BY <2>1, <2>2
<1>3. ASSUME NEW moved \in SUBSET Path, DieDeleting(moved, moved) PROVE TrashInv'
  <2>1. moved \in SUBSET OnDisk /\ batch < MaxBatch /\ MoveToTrash(moved) /\ history' = {}
    BY <1>3 DEF DieDeleting
  <2> QED BY <2>1, TrashInvMove
<1>4. CASE ForgetHistory
  BY <1>4 DEF ForgetHistory, TrashInv, TrashTypeOK, OldestBelow, OriginalsKept, InTrash
<1>5. ASSUME NEW back \in SUBSET Path, UndoLast(back) PROVE TrashInv'
  <2>1. CASE history = {}
    BY <1>1, <1>5, <2>1 DEF UndoLast
  <2>2. CASE history # {}
    <3>1. PICK b \in Batches : /\ IsLast(b) /\ Movable(back, InTrash(b)) /\ MoveBack(b, back)
                               /\ history' = IF back = InTrash(b) THEN history \ {b} ELSE history
      BY <1>5, <2>2 DEF UndoLast
    <3>2. b \in history /\ back \in SUBSET InTrash(b) /\ history' \subseteq history
      BY <3>1 DEF IsLast, Movable
    <3> QED BY <3>1, <3>2, TrashInvMoveBack
  <2> QED BY <2>1, <2>2
<1>6. ASSUME NEW p \in Path, PutFile(p) PROVE TrashInv'
  BY <1>6, TrashInvPut
<1> QED BY <1>1, <1>2, <1>3, <1>4, <1>5, <1>6 DEF TrashNext

(* In the managed trash by itself, whoever uses it, the file that was at a  *)
(* path at first is never lost (delete_service.py:168-250).                 *)
THEOREM TrashKeepsOriginals == TrashSpec => []OriginalsKept
<1>1. TrashInit => TrashInv
  BY TrashInvInit
<1>2. TrashInv /\ [TrashNext]_trashVars => TrashInv'
  BY TrashInvStep
<1>3. TrashInv => OriginalsKept
  BY DEF TrashInv
<1> QED BY <1>1, <1>2, <1>3, PTL DEF TrashSpec


------------------------------------------------------------------------------
(* Every handler of the review that touches files does with them what the   *)
(* managed trash may do.                                                    *)
LEMMA ReviewStepIsTrashStep == [Next]_vars => [TrashNext]_trashVars
<1> SUFFICES ASSUME [Next]_vars PROVE [TrashNext]_trashVars
  OBVIOUS
<1>1. CASE UNCHANGED vars
  BY <1>1 DEF vars
<1>2. CASE Mark
  BY <1>2 DEF Mark, ToggleMark, SmartRule, InspectDelete, InspectKeepAll, EditUndo, EditRedo,
              SaveSession
<1>3. CASE NewListing
  BY <1>3 DEF NewListing, OpenLast, ScanEnds, ScanCompleted
<1>4. ASSUME NEW moved \in SUBSET Path, Apply(moved) PROVE [TrashNext]_trashVars
  <2>1. CASE moved = {}
    BY <1>4, <2>1 DEF Apply, DeleteFiles
  <2>2. CASE moved # {}
    <3>1. DeleteFiles(Cart, moved)
      BY <1>4 DEF Apply
    <3>2. moved \in SUBSET OnDisk /\ (moved \cap OnDisk) \ moved = {}
      BY <3>1 DEF DeleteFiles, Movable
    <3>3. Cardinality({}) <= MaxStuck
      BY FS_EmptySet, TrashAssumption
    <3>4. Movable(moved, moved \cap OnDisk)
      BY <3>2, <3>3 DEF Movable
    <3>5. DeleteFiles(moved, moved)
      BY <3>1, <3>4 DEF DeleteFiles
    <3> QED BY <3>5 DEF TrashNext
  <2> QED BY <2>1, <2>2
<1>5. ASSUME NEW moved \in SUBSET Path, DieInApply(moved) PROVE [TrashNext]_trashVars
  <2>1. DieDeleting(moved, moved)
    BY <1>5 DEF DieInApply, DieDeleting
  <2> QED BY <2>1 DEF TrashNext
<1>6. ASSUME NEW back \in SUBSET Path, ToastUndo(back) \/ RestoreManaged(back)
      PROVE  [TrashNext]_trashVars
  BY <1>6 DEF ToastUndo, RestoreManaged, UndoApply, TrashNext
<1>7. CASE Quit
  BY <1>7 DEF Quit, TrashNext
<1>8. ASSUME NEW p \in Path, Put(p) PROVE [TrashNext]_trashVars
  BY <1>8 DEF Put, TrashNext
<1>9. CASE OpenSheet \/ MoveSheet \/ Show \/ Leave
  BY <1>9 DEF OpenSheet, MoveSheet, Show, Leave
<1> QED
  BY <1>1, <1>2, <1>3, <1>4, <1>5, <1>6, <1>7, <1>8, <1>9 DEF Next, Other

(* The review uses the managed trash as TrashSpec says (host.py:513-603).   *)
THEOREM ReviewUsesTrash == Spec => TrashSpec
<1>1. Init => TrashInit
  BY DEF Init
<1>2. [Next]_vars => [TrashNext]_trashVars
  BY ReviewStepIsTrashStep
<1> QED BY <1>1, <1>2, PTL DEF Spec, TrashSpec

LEMMA ReviewKeepsTrashInv == Spec => []TrashInv
<1>1. TrashInit => TrashInv
  BY TrashInvInit
<1>2. TrashInv /\ [TrashNext]_trashVars => TrashInv'
  BY TrashInvStep
<1> QED BY <1>1, <1>2, ReviewUsesTrash, PTL DEF TrashSpec

(* No review loses the original of a path: it is there or in the trash      *)
(* (delete_service.py:168-250, host.py:513-603).                            *)
THEOREM OriginalsKeptHolds == Spec => []OriginalsKept
BY ReviewKeepsTrashInv, PTL DEF TrashInv

(* An undo brings nothing back over something newer.                        *)
THEOREM OldestBelowHolds == Spec => []OldestBelow
BY ReviewKeepsTrashInv, PTL DEF TrashInv

------------------------------------------------------------------------------
(* What the user chose.  Good(C): the choices of a group that delete files  *)
(* of C only, and none that they keep.  EditsOf(C) and SnapsOf(C): the      *)
(* snapshots of such choices.  Everything that could make a file be deleted *)
(* -- marks, choices, stacks, snapshot, store, saved session -- is of files *)
(* that the user chose at some time.                                        *)
Good(C)    == {x \in [kept : SUBSET Path, deleted : SUBSET C] : x.kept \cap x.deleted = {}}
EditsOf(C) == [marked : SUBSET C, sel : [Groups -> Good(C)]]
SnapsOf(C) == [none : {FALSE}, results : Listings, marked : SUBSET C,
               sel : [Groups -> Good(C)], batch : Nat]

ListingInv == results \in Listings
EditInv    == /\ marked \subseteq chosen /\ sel \in [Groups -> Good(chosen)]
              /\ undoStack \in Seq(EditsOf(chosen)) /\ redoStack \in Seq(EditsOf(chosen))
SnapInv    == snap = None \/ snap \in SnapsOf(chosen)
StoreInv   == /\ groups \in Listings /\ backend \in Listings /\ lastJson \in Listings
              /\ selected \subseteq chosen
              /\ saved = None \/ saved \in [none : {FALSE}, marked : SUBSET chosen]

ReviewInv == /\ chosen \subseteq Path
             /\ ListingInv /\ EditInv /\ SnapInv /\ StoreInv
             /\ UnchosenStays

USE DEF Listings, sheetVars, storeVars, edits, trashVars

LEMMA Grow ==
  ASSUME NEW C, NEW D, C \subseteq D
  PROVE  /\ Good(C) \subseteq Good(D) /\ EditsOf(C) \subseteq EditsOf(D)
         /\ Seq(EditsOf(C)) \subseteq Seq(EditsOf(D)) /\ SnapsOf(C) \subseteq SnapsOf(D)
<1>1. Good(C) \subseteq Good(D)
  BY DEF Good
<1>2. [Groups -> Good(C)] \subseteq [Groups -> Good(D)]
  BY <1>1
<1>3. EditsOf(C) \subseteq EditsOf(D)
  BY <1>2 DEF EditsOf
<1>4. SnapsOf(C) \subseteq SnapsOf(D)
  BY <1>2 DEF SnapsOf
<1>5. Seq(EditsOf(C)) \subseteq Seq(EditsOf(D))
  BY <1>3
<1> QED BY <1>1, <1>3, <1>4, <1>5

LEMMA NoChoiceGood == ASSUME NEW C PROVE NoChoice \in Good(C)
BY DEF NoChoice, Good

LEMMA CartChosen == ReviewInv => Cart \subseteq chosen
BY DEF ReviewInv, EditInv, Cart, Good

(* The smart rule and the inspect screen. *)
LEMMA ChoiceGood ==
  ASSUME ReviewInv, NEW D \in SUBSET Path, chosen \subseteq D,
         NEW gs \in SUBSET Groups, NEW delete \in [Groups -> SUBSET Path],
         \A g \in gs : delete[g] \subseteq D
  PROVE  /\ ChoiceAfter(gs, delete) \in [Groups -> Good(D)]
         /\ MarkedAfter(gs, delete) \subseteq D
<1>1. \A g \in Groups : sel[g] \in Good(D)
  BY Grow DEF ReviewInv, EditInv
<1>2. ASSUME NEW g \in gs
      PROVE  [kept |-> results[g] \ delete[g], deleted |-> delete[g]] \in Good(D)
  BY <1>2 DEF ReviewInv, ListingInv, Good
<1>3. ChoiceAfter(gs, delete) \in [Groups -> Good(D)]
  BY <1>1, <1>2 DEF ChoiceAfter
<1>4. MarkedAfter(gs, delete) \subseteq D
  BY DEF MarkedAfter, ReviewInv, EditInv
<1> QED BY <1>3, <1>4

LEMMA PushGood ==
  ASSUME NEW D, undoStack \in Seq(EditsOf(D)), NEW s \in Seq(EditsOf(D)), PushUndo(s)
  PROVE  undoStack' \in Seq(EditsOf(D)) /\ redoStack' \in Seq(EditsOf(D))
<1> DEFINE t == undoStack \o s
           m == IF Len(t) > UndoDepth THEN Len(t) - UndoDepth + 1 ELSE 1
<1>1. t \in Seq(EditsOf(D)) /\ Len(t) \in Nat
  BY ConcatProperties, LenProperties
<1>2. m \in Int /\ m >= 1
  BY <1>1, ReviewAssumption
<1>3. \A i \in m..Len(t) : t[i] \in EditsOf(D)
  BY <1>1, <1>2, ElementOfSeq
<1>4. SubSeq(t, m, Len(t)) \in Seq(EditsOf(D))
  <2> HIDE DEF t, m
  <2> QED BY <1>1, <1>2, <1>3, SubSeqProperties
<1> QED BY <1>4, EmptySeq DEF PushUndo, Recent

LEMMA ReviewInvInit == Init => ReviewInv
<1> SUFFICES ASSUME Init PROVE ReviewInv
  OBVIOUS
<1>1. NoListing \in Listings
  BY DEF NoListing
<1>2. EditInv
  BY NoChoiceGood, EmptySeq DEF Init, ReviewInit, EditInv
<1>3. UnchosenStays
  BY DEF Init, TrashInit, UnchosenStays, InTrash
<1> QED
  BY <1>1, <1>2, <1>3 DEF Init, ReviewInit, ReviewInv, ListingInv, SnapInv, StoreInv

LEMMA ShownChosen ==
  ASSUME ReviewInv, NEW store \in SUBSET chosen PROVE ShownMarks(store) \subseteq chosen
<1>1. CASE saved = None
  BY <1>1 DEF ShownMarks, None
<1>2. CASE saved \in [none : {FALSE}, marked : SUBSET chosen]
  BY <1>2 DEF ShownMarks
<1> QED BY <1>1, <1>2 DEF ReviewInv, StoreInv

(* A step that leaves files, listings and snapshots alone. *)
LEMMA ReviewInvEdit ==
  ASSUME ReviewInv, chosen \subseteq chosen', chosen' \subseteq Path, EditInv',
         selected' \subseteq chosen',
         UNCHANGED <<results, snap, groups, backend, lastJson, trash>>,
         saved' = saved \/ saved' \in [none : {FALSE}, marked : SUBSET chosen']
  PROVE  ReviewInv'
<1>1. SnapInv'
  BY Grow DEF ReviewInv, SnapInv
<1>2. StoreInv'
  BY DEF ReviewInv, StoreInv
<1>3. ListingInv' /\ UnchosenStays'
  BY DEF ReviewInv, ListingInv, UnchosenStays, InTrash
<1> QED BY <1>1, <1>2, <1>3 DEF ReviewInv

LEMMA ToggleMarkStep ==
  ASSUME ReviewInv, NEW g \in Groups, NEW p \in Path, ToggleMark(g, p)
  PROVE  ReviewInv'
<1>1. /\ chosen \subseteq Path /\ marked \subseteq chosen /\ sel \in [Groups -> Good(chosen)]
      /\ undoStack \in Seq(EditsOf(chosen)) /\ redoStack \in Seq(EditsOf(chosen))
  BY DEF ReviewInv, EditInv
<1>2. CASE p \in marked \cup sel[g].deleted
  <2>1. /\ marked' = marked \ {p} /\ chosen' = chosen
        /\ sel' = [sel EXCEPT ![g].deleted = @ \ {p}]
        /\ undoStack' = undoStack /\ redoStack' = redoStack
    BY <1>2 DEF ToggleMark
  <2>2. [sel[g] EXCEPT !.deleted = @ \ {p}] \in Good(chosen)
    BY <1>1 DEF Good
  <2>3. EditInv'
    BY <1>1, <2>1, <2>2 DEF EditInv
  <2> QED BY <1>1, <2>1, <2>3, ReviewInvEdit DEF ToggleMark, EditInv
<1>3. CASE p \notin marked \cup sel[g].deleted
  <2>1. /\ marked' = marked \cup {p} /\ chosen' = chosen \cup {p}
        /\ sel' = [sel EXCEPT ![g].deleted = @ \cup {p}, ![g].kept = @ \ {p}]
        /\ undoStack' = undoStack /\ redoStack' = redoStack
    BY <1>3 DEF ToggleMark
  <2>2. [sel[g] EXCEPT !.deleted = @ \cup {p}, !.kept = @ \ {p}] \in Good(chosen')
    BY <1>1, <2>1 DEF Good
  <2>3. sel \in [Groups -> Good(chosen')]
    BY <1>1, <2>1, Grow
  <2>4. EditInv'
    <3>1. sel' = [sel EXCEPT ![g] = [sel[g] EXCEPT !.deleted = @ \cup {p}, !.kept = @ \ {p}]]
      BY <1>1, <2>1 DEF Good
    <3>2. sel' \in [Groups -> Good(chosen')]
      BY <2>2, <2>3, <3>1
    <3> QED BY <1>1, <2>1, <3>2, Grow DEF EditInv
  <2> QED BY <1>1, <2>1, <2>4, ReviewInvEdit DEF ToggleMark, EditInv
<1> QED BY <1>2, <1>3

LEMMA SmartRuleStep ==
  ASSUME ReviewInv, NEW order \in Orders, NEW keeper \in [Groups -> Path],
         SmartRule(order, keeper)
  PROVE  ReviewInv'
<1> DEFINE n == Len(order)
           delete == [g \in Groups |-> results[g] \ {keeper[g]}]
           Upto(i) == {order[j] : j \in 1..i}
           Taken(i) == [marked |-> MarkedAfter(Upto(i - 1), delete),
                        sel |-> ChoiceAfter(Upto(i - 1), delete)]
<1>1. n \in Nat /\ order \in [1..n -> Groups]
  BY ReviewAssumption DEF Orders
<1>2. delete \in [Groups -> SUBSET Path]
  BY DEF ReviewInv, ListingInv
<1>3. /\ chosen' = chosen \cup UNION {delete[g] : g \in Upto(n)}
      /\ sel' = ChoiceAfter(Upto(n), delete) /\ marked' = MarkedAfter(Upto(n), delete)
      /\ PushUndo(<<Edits>> \o [i \in 1..n |-> Taken(i)])
  BY DEF SmartRule, Choose
<1>4. chosen \subseteq chosen' /\ chosen' \subseteq Path
  BY <1>1, <1>2, <1>3 DEF ReviewInv
<1>5. ASSUME NEW i \in 0..n
      PROVE  /\ ChoiceAfter(Upto(i), delete) \in [Groups -> Good(chosen')]
             /\ MarkedAfter(Upto(i), delete) \subseteq chosen'
  <2>1. Upto(i) \subseteq Groups /\ Upto(i) \subseteq Upto(n)
    BY <1>1
  <2>2. \A g \in Upto(i) : delete[g] \subseteq chosen'
    BY <1>3, <2>1
  <2> HIDE DEF Upto, delete
  <2> QED BY <1>2, <1>4, <2>1, <2>2, ChoiceGood
<1>6. [i \in 1..n |-> Taken(i)] \in Seq(EditsOf(chosen'))
  <2>1. \A i \in 1..n : Taken(i) \in EditsOf(chosen')
    <3> SUFFICES ASSUME NEW i \in 1..n PROVE Taken(i) \in EditsOf(chosen')
      OBVIOUS
    <3>1. i - 1 \in 0..n
      BY <1>1
    <3> QED BY <1>5, <3>1 DEF EditsOf
  <2> HIDE DEF Taken, n
  <2> QED BY <1>1, <2>1
<1>7. <<Edits>> \in Seq(EditsOf(chosen')) /\ undoStack \in Seq(EditsOf(chosen'))
  <2>1. Edits \in EditsOf(chosen)
    BY DEF ReviewInv, EditInv, Edits, EditsOf
  <2>2. EditsOf(chosen) \subseteq EditsOf(chosen')
        /\ Seq(EditsOf(chosen)) \subseteq Seq(EditsOf(chosen'))
    BY <1>4, Grow
  <2> QED BY <2>1, <2>2 DEF ReviewInv, EditInv
<1>8. undoStack' \in Seq(EditsOf(chosen')) /\ redoStack' \in Seq(EditsOf(chosen'))
  <2>1. <<Edits>> \o [i \in 1..n |-> Taken(i)] \in Seq(EditsOf(chosen'))
    BY <1>6, <1>7, ConcatProperties
  <2> QED BY <1>3, <1>7, <2>1, PushGood
<1>9. EditInv' /\ marked' \subseteq chosen'
  <2>1. n \in 0..n
    BY <1>1
  <2>2. sel' \in [Groups -> Good(chosen')] /\ marked' \subseteq chosen'
    <3> HIDE DEF n, delete, Upto
    <3> QED BY <1>3, <1>5, <2>1
  <2> QED BY <1>8, <2>2 DEF EditInv
<1> QED BY <1>4, <1>9, ReviewInvEdit DEF SmartRule, ReviewInv, StoreInv

LEMMA InspectDeleteStep ==
  ASSUME ReviewInv, NEW g \in Groups, NEW files \in SUBSET Path, InspectDelete(g, files)
  PROVE  ReviewInv'
<1> DEFINE delete == [h \in Groups |-> files]
<1>1. /\ chosen' = chosen \cup UNION {delete[h] : h \in {g}}
      /\ sel' = ChoiceAfter({g}, delete) /\ marked' = MarkedAfter({g}, delete)
      /\ PushUndo(<<Edits>>)
  BY DEF InspectDelete, Choose
<1>2. chosen \subseteq chosen' /\ chosen' \subseteq Path /\ files \subseteq chosen'
  BY <1>1 DEF ReviewInv
<1>3. sel' \in [Groups -> Good(chosen')] /\ marked' \subseteq chosen'
  BY <1>1, <1>2, ChoiceGood
<1>4. <<Edits>> \in Seq(EditsOf(chosen')) /\ undoStack \in Seq(EditsOf(chosen'))
  <2>1. Edits \in EditsOf(chosen)
    BY DEF ReviewInv, EditInv, Edits, EditsOf
  <2>2. EditsOf(chosen) \subseteq EditsOf(chosen')
        /\ Seq(EditsOf(chosen)) \subseteq Seq(EditsOf(chosen'))
    BY <1>2, Grow
  <2> QED BY <2>1, <2>2 DEF ReviewInv, EditInv
<1>5. EditInv'
  BY <1>1, <1>3, <1>4, PushGood DEF EditInv
<1> QED BY <1>2, <1>3, <1>5, ReviewInvEdit DEF InspectDelete

LEMMA InspectKeepAllStep ==
  ASSUME ReviewInv, NEW g \in Groups, InspectKeepAll(g) PROVE ReviewInv'
<1>1. [kept |-> results[g], deleted |-> {}] \in Good(chosen)
  BY DEF ReviewInv, ListingInv, Good
<1>2. <<Edits>> \in Seq(EditsOf(chosen))
  BY DEF ReviewInv, EditInv, Edits, EditsOf
<1>3. undoStack' \in Seq(EditsOf(chosen)) /\ redoStack' \in Seq(EditsOf(chosen))
  BY <1>2, PushGood DEF InspectKeepAll, ReviewInv, EditInv
<1>4. EditInv'
  BY <1>1, <1>3 DEF InspectKeepAll, ReviewInv, EditInv
<1> QED BY <1>4, ReviewInvEdit DEF InspectKeepAll, ReviewInv, StoreInv

(* Undo and redo of edits: s is the stack that is popped, and t the other.  *)
LEMMA PopPush ==
  ASSUME ReviewInv, NEW s \in Seq(EditsOf(chosen)), NEW t \in Seq(EditsOf(chosen)), s # <<>>
  PROVE  /\ s[Len(s)] \in EditsOf(chosen)
         /\ SubSeq(s, 1, Len(s) - 1) \in Seq(EditsOf(chosen))
         /\ Append(t, Edits) \in Seq(EditsOf(chosen))
<1>1. Edits \in EditsOf(chosen)
  BY DEF ReviewInv, EditInv, Edits, EditsOf
<1>2. Len(s) \in Nat /\ Len(s) > 0
  OBVIOUS
<1>3. \A i \in 1..Len(s) : s[i] \in EditsOf(chosen)
  BY ElementOfSeq
<1> QED BY <1>1, <1>2, <1>3, SubSeqProperties, AppendProperties

LEMMA UndoRedoStep == ASSUME ReviewInv, EditUndo \/ EditRedo PROVE ReviewInv'
<1>1. CASE EditUndo
  <2>1. EditInv'
    BY <1>1, PopPush DEF EditUndo, ReviewInv, EditInv, EditsOf
  <2> QED BY <1>1, <2>1, ReviewInvEdit DEF EditUndo, ReviewInv, StoreInv
<1>2. CASE EditRedo
  <2>1. EditInv'
    BY <1>2, PopPush DEF EditRedo, ReviewInv, EditInv, EditsOf
  <2> QED BY <1>2, <2>1, ReviewInvEdit DEF EditRedo, ReviewInv, StoreInv
<1> QED BY <1>1, <1>2


(* A delete of files of the cart. *)
LEMMA UnchosenMove ==
  ASSUME ReviewInv, TrashTypeOK, NEW moved \in SUBSET (Cart \cap OnDisk),
         MoveToTrash(moved), batch < MaxBatch, chosen' = chosen
  PROVE  UnchosenStays'
<1>1. moved \in SUBSET OnDisk /\ moved \subseteq chosen
  BY CartChosen
<1>2. ASSUME NEW b \in Batches, NEW p \in Path, trash'[b][p] # 0 PROVE p \in chosen
  <2>1. CASE b = batch + 1
    BY <1>1, <1>2, <2>1, Moving
  <2>2. CASE b # batch + 1
    <3>1. p \in InTrash(b)
      BY <1>1, <1>2, <2>2, Moving DEF InTrash
    <3> QED BY <3>1 DEF ReviewInv, UnchosenStays
  <2> QED BY <2>1, <2>2
<1> QED BY <1>2 DEF UnchosenStays, InTrash

LEMMA UnchosenUndo ==
  ASSUME ReviewInv, TrashTypeOK, NEW back \in SUBSET Path, UndoLast(back), chosen' = chosen
  PROVE  UnchosenStays'
<1>1. CASE history = {}
  BY <1>1 DEF UndoLast, ReviewInv, UnchosenStays, InTrash
<1>2. CASE history # {}
  <2>1. PICK b \in Batches : Movable(back, InTrash(b)) /\ MoveBack(b, back)
    BY <1>2 DEF UndoLast
  <2>2. back \in SUBSET InTrash(b)
    BY <2>1 DEF Movable
  <2>3. ASSUME NEW c \in Batches PROVE InTrash(c)' \subseteq InTrash(c)
    BY <2>1, <2>2, MovingBack DEF InTrash
  <2> QED BY <2>3 DEF ReviewInv, UnchosenStays
<1> QED BY <1>1, <1>2

LEMMA ApplyStep ==
  ASSUME ReviewInv, TrashTypeOK, NEW moved \in SUBSET Path, Apply(moved)
  PROVE  ReviewInv'
<1>1. chosen' = chosen /\ DeleteFiles(Cart, moved) /\ Reconcile(Prune(results, moved))
  BY DEF Apply
<1>2. UnchosenStays'
  <2>1. CASE moved = {}
    BY <1>1, <2>1 DEF DeleteFiles, ReviewInv, UnchosenStays, InTrash
  <2>2. CASE moved # {}
    BY <1>1, <2>2, UnchosenMove DEF DeleteFiles, Movable
  <2> QED BY <2>1, <2>2
<1>3. ListingInv'
  BY <1>1 DEF Reconcile, Prune, ReviewInv, ListingInv
<1>4. EditInv' /\ selected' \subseteq chosen'
  <2>1. marked' \subseteq marked /\ selected' = marked'
    BY <1>1 DEF Reconcile
  <2>2. sel' \in [Groups -> Good(chosen)]
    <3> DEFINE gs == Prune(results, moved)
    <3>1. ASSUME NEW g \in Groups
          PROVE  [kept |-> sel[g].kept \cap Listed(gs),
                  deleted |-> sel[g].deleted \cap Listed(gs)] \in Good(chosen)
      <4>1. sel[g] \in Good(chosen)
        BY DEF ReviewInv, EditInv
      <4> HIDE DEF gs
      <4> QED BY <4>1 DEF Good
    <3>2. sel' = [g \in Groups |->
                    IF gs[g] = {} THEN NoChoice
                    ELSE [kept |-> sel[g].kept \cap Listed(gs),
                          deleted |-> sel[g].deleted \cap Listed(gs)]]
      BY <1>1 DEF Reconcile
    <3> HIDE DEF gs
    <3> QED BY <3>1, <3>2, NoChoiceGood
  <2>3. undoStack' = undoStack /\ redoStack' = redoStack
    BY DEF Apply
  <2> QED BY <1>1, <2>1, <2>2, <2>3 DEF ReviewInv, EditInv
<1>5. SnapInv'
  <2>1. (IF moved = {} THEN 0 ELSE batch + 1) \in Nat
    BY DEF TrashTypeOK
  <2>2. snap' = [none |-> FALSE, results |-> results, marked |-> marked, sel |-> sel,
                 batch |-> IF moved = {} THEN 0 ELSE batch + 1]
    BY DEF Apply
  <2> QED BY <1>1, <2>1, <2>2 DEF ReviewInv, ListingInv, EditInv, SnapInv, SnapsOf
<1>6. StoreInv'
  BY <1>1, <1>4 DEF Apply, ReviewInv, StoreInv
<1> QED BY <1>1, <1>2, <1>3, <1>4, <1>5, <1>6 DEF ReviewInv

LEMMA UndoApplyStep ==
  ASSUME ReviewInv, TrashTypeOK, NEW back \in SUBSET Path, UndoApply(back)
  PROVE  ReviewInv'
<1>1. chosen' = chosen /\ UndoLast(back) /\ selected' = marked' /\ snap' = None
      /\ undoStack' = undoStack /\ redoStack' = redoStack
  BY DEF UndoApply
<1>2. UnchosenStays'
  BY <1>1, UnchosenUndo
<1>3. results' \in Listings /\ marked' \subseteq chosen /\ sel' \in [Groups -> Good(chosen)]
  <2>1. CASE snap.none
    BY <2>1 DEF UndoApply, ReviewInv, ListingInv, EditInv
  <2>2. CASE ~snap.none
    <3>1. snap \in SnapsOf(chosen)
      BY <2>2 DEF ReviewInv, SnapInv, None
    <3> QED BY <2>2, <3>1 DEF UndoApply, SnapsOf
  <2> QED BY <2>1, <2>2
<1>4. EditInv' /\ ListingInv' /\ SnapInv'
  BY <1>1, <1>3 DEF ReviewInv, EditInv, ListingInv, SnapInv
<1>5. StoreInv'
  BY <1>1, <1>3 DEF UndoApply, ReviewInv, StoreInv
<1> QED BY <1>1, <1>2, <1>4, <1>5 DEF ReviewInv

LEMMA RestartStep ==
  ASSUME ReviewInv, UnchosenStays', Restarted PROVE ReviewInv'
<1>1. EditInv'
  BY NoChoiceGood, EmptySeq DEF Restarted, EditInv
<1>2. ListingInv' /\ SnapInv' /\ StoreInv' /\ chosen' \subseteq Path
  BY DEF Restarted, NoListing, ReviewInv, ListingInv, SnapInv, StoreInv
<1> QED BY <1>1, <1>2 DEF ReviewInv

LEMMA ListingStep ==
  ASSUME ReviewInv, NEW gs \in Listings, ScanCompleted(gs), backend' \in Listings, lastJson' \in Listings
  PROVE  ReviewInv'
<1>1. chosen' = chosen /\ trash' = trash /\ results' = gs /\ groups' = gs /\ selected' = {}
      /\ saved' = saved /\ snap' = snap /\ sel' = sel
      /\ undoStack' = undoStack /\ redoStack' = redoStack
  BY DEF ScanCompleted
<1>2. marked' \subseteq chosen
  BY ShownChosen DEF ScanCompleted, ReviewInv, EditInv
<1>3. EditInv' /\ ListingInv' /\ SnapInv'
  BY <1>1, <1>2 DEF ReviewInv, EditInv, ListingInv, SnapInv
<1>4. StoreInv'
  BY <1>1 DEF ReviewInv, StoreInv
<1>5. UnchosenStays'
  BY <1>1 DEF ReviewInv, UnchosenStays, InTrash
<1> QED BY <1>1, <1>3, <1>4, <1>5 DEF ReviewInv

LEMMA ReviewInvStep == ReviewInv /\ TrashTypeOK /\ [Next]_vars => ReviewInv'
<1> SUFFICES ASSUME ReviewInv, TrashTypeOK, [Next]_vars PROVE ReviewInv'
  OBVIOUS
<1>1. CASE UNCHANGED vars
  BY <1>1 DEF vars, reviewVars, ReviewInv, ListingInv, EditInv, SnapInv, StoreInv,
              UnchosenStays, InTrash
<1>2. CASE Mark
  <2>1. ASSUME NEW g \in Groups, NEW p \in Path, ToggleMark(g, p) PROVE ReviewInv'
    BY <2>1, ToggleMarkStep
  <2>2. ASSUME NEW order \in Orders, NEW keeper \in [Groups -> Path], SmartRule(order, keeper)
        PROVE  ReviewInv'
    BY <2>2, SmartRuleStep
  <2>3. ASSUME NEW g \in Groups, NEW delete \in SUBSET Path, InspectDelete(g, delete)
        PROVE  ReviewInv'
    BY <2>3, InspectDeleteStep
  <2>4. ASSUME NEW g \in Groups, InspectKeepAll(g) PROVE ReviewInv'
    BY <2>4, InspectKeepAllStep
  <2>5. CASE EditUndo \/ EditRedo
    BY <2>5, UndoRedoStep
  <2>6. CASE SaveSession
    <3>1. EditInv' /\ selected' \subseteq chosen'
      BY <2>6 DEF SaveSession, ReviewInv, EditInv, StoreInv
    <3>2. saved' \in [none : {FALSE}, marked : SUBSET chosen']
      BY <2>6 DEF SaveSession, ReviewInv, EditInv
    <3> QED BY <2>6, <3>1, <3>2, ReviewInvEdit DEF SaveSession, ReviewInv
  <2> QED BY <1>2, <2>1, <2>2, <2>3, <2>4, <2>5, <2>6 DEF Mark
<1>3. CASE NewListing
  <2>1. CASE OpenLast
    <3> DEFINE gs == IF backend = NoListing THEN lastJson ELSE backend
    <3>1. gs \in Listings /\ ScanCompleted(gs) /\ backend' = backend /\ lastJson' = lastJson
      BY <2>1 DEF OpenLast, ReviewInv, StoreInv
    <3> HIDE DEF gs
    <3> QED BY <3>1, ListingStep DEF ReviewInv, StoreInv
  <2>2. ASSUME NEW gs \in [Groups -> SUBSET Path], ScanEnds(gs) PROVE ReviewInv'
    BY <2>2, ListingStep DEF ScanEnds, ReviewInv, StoreInv
  <2> QED BY <1>3, <2>1, <2>2 DEF NewListing
<1>4. ASSUME NEW moved \in SUBSET Path, Apply(moved) PROVE ReviewInv'
  BY <1>4, ApplyStep
<1>5. ASSUME NEW moved \in SUBSET Path, DieInApply(moved) PROVE ReviewInv'
  <2>1. chosen' = chosen
    BY <1>5 DEF DieInApply, Restarted
  <2>2. UnchosenStays'
    BY <1>5, <2>1, UnchosenMove DEF DieInApply, DieDeleting
  <2> QED BY <1>5, <2>2, RestartStep DEF DieInApply
<1>6. ASSUME NEW back \in SUBSET Path, ToastUndo(back) \/ RestoreManaged(back) PROVE ReviewInv'
  BY <1>6, UndoApplyStep DEF ToastUndo, RestoreManaged
<1>7. CASE Quit
  <2>1. UnchosenStays'
    BY <1>7 DEF Quit, ForgetHistory, Restarted, ReviewInv, UnchosenStays, InTrash
  <2> QED BY <1>7, <2>1, RestartStep DEF Quit
<1>8. ASSUME NEW p \in Path, Put(p) PROVE ReviewInv'
  BY <1>8 DEF Put, PutFile, ReviewInv, ListingInv, EditInv, SnapInv, StoreInv,
              UnchosenStays, InTrash
<1>9. CASE OpenSheet
  <2>1. snap' = snap \/ snap' = None
    BY <1>9 DEF OpenSheet
  <2> QED
    BY <1>9, <2>1 DEF OpenSheet, ReviewInv, ListingInv, EditInv, SnapInv, StoreInv,
                      UnchosenStays, InTrash
<1>10. CASE MoveSheet \/ Leave
  BY <1>10 DEF MoveSheet, Leave, ReviewInv, ListingInv, EditInv, SnapInv, StoreInv,
               UnchosenStays, InTrash
<1>11. CASE Show
  <2>1. marked' \subseteq chosen /\ results' \in Listings
    BY <1>11, ShownChosen DEF Show, ReviewInv, ListingInv, StoreInv
  <2> QED
    BY <1>11, <2>1 DEF Show, ReviewInv, ListingInv, EditInv, SnapInv, StoreInv,
                       UnchosenStays, InTrash
<1> QED
  BY <1>1, <1>2, <1>3, <1>4, <1>5, <1>6, <1>7, <1>8, <1>9, <1>10, <1>11 DEF Next, Other

LEMMA ReviewKeepsInv == Spec => []ReviewInv
<1>1. Init => ReviewInv
  BY ReviewInvInit
<1>2. TrashInv => TrashTypeOK
  BY DEF TrashInv
<1>3. ReviewInv /\ TrashTypeOK /\ [Next]_vars => ReviewInv'
  BY ReviewInvStep
<1> QED BY <1>1, <1>2, <1>3, ReviewKeepsTrashInv, PTL DEF Spec

(* A file that the user never chose for deletion is never moved to the      *)
(* trash (host.py:203-209, state.py:147-161).                               *)
THEOREM UnchosenStaysHolds == Spec => []UnchosenStays
BY ReviewKeepsInv, PTL DEF ReviewInv

(* No choice, present or in a snapshot, keeps and deletes a file            *)
(* (host.py:636-650, 774-806).                                              *)
THEOREM ChoicesConsistentHolds == Spec => []ChoicesConsistent
<1>1. ReviewInv => ChoicesConsistent
  <2> SUFFICES ASSUME ReviewInv PROVE ChoicesConsistent
    OBVIOUS
  <2>1. Consistent(sel)
    BY DEF ReviewInv, EditInv, Good, Consistent
  <2>2. ASSUME NEW s \in Seq(EditsOf(chosen)), NEW i \in 1..Len(s) PROVE Consistent(s[i].sel)
    <3>1. s[i] \in EditsOf(chosen)
      BY ElementOfSeq
    <3> QED BY <3>1 DEF EditsOf, Good, Consistent
  <2>3. snap.none \/ Consistent(snap.sel)
    <3>1. CASE snap = None
      BY <3>1 DEF None
    <3>2. CASE snap \in SnapsOf(chosen)
      BY <3>2 DEF SnapsOf, Good, Consistent
    <3> QED BY <3>1, <3>2 DEF ReviewInv, SnapInv
  <2> QED BY <2>1, <2>2, <2>3 DEF ChoicesConsistent, ReviewInv, EditInv
<1> QED BY <1>1, ReviewKeepsInv, PTL

(* The review state that an Undo would bring back is that of the batch it   *)
(* would bring back (host.py:513-603).                                      *)
LEMMA SnapLast ==
  SnapOfLastBatch /\ TrashTypeOK /\ [Next]_vars => SnapOfLastBatch'
<1> SUFFICES ASSUME SnapOfLastBatch, TrashTypeOK, [Next]_vars
             PROVE  SnapOfLastBatch'
  OBVIOUS
<1>1. CASE snap' = snap /\ history' = history
  BY <1>1 DEF SnapOfLastBatch, IsLast
<1>2. CASE snap' = None
  BY <1>2 DEF SnapOfLastBatch, None
<1>3. ASSUME NEW moved \in SUBSET Path, Apply(moved) PROVE SnapOfLastBatch'
  <2>1. snap'.batch = IF moved = {} THEN 0 ELSE batch + 1
    BY <1>3 DEF Apply
  <2>2. CASE moved = {}
    BY <2>1, <2>2 DEF SnapOfLastBatch
  <2>3. CASE moved # {}
    <3> DEFINE H == history \cup {batch + 1}
    <3>1. batch \in Nat /\ history \subseteq 1..batch /\ history' = Capped(H)
      BY <1>3, <2>3 DEF Apply, DeleteFiles, TrashTypeOK
    <3>2. \A c \in H : c \in Int /\ c <= batch + 1
      BY <3>1
    <3>3. {c \in H : c > batch + 1} = {}
      <4>1. \A c \in H : ~(c > batch + 1)
        BY <3>1, <3>2
      <4> HIDE DEF H
      <4> QED BY <4>1
    <3>4. Cardinality({c \in H : c > batch + 1}) < MaxHistory
      BY <3>3, FS_EmptySet, TrashAssumption
    <3>5. batch + 1 \in history' /\ \A c \in history' : c <= batch + 1
      BY <3>1, <3>2, <3>4 DEF Capped
    <3> QED BY <2>1, <2>3, <3>5 DEF SnapOfLastBatch, IsLast
  <2> QED BY <2>2, <2>3
<1>4. CASE Mark
  BY <1>1, <1>4 DEF Mark, ToggleMark, SmartRule, InspectDelete, InspectKeepAll, EditUndo,
                    EditRedo, SaveSession
<1>5. CASE NewListing
  BY <1>1, <1>5 DEF NewListing, OpenLast, ScanEnds, ScanCompleted
<1>6. CASE OpenSheet \/ MoveSheet \/ Show \/ Leave
  BY <1>1, <1>2, <1>6 DEF OpenSheet, MoveSheet, Show, Leave
<1>7. CASE Quit \/ \E moved \in SUBSET Path : DieInApply(moved)
  BY <1>2, <1>7 DEF Quit, DieInApply, Restarted
<1>8. CASE \E back \in SUBSET Path : ToastUndo(back) \/ RestoreManaged(back)
  BY <1>2, <1>8 DEF ToastUndo, RestoreManaged, UndoApply
<1>9. CASE \E p \in Path : Put(p)
  BY <1>1, <1>9 DEF Put, PutFile
<1>10. CASE UNCHANGED vars
  BY <1>1, <1>10 DEF vars, reviewVars
<1> QED
  BY <1>3, <1>4, <1>5, <1>6, <1>7, <1>8, <1>9, <1>10 DEF Next, Other

(* An Undo never pairs the review state of one batch with the files of      *)
(* another (host.py:587-598).                                               *)
THEOREM SnapOfLastBatchHolds == Spec => []SnapOfLastBatch
<1>1. Init => SnapOfLastBatch
  BY DEF Init, ReviewInit, SnapOfLastBatch, None
<1>2. TrashInv => TrashTypeOK
  BY DEF TrashInv
<1>3. SnapOfLastBatch /\ TrashTypeOK /\ [Next]_vars => SnapOfLastBatch'
  BY SnapLast
<1> QED BY <1>1, <1>2, <1>3, ReviewKeepsTrashInv, PTL DEF Spec

-------------------------------------------------------------------------------
(* What an apply and its undo leave.  Every listing has groups of two files *)
(* and more; what the batch of the last apply took was in its cart.         *)
Whole(gs) == \A g \in Groups : gs[g] = {} \/ Cardinality(gs[g]) >= 2

WholeInv == /\ Whole(results) /\ Whole(groups) /\ Whole(backend) /\ Whole(lastJson)
            /\ snap.none \/ Whole(snap.results)

CartOf(s) == {p \in Listed(s.results) :
                p \in s.marked \/ \E g \in Groups : p \in s.results[g] /\ p \in s.sel[g].deleted}

SnapCart == snap.none \/ snap.batch = 0 \/ InTrash(snap.batch) \subseteq CartOf(snap)

ApplyInv == WholeInv /\ SnapCart

LEMMA WholePruned ==
  ASSUME NEW gs \in Listings, Whole(gs), NEW gone
  PROVE  /\ Whole(Prune(gs, gone))
         /\ \A g \in Groups :
              /\ Prune(gs, gone)[g] \subseteq gs[g] \ gone
              /\ Cardinality(Prune(gs, gone)[g]) # 1
              /\ gs[g] \cap gone = {} => Prune(gs, gone)[g] = gs[g]
<1> SUFFICES ASSUME NEW g \in Groups
             PROVE  /\ Prune(gs, gone)[g] = {} \/ Cardinality(Prune(gs, gone)[g]) >= 2
                    /\ Prune(gs, gone)[g] \subseteq gs[g] \ gone
                    /\ Cardinality(Prune(gs, gone)[g]) # 1
                    /\ gs[g] \cap gone = {} => Prune(gs, gone)[g] = gs[g]
  BY DEF Whole
<1>1. IsFiniteSet(gs[g] \ gone) /\ Cardinality(gs[g] \ gone) \in Nat
  <2>1. gs[g] \ gone \subseteq Path
    OBVIOUS
  <2> QED
    BY <2>1, TrashAssumption, FS_Subset, FS_CardinalityType
<1>2. Cardinality({}) = 0
  BY FS_EmptySet
<1>3. CASE gone # {} /\ Cardinality(gs[g] \ gone) < 2
  <2>1. Prune(gs, gone)[g] = {}
    BY <1>3 DEF Prune
  <2>2. gs[g] \cap gone = {} => gs[g] \ gone = gs[g]
    OBVIOUS
  <2>3. gs[g] \cap gone = {} => gs[g] = {}
    BY <1>1, <1>3, <2>2 DEF Whole
  <2> QED
    BY <1>2, <2>1, <2>3
<1>4. CASE ~(gone # {} /\ Cardinality(gs[g] \ gone) < 2)
  <2>1. Prune(gs, gone)[g] = gs[g] \ gone
    BY <1>4 DEF Prune
  <2>2. gs[g] \ gone = {} \/ Cardinality(gs[g] \ gone) >= 2
    <3>1. CASE gone = {}
      <4>1. gs[g] \ gone = gs[g]
        BY <3>1
      <4> QED
        BY <4>1 DEF Whole
    <3>2. CASE gone # {}
      BY <3>2, <1>1, <1>4
    <3> QED
      BY <3>1, <3>2
  <2>3. Cardinality(gs[g] \ gone) # 1
    BY <1>1, <1>2, <2>2
  <2>4. gs[g] \cap gone = {} => gs[g] \ gone = gs[g]
    OBVIOUS
  <2> QED
    BY <2>1, <2>2, <2>3, <2>4
<1> QED
  BY <1>3, <1>4

LEMMA WholeNone == Whole(NoListing)
BY DEF Whole, NoListing

LEMMA ApplyInvKept ==
  ASSUME ApplyInv, WholeInv', \/ snap' = snap /\ trash' = trash
                              \/ snap'.none
  PROVE  ApplyInv'
BY DEF ApplyInv, SnapCart, CartOf, InTrash, Listed

LEMMA AppliedCart ==
  ASSUME ApplyInv, ReviewInv, TrashTypeOK, NEW moved \in SUBSET Path, Apply(moved)
  PROVE  /\ ApplyInv' /\ ~snap'.none
         /\ results' = Prune(results, moved)
         /\ moved # {} => OnDisk \ OnDisk' = moved /\ batch' = batch + 1
         /\ moved = {} => batch' = batch /\ disk' = disk /\ history' = history
<1>1. /\ snap' = [none |-> FALSE, results |-> results, marked |-> marked, sel |-> sel,
                  batch |-> IF moved = {} THEN 0 ELSE batch + 1]
      /\ results' = Prune(results, moved)
      /\ UNCHANGED <<groups, backend, lastJson>>
      /\ moved \subseteq Cart \cap OnDisk
      /\ moved # {} => MoveToTrash(moved) /\ batch < MaxBatch
      /\ moved = {} => UNCHANGED trashVars
  BY DEF Apply, Reconcile, DeleteFiles, Movable
<1>2. WholeInv'
  <2>1. Whole(results') /\ Whole(snap'.results)
    BY <1>1, WholePruned DEF ApplyInv, WholeInv, ReviewInv, ListingInv
  <2> QED
    BY <1>1, <2>1 DEF ApplyInv, WholeInv
<1>3. CASE moved = {}
  <2>1. snap'.batch = 0 /\ UNCHANGED trashVars
    BY <1>1, <1>3
  <2> QED
    BY <1>1, <1>2, <1>3, <2>1 DEF ApplyInv, SnapCart
<1>4. CASE moved # {}
  <2>1. /\ batch + 1 \in Batches /\ batch' = batch + 1 /\ batch \in Nat
        /\ \A p \in Path : disk'[p] = IF p \in moved THEN 0 ELSE disk[p]
        /\ \A p \in Path : trash'[batch + 1][p] = IF p \in moved THEN disk[p] ELSE 0
    BY <1>1, <1>4, Moving DEF TrashTypeOK
  <2>2. OnDisk \ OnDisk' = moved
    BY <1>1, <2>1 DEF OnDisk
  <2>3. snap'.batch = batch + 1 /\ {p \in Path : trash'[snap'.batch][p] # 0} \subseteq moved
    BY <1>1, <1>4, <2>1
  <2>4. CartOf(snap') = Cart
    BY <1>1 DEF CartOf, Cart, Listed
  <2>5. SnapCart'
    <3>1. moved \subseteq CartOf(snap')
      BY <1>1, <2>4
    <3>2. CartOf(snap)' = CartOf(snap')
      BY DEF CartOf, Listed
    <3>3. InTrash(snap.batch)' = {p \in Path : trash'[snap'.batch][p] # 0}
      BY DEF InTrash
    <3> QED
      BY <2>3, <3>1, <3>2, <3>3 DEF SnapCart
  <2> QED
    BY <1>1, <1>2, <1>4, <2>1, <2>2, <2>5 DEF ApplyInv
<1> QED
  BY <1>3, <1>4

LEMMA ApplyInvStep ==
  ApplyInv /\ ReviewInv /\ TrashTypeOK /\ [Next]_vars => ApplyInv'
<1> SUFFICES ASSUME ApplyInv, ReviewInv, TrashTypeOK, [Next]_vars PROVE ApplyInv'
  OBVIOUS
<1>1. CASE UNCHANGED vars \/ Mark
  BY <1>1, ApplyInvKept DEF vars, reviewVars, Mark, ToggleMark, SmartRule, InspectDelete, InspectKeepAll,
                            EditUndo, EditRedo, SaveSession, ApplyInv, WholeInv
<1>2. CASE OpenSheet \/ MoveSheet \/ Leave \/ (\E p \in Path : Put(p))
  <2>1. /\ UNCHANGED <<results, groups, backend, lastJson, trash>>
        /\ snap' = snap \/ snap' = None
    BY <1>2 DEF OpenSheet, MoveSheet, Leave, Put, PutFile
  <2>2. snap' = snap \/ snap'.none
    BY <2>1 DEF None
  <2>3. WholeInv'
    BY <2>1, <2>2 DEF ApplyInv, WholeInv
  <2> QED
    BY <2>1, <2>2, <2>3, ApplyInvKept
<1>3. CASE Show
  BY <1>3, ApplyInvKept DEF Show, ApplyInv, WholeInv
<1>4. CASE OpenLast
  <2> DEFINE gs == IF backend = NoListing THEN lastJson ELSE backend
  <2>1. Whole(gs)
    BY DEF ApplyInv, WholeInv
  <2>2. results' = gs /\ groups' = gs /\ UNCHANGED <<backend, lastJson, snap, trash>>
    BY <1>4 DEF OpenLast, ScanCompleted
  <2> HIDE DEF gs
  <2> QED
    BY <2>1, <2>2, ApplyInvKept DEF ApplyInv, WholeInv
<1>5. ASSUME NEW gs \in [Groups -> SUBSET Path], ScanEnds(gs) PROVE ApplyInv'
  <2>1. Whole(gs)
    BY <1>5 DEF ScanEnds, IsListing, Whole
  <2>2. /\ results' = gs /\ groups' = gs /\ backend' = gs /\ lastJson' \in {gs, lastJson}
        /\ UNCHANGED <<snap, trash>>
    BY <1>5 DEF ScanEnds, ScanCompleted
  <2> QED
    BY <2>1, <2>2, ApplyInvKept DEF ApplyInv, WholeInv
<1>6. ASSUME NEW moved \in SUBSET Path, Apply(moved) PROVE ApplyInv'
  BY <1>6, AppliedCart
<1>7. CASE Quit \/ \E moved \in SUBSET Path : DieInApply(moved)
  <2>1. Restarted
    BY <1>7 DEF Quit, DieInApply
  <2> QED
    BY <2>1, WholeNone, ApplyInvKept DEF Restarted, None, ApplyInv, WholeInv
<1>8. ASSUME NEW back \in SUBSET Path, ToastUndo(back) \/ RestoreManaged(back) PROVE ApplyInv'
  <2>1. UndoApply(back)
    BY <1>8 DEF ToastUndo, RestoreManaged
  <2>2. results' = results \/ (~snap.none /\ results' = snap.results)
    BY <2>1 DEF UndoApply
  <2> QED
    BY <2>1, <2>2, ApplyInvKept DEF UndoApply, None, ApplyInv, WholeInv
<1> QED
  BY <1>1, <1>2, <1>3, <1>4, <1>5, <1>6, <1>7, <1>8 DEF Next, Other, NewListing

LEMMA ReviewKeepsApplyInv == Spec => []ApplyInv
<1>1. Init => ApplyInv
  BY WholeNone DEF Init, ReviewInit, ApplyInv, WholeInv, SnapCart, None
<1>2. TrashInv => TrashTypeOK
  BY DEF TrashInv
<1>3. ApplyInv /\ ReviewInv /\ TrashTypeOK /\ [Next]_vars => ApplyInv'
  BY ApplyInvStep
<1> QED BY <1>1, <1>2, <1>3, ReviewKeepsTrashInv, ReviewKeepsInv, PTL DEF Spec

(* Which step takes a batch, and which brings one back.                     *)
LEMMA StepsOfBatches ==
  ASSUME ApplyInv, ReviewInv, TrashTypeOK, [Next]_vars
  PROVE  \/ \E moved \in SUBSET Path : Apply(moved)
         \/ \E back \in SUBSET Path : UndoApply(back)
         \/ snap'.none /\ (disk' = disk \/ batch' # batch)
         \/ UNCHANGED <<batch, snap>>
<1>1. CASE UNCHANGED vars \/ Mark \/ NewListing
  BY <1>1 DEF vars, reviewVars, Mark, ToggleMark, SmartRule, InspectDelete, InspectKeepAll,
              EditUndo, EditRedo, SaveSession, NewListing, OpenLast, ScanEnds, ScanCompleted
<1>2. CASE OpenSheet \/ MoveSheet \/ Leave \/ Show \/ (\E p \in Path : Put(p))
  <2>1. batch' = batch /\ (snap' = snap \/ (snap' = None /\ disk' = disk))
    BY <1>2 DEF OpenSheet, MoveSheet, Leave, Show, Put, PutFile
  <2> QED
    BY <2>1 DEF None
<1>3. CASE Quit
  BY <1>3 DEF Quit, ForgetHistory, Restarted, None
<1>4. ASSUME NEW moved \in SUBSET Path, DieInApply(moved)
      PROVE  snap'.none /\ batch' # batch
  <2>1. batch' = batch + 1 /\ snap' = None
    BY <1>4 DEF DieInApply, DieDeleting, MoveToTrash, Restarted
  <2> QED
    BY <2>1 DEF None, TrashTypeOK
<1>5. CASE \E back \in SUBSET Path : ToastUndo(back) \/ RestoreManaged(back)
  BY <1>5 DEF ToastUndo, RestoreManaged
<1> QED
  BY <1>1, <1>2, <1>3, <1>4, <1>5 DEF Next, Other

(* An undo that takes its whole batch back puts every file where it was,    *)
(* listed again, and in the cart (host.py:587-598).                         *)
THEOREM UndoBringsBackHolds == Spec => UndoBringsBack
<1>1. ASSUME ApplyInv, ReviewInv, TrashTypeOK, SnapOfLastBatch, [Next]_vars,
             ~snap.none, snap' # snap, disk' # disk, batch' = batch, history' # history
      PROVE  /\ results' = snap.results
             /\ snap.batch # 0 =>
                  \A p \in InTrash(snap.batch) : disk'[p] = trash[snap.batch][p] /\ p \in Cart'
  <2>1. ~\E moved \in SUBSET Path : Apply(moved)
    <3> SUFFICES ASSUME NEW moved \in SUBSET Path, Apply(moved) PROVE FALSE
      OBVIOUS
    <3>0. Apply(moved)
      OBVIOUS
    <3>1. batch' = batch + 1 \/ disk' = disk
      BY <1>1, <3>0, AppliedCart
    <3> QED
      BY <1>1, <3>1 DEF TrashTypeOK
  <2>2. PICK back \in SUBSET Path : UndoApply(back)
    BY <1>1, <2>1, StepsOfBatches
  <2>3. PICK b \in Batches : /\ IsLast(b) /\ MoveBack(b, back) /\ Movable(back, InTrash(b))
                             /\ back = InTrash(b)
    BY <1>1, <2>2 DEF UndoApply, UndoLast, trashVars
  <2>4. results' = snap.results /\ marked' = snap.marked /\ sel' = snap.sel
    BY <1>1, <2>2 DEF UndoApply
  <2>5. ASSUME snap.batch # 0
        PROVE  snap.batch = b
    <3>1. IsLast(snap.batch)
      BY <1>1, <2>5 DEF SnapOfLastBatch
    <3>2. b \in history /\ snap.batch \in history /\ b <= snap.batch /\ snap.batch <= b
      BY <3>1, <2>3 DEF IsLast
    <3>3. \A c \in history : c \in Nat
      <4>1. history \subseteq 1..batch
        BY <1>1 DEF TrashTypeOK
      <4> QED
        BY <4>1
    <3>4. b \in Nat /\ snap.batch \in Nat
      BY <3>2, <3>3
    <3> QED
      BY <3>2, <3>4
  <2>6. ASSUME snap.batch # 0, NEW p \in InTrash(snap.batch)
        PROVE  disk'[p] = trash[snap.batch][p] /\ p \in Cart'
    <3>1. p \in back /\ p \in Path
      BY <2>3, <2>5, <2>6 DEF InTrash
    <3>2. disk'[p] = trash[b][p]
      BY <2>3, <3>1 DEF MoveBack
    <3>3. p \in CartOf(snap)
      BY <1>1, <2>6 DEF ApplyInv, SnapCart
    <3>4. p \in Cart'
      BY <2>4, <3>3 DEF CartOf, Cart, Listed
    <3> QED
      BY <2>5, <2>6, <3>2, <3>4
  <2> QED
    BY <2>4, <2>6
<1>2. TrashInv => TrashTypeOK
  BY DEF TrashInv
<1>3. ApplyInv /\ ReviewInv /\ TrashTypeOK /\ SnapOfLastBatch /\ [Next]_vars =>
        [(~snap.none /\ snap' # snap /\ disk' # disk /\ batch' = batch /\ history' # history)
           => /\ results' = snap.results
              /\ snap.batch # 0 =>
                   \A p \in InTrash(snap.batch) :
                     disk'[p] = trash[snap.batch][p] /\ p \in Cart']_vars
  BY <1>1
<1> QED
  BY <1>2, <1>3, ReviewKeepsApplyInv, ReviewKeepsInv, ReviewKeepsTrashInv, SnapOfLastBatchHolds, PTL
  DEF Spec, UndoBringsBack

(* After an apply nothing that was moved is listed, marked or chosen, a     *)
(* group that lost nothing is as it was, and no group has a single file     *)
(* (groups_prune.py:15-39, host.py:425-437).                                *)
THEOREM ReviewAfterApplyHolds == Spec => ReviewAfterApply
<1>1. ASSUME ApplyInv, ReviewInv, TrashTypeOK, [Next]_vars, batch' # batch, ~snap'.none,
             NEW moved, moved = OnDisk \ OnDisk'
      PROVE  /\ moved \cap (Listed(results') \cup marked'
                             \cup UNION {sel'[g].deleted \cup sel'[g].kept : g \in Groups}) = {}
             /\ \A g \in Groups :
                  /\ results[g] \cap moved = {} => results'[g] = results[g]
                  /\ Cardinality(results'[g]) # 1
  <2>1. ~\E back \in SUBSET Path : UndoApply(back)
    BY <1>1 DEF UndoApply, None
  <2>2. PICK gone \in SUBSET Path : Apply(gone)
    BY <1>1, <2>1, StepsOfBatches
  <2>3. gone = moved /\ results' = Prune(results, moved)
    BY <1>1, <2>2, AppliedCart
  <2>4. /\ marked' \subseteq Listed(results')
        /\ \A g \in Groups : sel'[g].deleted \cup sel'[g].kept \subseteq Listed(results')
    BY <2>2, <2>3 DEF Apply, Reconcile, NoChoice
  <2>5. results \in Listings /\ Whole(results)
    BY <1>1 DEF ApplyInv, WholeInv, ReviewInv, ListingInv
  <2>6. \A g \in Groups :
          /\ results'[g] \subseteq results[g] \ moved
          /\ Cardinality(results'[g]) # 1
          /\ results[g] \cap moved = {} => results'[g] = results[g]
    BY <2>3, <2>5, WholePruned
  <2>7. Listed(results') \cap moved = {}
    BY <2>6 DEF Listed
  <2> QED
    BY <2>4, <2>6, <2>7
<1>2. TrashInv => TrashTypeOK
  BY DEF TrashInv
<1>3. ApplyInv /\ ReviewInv /\ TrashTypeOK /\ [Next]_vars =>
        [batch' # batch /\ ~snap'.none =>
           LET moved == OnDisk \ OnDisk' IN
           /\ moved \cap (Listed(results') \cup marked'
                          \cup UNION {sel'[g].deleted \cup sel'[g].kept : g \in Groups}) = {}
           /\ \A g \in Groups :
                /\ results[g] \cap moved = {} => results'[g] = results[g]
                /\ Cardinality(results'[g]) # 1]_vars
  BY <1>1
<1> QED
  BY <1>2, <1>3, ReviewKeepsApplyInv, ReviewKeepsInv, ReviewKeepsTrashInv, PTL
  DEF Spec, ReviewAfterApply
===============================================================================
