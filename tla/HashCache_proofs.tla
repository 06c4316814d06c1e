-------------------------- MODULE HashCache_proofs --------------------------
(***************************************************************************)
(* Proofs about HashCache, for every set of algorithms and any number of   *)
(* scans and of versions of the file.                                      *)
(***************************************************************************)
EXTENDS HashCache, TLAPS

USE AlgosAssumption, ModesAssumption, LimitsAssumption
    DEF AlgosAssumption, ModesAssumption, LimitsAssumption, scanVars

------------------------------------------------------------------------------
(* TypeOK is inductive by itself. *)

LEMMA HashTypes ==
  ASSUME TypeOK, NEW s \in Scans
  PROVE  /\ NoHash \in Hashes /\ NoRow \in [sig : Nat, quick : Hashes, full : Hashes]
         /\ Lookup(s) \in Hashes /\ OtherColumn(s) \in Hashes
         /\ Upsert(s) \in [sig : Nat, quick : Hashes, full : Hashes]
  BY DEF TypeOK, Lookup, Column, OtherColumn, Upsert, NoHash, NoRow, Hashes

LEMMA TypeInit == Init => TypeOK
<1> SUFFICES ASSUME Init PROVE TypeOK
  OBVIOUS
<1>1. NoHash \in Hashes /\ NoRow \in [sig : Nat, quick : Hashes, full : Hashes]
  BY DEF NoHash, NoRow, Hashes
<1> QED
  BY <1>1 DEF Init, TypeOK, Points

LEMMA TypeStep == TypeOK /\ [Next]_vars => TypeOK'
<1> SUFFICES ASSUME TypeOK, [Next]_vars PROVE TypeOK'
  OBVIOUS
<1>1. CASE Touch \/ ScanEnds \/ UNCHANGED vars
  BY <1>1 DEF TypeOK, Touch, ScanEnds, vars
<1>2. ASSUME NEW s \in Scans, ScanStep(s) PROVE TypeOK'
  <2>1. ASSUME NEW m \in Modes, Start(s, m) PROVE TypeOK'
    BY <2>1, HashTypes DEF TypeOK, Start, Goto, Points, NoRow, NoHash, Hashes
  <2>2. CASE PrefetchSig(s)
    BY <2>2, HashTypes DEF TypeOK, PrefetchSig, Goto, Points, NoHash, Hashes
  <2>3. CASE PrefetchPage(s)
    BY <2>3, HashTypes DEF TypeOK, PrefetchPage, Goto, Points
  <2>4. CASE Task(s)
    BY <2>4 DEF TypeOK, Task, Goto, Points
  <2>5. CASE Stat(s)
    BY <2>5 DEF TypeOK, Stat, Goto, Points
  <2>6. CASE GetQuick(s)
    BY <2>6, HashTypes DEF TypeOK, GetQuick, Goto, Points
  <2>7. CASE OpenFile(s)
    BY <2>7 DEF TypeOK, OpenFile, Goto, Points
  <2>8. CASE ReadFile(s)
    BY <2>8 DEF TypeOK, ReadFile, Goto, Points, Hashes, Torn
  <2>9. CASE SetQuick(s)
    BY <2>9, HashTypes DEF TypeOK, SetQuick, Goto, Points
  <2>10. CASE SetManyFull(s)
    BY <2>10, HashTypes DEF TypeOK, SetManyFull, Goto, Points
  <2>13. CASE Select(s)
    BY <2>13, HashTypes DEF TypeOK, Select, Goto, Points
  <2>14. CASE NotStored(s)
    BY <2>14 DEF TypeOK, NotStored, Goto, Points
  <2>11. CASE NoAnswer(s)
    BY <2>11, HashTypes DEF TypeOK, NoAnswer, Goto, Points, NoHash, Hashes
  <2>12. CASE FullPhase(s)
    BY <2>12 DEF TypeOK, FullPhase, Goto, Points
  <2> QED
    BY <1>2, <2>1, <2>2, <2>3, <2>4, <2>5, <2>6, <2>7, <2>8, <2>9, <2>10, <2>11,
       <2>12, <2>13, <2>14 DEF ScanStep
<1> QED
  BY <1>1, <1>2 DEF Next

(* Type correctness of HashCache. *)
THEOREM TypeCorrect == Spec => []TypeOK
  BY TypeInit, TypeStep, PTL DEF Spec

------------------------------------------------------------------------------
(* IInv is inductive. *)

LEMMA InvInit == Init => IInv
  BY DEF Init, IInv, WorkerSound, RowSound, AnswerOfThisScan, AnswerSound, NoRow, NoHash,
         Scans

(* Time only makes a hash older: what was sound stays sound. *)
LEMMA TouchKeeps == TypeOK /\ IInv /\ Touch => IInv'
<1> SUFFICES ASSUME TypeOK, IInv, Touch PROVE IInv'
  OBVIOUS
<1>1. version' = version + 1
  BY DEF Touch
<1>2. ASSUME NEW h, NEW v \in Nat, Sound(h, v)
      PROVE  h.of \in v..version' \/ (h.of = Torn /\ v < version')
  BY <1>1, <1>2 DEF Sound, TypeOK
<1>0. Verified' = Verified
  BY DEF Touch, scanVars, Verified
<1>3. ASSUME NEW s \in Scans PROVE WorkerSound(s)'
  BY <1>0, <1>1, <1>2 DEF IInv, WorkerSound, TypeOK, Touch, Sound
<1>4. RowSound'
  BY <1>0, <1>1, <1>2 DEF IInv, RowSound, TypeOK, Touch, Sound
<1>5. ASSUME NEW s \in Scans PROVE AnswerSound(s)'
  BY <1>0, <1>1, <1>2 DEF IInv, AnswerOfThisScan, AnswerSound, TypeOK, Touch, Sound
<1> QED
  BY <1>3, <1>4, <1>5 DEF IInv, AnswerOfThisScan

(* A hit answers with a hash of content from this scan. *)
LEMMA LookupSound ==
  ASSUME TypeOK, IInv, NEW s \in Scans, Lookup(s) # NoHash
  PROVE  /\ Lookup(s).algo = algo[s]
         /\ ~Verified => Sound(Lookup(s), start[s])
<1>1. sig[s] # 0 /\ row.sig = sig[s] /\ Lookup(s) = Column(s) /\ Column(s).algo = algo[s]
  BY DEF Lookup
<1>2. ~Verified => Column(s) = row.quick
  BY DEF IInv, WorkerSound, Column, TypeOK, Verified
<1>3. ASSUME ~Verified PROVE Sound(row.quick, sig[s])
  BY <1>1, <1>2, <1>3 DEF IInv, RowSound
<1>4. ASSUME ~Verified PROVE Sound(row.quick, start[s])
  BY <1>1, <1>3, <1>4 DEF Sound, IInv, WorkerSound, TypeOK
<1> QED
  BY <1>1, <1>2, <1>4

(* A step of one scan leaves the others' state alone. *)
LEMMA StepKeeps ==
  ASSUME TypeOK, TypeOK', IInv, NEW s \in Scans, ScanStep(s)
  PROVE  IInv'
<1>1. version' = version
  BY DEF ScanStep, Start, PrefetchSig, PrefetchPage, Task, Stat, GetQuick, OpenFile,
         ReadFile, Select, SetQuick, SetManyFull, NotStored, NoAnswer, FullPhase
<1>0. Verified => Verified'
  <2>1. CASE \E m \in Modes : Start(s, m)
    BY <2>1 DEF Start, Verified, IInv, WorkerSound, TypeOK
  <2>2. CASE ~\E m \in Modes : Start(s, m)
    BY <2>2 DEF ScanStep, PrefetchSig, PrefetchPage, Task, Stat, GetQuick, OpenFile,
       ReadFile, Select, SetQuick, SetManyFull, NotStored, NoAnswer, FullPhase, Verified
  <2> QED
    BY <2>1, <2>2
<1>2. ASSUME NEW r \in Scans, r # s PROVE WorkerSound(r)' /\ AnswerSound(r)'
  <2>1. /\ start'[r] = start[r] /\ phase'[r] = phase[r] /\ pc'[r] = pc[r]
        /\ mode'[r] = mode[r]
        /\ algo'[r] = algo[r] /\ sig'[r] = sig[r] /\ began'[r] = began[r]
        /\ hash'[r] = hash[r] /\ answer'[r] = answer[r]
    BY <1>2 DEF TypeOK, ScanStep, Start, PrefetchSig, PrefetchPage, Task, Stat, GetQuick,
       OpenFile, ReadFile, Select, SetQuick, SetManyFull, NotStored, NoAnswer, FullPhase, Goto
  <2> QED
    BY <1>0, <1>1, <2>1 DEF IInv, WorkerSound, AnswerOfThisScan, AnswerSound, Sound
<1> DEFINE Kept == WorkerSound(s)' /\ AnswerSound(s)' /\ RowSound'
<1>3. Kept
  <2>0. WorkerSound(s) /\ AnswerSound(s) /\ RowSound /\ (Verified => Verified')
    BY <1>0 DEF IInv, AnswerOfThisScan
  <2>1. ASSUME NEW m \in Modes, Start(s, m) PROVE Kept
    BY <2>0, <2>1 DEF TypeOK, Start, Goto, WorkerSound, AnswerSound, RowSound, NoRow, Sound
  <2>2. CASE PrefetchSig(s)
    BY <2>0, <2>2 DEF TypeOK, PrefetchSig, Goto, WorkerSound, AnswerSound, RowSound, Sound
  <2>3. CASE PrefetchPage(s)
    BY <2>0, <2>3, LookupSound DEF TypeOK, PrefetchPage, Goto, WorkerSound, AnswerSound,
       RowSound, Sound
  <2>4. CASE Task(s)
    BY <2>0, <2>4 DEF TypeOK, Task, Goto, WorkerSound, AnswerSound, RowSound, Sound
  <2>5. CASE Stat(s)
    BY <2>0, <2>5 DEF TypeOK, Stat, Goto, WorkerSound, AnswerSound, RowSound, Sound
  <2>6. CASE GetQuick(s)
    BY <2>0, <2>6, LookupSound DEF TypeOK, GetQuick, Goto, WorkerSound, AnswerSound,
       RowSound, Sound
  <2>7. CASE OpenFile(s)
    BY <2>0, <2>7 DEF TypeOK, OpenFile, Goto, WorkerSound, AnswerSound, RowSound, Sound
  <2>8. CASE ReadFile(s)
    BY <2>0, <2>8 DEF TypeOK, ReadFile, Goto, WorkerSound, AnswerSound, RowSound, Sound, Torn
  <2>9. CASE SetQuick(s)
    BY <2>0, <2>9 DEF TypeOK, SetQuick, Goto, WorkerSound, AnswerSound, RowSound, Sound,
       Upsert, NoHash
  <2>10. CASE SetManyFull(s)
    BY <2>0, <2>10 DEF Verified, TypeOK, SetManyFull, Goto, WorkerSound, AnswerSound, RowSound,
       Sound, Upsert, NoHash
  <2>13. CASE Select(s)
    BY <2>0, <2>13 DEF TypeOK, Select, Goto, WorkerSound, AnswerSound, RowSound, Sound
  <2>14. CASE NotStored(s)
    BY <2>0, <2>14 DEF Verified, TypeOK, NotStored, Goto, WorkerSound, AnswerSound, RowSound,
       Sound
  <2>11. CASE NoAnswer(s)
    BY <2>0, <2>11 DEF TypeOK, NoAnswer, Goto, WorkerSound, AnswerSound, RowSound, Sound
  <2>12. CASE FullPhase(s)
    BY <2>0, <2>12 DEF TypeOK, FullPhase, Goto, WorkerSound, AnswerSound, RowSound, Sound
  <2> QED
    BY <2>1, <2>2, <2>3, <2>4, <2>5, <2>6, <2>7, <2>8, <2>9, <2>10, <2>11, <2>12,
       <2>13, <2>14 DEF ScanStep
<1> QED
  BY <1>2, <1>3 DEF IInv, AnswerOfThisScan

LEMMA InvStep == TypeOK /\ TypeOK' /\ IInv /\ [Next]_vars => IInv'
<1> SUFFICES ASSUME TypeOK, TypeOK', IInv, [Next]_vars PROVE IInv'
  OBVIOUS
<1>1. CASE ScanEnds \/ UNCHANGED vars
  BY <1>1 DEF ScanEnds, vars, IInv, WorkerSound, RowSound, AnswerOfThisScan, AnswerSound,
     Sound, Verified
<1> QED
  BY <1>1, TouchKeeps, StepKeeps DEF Next

THEOREM Invariant == Spec => [](TypeOK /\ IInv)
<1>1. Init => TypeOK /\ IInv
  BY TypeInit, InvInit
<1>2. TypeOK /\ IInv /\ [Next]_vars => (TypeOK /\ IInv)'
  BY TypeStep, InvStep
<1> QED
  BY <1>1, <1>2, PTL DEF Spec

------------------------------------------------------------------------------
(* As long as no scan computes full hashes, a row that answers for the     *)
(* file as it is holds the hash of what is in it (set_quick, get_quick).   *)
THEOREM QuickRightHolds == Spec => []QuickRight
<1>1. TypeOK /\ IInv => QuickRight
  BY DEF TypeOK, IInv, RowSound, QuickRight, Sound
<1> QED
  BY <1>1, Invariant, PTL

(* What a scan groups a file by was read from it during the scan, or       *)
(* stored under the signature it had then (_compute_hashes_parallel).      *)
THEOREM AnswerOfThisScanHolds == Spec => []AnswerOfThisScan
  BY Invariant, PTL DEF IInv

(* A write stores no wrong hash under the file's current signature but one *)
(* it carries over, with full hashes or without (_upsert, set_many_full).  *)
THEOREM FreshWritesRightHolds == Spec => FreshWritesRight
<1> DEFINE Fresh ==
      row'.sig = version' =>
        /\ row'.quick \in {row.quick, NoHash} \cup Carried("full") \/ row'.quick.of = version'
        /\ row'.full \in {row.full, NoHash} \cup Carried("quick") \/ row'.full.of = version'
<1>1. ASSUME TypeOK, IInv, [Next]_vars PROVE [Fresh]_vars
  <2>1. CASE Touch \/ ScanEnds \/ UNCHANGED vars
    BY <2>1 DEF Touch, ScanEnds, vars
  <2>2. ASSUME NEW s \in Scans, SetQuick(s) \/ SetManyFull(s) PROVE Fresh
    <3>1. WorkerSound(s)
      BY <1>1 DEF IInv
    <3>2. pc[s] = "store" /\ pc'[s] = "hashed" /\ version' = version /\ row' = Upsert(s)
      BY <1>1, <2>2 DEF SetQuick, SetManyFull, Goto, TypeOK
    <3>3. sig[s] = version => hash[s].of = version
      BY <1>1, <3>1, <3>2 DEF WorkerSound, Sound, TypeOK
    <3>4. kept[s] \in Carried(phase[s]) /\ phase[s] \in {"quick", "full"}
      BY <1>1, <3>2 DEF Carried, TypeOK
    <3>5. CASE phase[s] = "quick"
      BY <3>2, <3>3, <3>4, <3>5 DEF Upsert
    <3>6. CASE phase[s] = "full"
      BY <3>2, <3>3, <3>4, <3>6 DEF Upsert
    <3> QED
      BY <3>4, <3>5, <3>6
  <2>3. ASSUME NEW s \in Scans, ScanStep(s), ~SetQuick(s), ~SetManyFull(s) PROVE Fresh
    <3>1. row' = row \/ row' = NoRow
      BY <2>3 DEF ScanStep, Start, PrefetchSig, PrefetchPage, Task, Stat, GetQuick,
         OpenFile, ReadFile, Select, NotStored, NoAnswer, FullPhase
    <3> QED
      BY <3>1 DEF NoRow
  <2> QED
    BY <1>1, <2>1, <2>2, <2>3 DEF Next
<1>2. TypeOK /\ IInv /\ [Next]_vars => [Fresh]_vars
  BY <1>1
<1> QED
  BY <1>2, Invariant, PTL DEF Spec, FreshWritesRight
==============================================================================
