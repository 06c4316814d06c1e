-------------------------- MODULE Application_proofs --------------------------
(* Proofs about the parts of the application around the scan, for every
   choice of the constants: the session manager, the settings file, the
   deletion pipeline with its gate, the audit trail, the funnel of the
   exact duplicates, the shell, the thumbnails, the store and its pages,
   the screens of the review, and the engines that group alike files.
   Each part has an inductive invariant of its own and a theorem about its
   own specification; the last section carries them to the specification
   that the run checks, of which each part is a projection. *)
EXTENDS MCApplication, FiniteSetTheorems, SequenceTheorems, WellFoundedInduction, TLAPS

------------------------------------------------------------------------------
(* The session manager. *)

ScanRecords ==
  [state : {"running", "scanned", "decided", "deleted", "deleting", "cancelled", "failed"},
   groups : BOOLEAN, plan : BOOLEAN, old : BOOLEAN,
   locks : SUBSET SessionFile, intents : SUBSET SessionFile]

(* A file is never both locked and to be deleted. *)
Decided(rec) == rec.locks \cap rec.intents = {}

SessionTypes ==
  /\ memory \in [ScanId -> ScanRecords \cup {NoRecord}]
  /\ saved \in [ScanId -> ScanRecords \cup {NoRecord, Unreadable}]
  /\ locked \in [ScanId -> SUBSET SessionFile]

MemoryHolds ==
  \A s \in ScanId : Known(s) => Decided(memory[s]) /\ locked[s] \subseteq memory[s].locks

(* What a restart would read holds the locks, unless its write was refused. *)
DiskHolds ==
  \A s \in ScanId : saved[s] \in ScanRecords =>
    /\ Decided(saved[s])
    /\ s \notin unsaved => locked[s] \subseteq saved[s].locks

SessionInv == SessionTypes /\ MemoryHolds /\ DiskHolds

(* A record is told from the two marks by its state. *)
LEMMA RecordsDiffer == NoRecord \notin ScanRecords /\ Unreadable \notin ScanRecords /\ NoRecord # Unreadable
  BY DEF ScanRecords, NoRecord, Unreadable

LEMMA TouchedRecord ==
  ASSUME SessionInv, NEW s \in ScanId, Known(s)
  PROVE  /\ memory[s] \in ScanRecords /\ Touched(s) \in ScanRecords
         /\ Touched(s).locks = memory[s].locks /\ Touched(s).intents = memory[s].intents
         /\ Decided(memory[s]) /\ locked[s] \subseteq memory[s].locks
  BY DEF SessionInv, SessionTypes, MemoryHolds, Known, Touched, ScanRecords

(* What a change that is written must keep: the new record holds the locks. *)
LEMMA WrittenKeeps ==
  ASSUME SessionInv, NEW s \in ScanId, NEW rec \in ScanRecords, NEW L \in SUBSET SessionFile,
         Written(s, rec), locked' = [locked EXCEPT ![s] = L],
         Decided(rec), L \subseteq rec.locks
  PROVE  SessionInv'
<1> USE RecordsDiffer DEF SessionInv, SessionTypes, MemoryHolds, DiskHolds, Known, Decided
<1>1. memory' = [memory EXCEPT ![s] = rec] /\ PersistRecord(s, rec) BY DEF Written
<1>2. /\ saved' \in {saved, [saved EXCEPT ![s] = rec], [saved EXCEPT ![s] = Unreadable]}
      /\ saved' = [saved EXCEPT ![s] = rec] \/ saved'[s] = Unreadable \/ unsaved' = unsaved \cup {s}
      /\ unsaved \ {s} \subseteq unsaved'
  BY <1>1 DEF PersistRecord
<1>3. SessionTypes' BY <1>1, <1>2
<1>4. MemoryHolds' BY <1>1
<1>5. DiskHolds'
  <2> SUFFICES ASSUME NEW k \in ScanId, saved'[k] \in ScanRecords
               PROVE  Decided(saved'[k]) /\ (k \notin unsaved' => locked'[k] \subseteq saved'[k].locks)
    OBVIOUS
  <2>1. CASE k = s BY <1>2, <2>1
  <2>2. CASE k # s BY <1>2, <2>2
  <2> QED BY <2>1, <2>2
<1> QED BY <1>3, <1>4, <1>5

(* One that is not written may only take locks back. *)
LEMMA KeptKeeps ==
  ASSUME SessionInv, NEW s \in ScanId, NEW rec \in ScanRecords, NEW L \in SUBSET SessionFile,
         Kept(s, rec), locked' = [locked EXCEPT ![s] = L],
         Decided(rec), L \subseteq rec.locks, L \subseteq locked[s]
  PROVE  SessionInv'
<1> USE RecordsDiffer DEF SessionInv, SessionTypes, MemoryHolds, DiskHolds, Known, Decided, Kept
<1>1. SessionTypes' OBVIOUS
<1>2. MemoryHolds' OBVIOUS
<1>3. DiskHolds' OBVIOUS
<1> QED BY <1>1, <1>2, <1>3

(* The operations on a record that leave its locks and intents alone, or
   change them for one file. *)
LEMMA RecordOperations ==
  ASSUME SessionInv, NEW s \in ScanId, Known(s),
         \/ SetGroups(s) \/ SetDeletePlan(s) \/ RecordDeleted(s) \/ MarkDeleting(s)
         \/ MarkEnded(s) \/ ClearAllIntents(s)
         \/ \E f \in SessionFile : \/ LockSurvivor(s, f) \/ UnlockSurvivor(s, f)
                                   \/ SetDeleteIntent(s, f) \/ ClearDeleteIntent(s, f)
  PROVE  SessionInv'
<1> DEFINE T == Touched(s)
<1>0. /\ memory[s] \in ScanRecords /\ T \in ScanRecords /\ Decided(memory[s])
      /\ T.locks = memory[s].locks /\ T.intents = memory[s].intents
      /\ locked[s] \subseteq memory[s].locks
      /\ locked \in [ScanId -> SUBSET SessionFile]
      /\ locked = [locked EXCEPT ![s] = locked[s]]
  BY TouchedRecord DEF SessionInv, SessionTypes
<1> HIDE DEF T
<1>1. CASE SetGroups(s)
  <2>1. PICK some \in BOOLEAN : Written(s, [T EXCEPT !.groups = some, !.state = "scanned"])
    BY <1>1 DEF SetGroups, T
  <2>2. [T EXCEPT !.groups = some, !.state = "scanned"] \in ScanRecords BY <1>0 DEF ScanRecords
  <2> QED BY <1>0, <1>1, <2>1, <2>2, WrittenKeeps DEF SetGroups, Decided, ScanRecords
<1>2. CASE SetDeletePlan(s)
  <2>2. [T EXCEPT !.plan = TRUE, !.state = "decided"] \in ScanRecords BY <1>0 DEF ScanRecords
  <2> QED BY <1>0, <1>2, <2>2, WrittenKeeps DEF SetDeletePlan, Decided, ScanRecords, T
<1>3. CASE RecordDeleted(s)
  <2>2. [T EXCEPT !.state = "deleted"] \in ScanRecords BY <1>0 DEF ScanRecords
  <2> QED BY <1>0, <1>3, <2>2, WrittenKeeps DEF RecordDeleted, Decided, ScanRecords, T
<1>4. CASE MarkDeleting(s)
  <2>2. [T EXCEPT !.state = "deleting"] \in ScanRecords BY <1>0 DEF ScanRecords
  <2> QED BY <1>0, <1>4, <2>2, KeptKeeps DEF MarkDeleting, Decided, ScanRecords, T
<1>5. CASE MarkEnded(s)
  <2>1. PICK st \in {"cancelled", "failed"} : Written(s, [T EXCEPT !.state = st])
    BY <1>5 DEF MarkEnded, T
  <2>2. [T EXCEPT !.state = st] \in ScanRecords BY <1>0 DEF ScanRecords
  <2> QED BY <1>0, <1>5, <2>1, <2>2, WrittenKeeps DEF MarkEnded, Decided, ScanRecords
<1>6. CASE ClearAllIntents(s)
  <2>2. [T EXCEPT !.intents = {}, !.locks = {}] \in ScanRecords BY <1>0 DEF ScanRecords
  <2> QED BY <1>0, <1>6, <2>2, WrittenKeeps DEF ClearAllIntents, Decided, ScanRecords, T
<1>7. ASSUME NEW f \in SessionFile, LockSurvivor(s, f) PROVE SessionInv'
  <2> DEFINE rec == [T EXCEPT !.locks = @ \cup {f}, !.intents = @ \ {f}]
  <2>1. rec \in ScanRecords /\ rec.locks = memory[s].locks \cup {f} /\ rec.intents = memory[s].intents \ {f}
    BY <1>0 DEF ScanRecords
  <2>2. Written(s, rec) /\ locked' = [locked EXCEPT ![s] = locked[s] \cup {f}]
    BY <1>7 DEF LockSurvivor, T
  <2>3. /\ locked[s] \cup {f} \in SUBSET SessionFile
        /\ Decided(rec) /\ locked[s] \cup {f} \subseteq rec.locks
    BY <1>0, <2>1 DEF Decided
  <2> HIDE DEF rec
  <2> QED BY <2>1, <2>2, <2>3, WrittenKeeps
<1>8. ASSUME NEW f \in SessionFile, UnlockSurvivor(s, f) PROVE SessionInv'
  <2> DEFINE rec == [T EXCEPT !.locks = @ \ {f}]
  <2>1. rec \in ScanRecords /\ rec.locks = memory[s].locks \ {f} /\ rec.intents = memory[s].intents
    BY <1>0 DEF ScanRecords
  <2>2. Kept(s, rec) /\ locked' = [locked EXCEPT ![s] = locked[s] \ {f}]
    BY <1>8 DEF UnlockSurvivor, T
  <2>3. /\ locked[s] \ {f} \in SUBSET SessionFile /\ locked[s] \ {f} \subseteq locked[s]
        /\ Decided(rec) /\ locked[s] \ {f} \subseteq rec.locks
    BY <1>0, <2>1 DEF Decided
  <2> HIDE DEF rec
  <2> QED BY <2>1, <2>2, <2>3, KeptKeeps
<1>9. ASSUME NEW f \in SessionFile, SetDeleteIntent(s, f) PROVE SessionInv'
  <2> DEFINE rec == [T EXCEPT !.intents = @ \cup {f}]
  <2>1. rec \in ScanRecords /\ rec.locks = memory[s].locks /\ rec.intents = memory[s].intents \cup {f}
    BY <1>0 DEF ScanRecords
  <2>2. locked' = locked /\ IF f \in memory[s].locks THEN Kept(s, memory[s]) ELSE Written(s, rec)
    BY <1>9 DEF SetDeleteIntent, T
  <2> HIDE DEF rec
  <2>3. CASE f \in memory[s].locks BY <1>0, <2>2, <2>3, KeptKeeps
  <2>4. CASE f \notin memory[s].locks BY <1>0, <2>1, <2>2, <2>4, WrittenKeeps DEF Decided
  <2> QED BY <2>3, <2>4
<1>10. ASSUME NEW f \in SessionFile, ClearDeleteIntent(s, f) PROVE SessionInv'
  <2> DEFINE rec == [T EXCEPT !.intents = @ \ {f}]
  <2>1. rec \in ScanRecords /\ rec.locks = memory[s].locks /\ rec.intents = memory[s].intents \ {f}
    BY <1>0 DEF ScanRecords
  <2>2. Kept(s, rec) /\ locked' = locked BY <1>10 DEF ClearDeleteIntent, T
  <2> HIDE DEF rec
  <2> QED BY <1>0, <2>1, <2>2, KeptKeeps DEF Decided
<1> QED BY <1>1, <1>2, <1>3, <1>4, <1>5, <1>6, <1>7, <1>8, <1>9, <1>10

LEMMA SessionInductive ==
  ASSUME SessionInv, [SessionNext]_sessionVars
  PROVE  SessionInv'
<1> USE RecordsDiffer
<1>1. ASSUME NEW s \in ScanId, BeginScan(s) PROVE SessionInv'
  <2>1. NewRecord \in ScanRecords /\ Decided(NewRecord) BY DEF NewRecord, ScanRecords, Decided
  <2>2. {} \in SUBSET SessionFile /\ {} \subseteq NewRecord.locks OBVIOUS
  <2> QED BY <1>1, <2>1, <2>2, WrittenKeeps DEF BeginScan
<1>2. ASSUME NEW s \in ScanId, Ages(s) PROVE SessionInv'
  <2> DEFINE rec == [memory[s] EXCEPT !.old = TRUE]
             row == [saved[s] EXCEPT !.old = TRUE]
  <2>1. /\ memory[s] \in ScanRecords /\ rec \in ScanRecords
        /\ rec.locks = memory[s].locks /\ rec.intents = memory[s].intents
    BY <1>2 DEF Ages, Known, SessionInv, SessionTypes, ScanRecords
  <2>2. memory' = [memory EXCEPT ![s] = rec] /\ UNCHANGED <<locked, unsaved>> BY <1>2 DEF Ages
  <2>3. \/ saved' = saved
        \/ saved[s] \in ScanRecords /\ saved' = [saved EXCEPT ![s] = row]
    <3>1. saved[s] \in ScanRecords \cup {NoRecord, Unreadable} BY DEF SessionInv, SessionTypes
    <3>2. saved' = IF saved[s] \in {NoRecord, Unreadable} THEN saved
                   ELSE [saved EXCEPT ![s] = row]
      BY <1>2 DEF Ages
    <3> QED BY <3>1, <3>2
  <2>4. saved[s] \in ScanRecords => /\ row \in ScanRecords
                                /\ row.locks = saved[s].locks /\ row.intents = saved[s].intents
    BY DEF ScanRecords
  <2> HIDE DEF rec, row
  <2>5. SessionTypes' /\ MemoryHolds'
    BY <2>1, <2>2, <2>3, <2>4 DEF SessionInv, SessionTypes, MemoryHolds, Known, Decided
  <2>6. DiskHolds' BY <2>1, <2>2, <2>3, <2>4 DEF SessionInv, SessionTypes, DiskHolds, Decided
  <2> QED BY <2>5, <2>6 DEF SessionInv
<1>3. CASE Cleanup
  BY <1>3 DEF Cleanup, SessionInv, SessionTypes, MemoryHolds, DiskHolds, Known, Decided
<1>4. CASE Stop BY <1>4 DEF Stop, SessionInv, SessionTypes, MemoryHolds, DiskHolds, Known, Decided
<1>5. CASE LoadPersisted
  <2> DEFINE Restored(s) == IF saved[s] = Unreadable THEN NoRecord ELSE saved[s]
             Held(s) == IF Restored(s) = NoRecord THEN {} ELSE Restored(s).locks
  <2>1. /\ memory' = [s \in ScanId |-> Restored(s)]
        /\ locked' = [s \in ScanId |-> IF s \in unsaved \/ Restored(s) = NoRecord THEN Held(s)
                                       ELSE locked[s]]
        /\ unsaved' = {} /\ saved' = saved
    BY <1>5 DEF LoadPersisted
  <2>2. \A s \in ScanId : /\ Restored(s) \in ScanRecords \cup {NoRecord}
                          /\ Restored(s) # NoRecord => Restored(s) \in ScanRecords /\ Restored(s) = saved[s]
                          /\ Held(s) \in SUBSET SessionFile
    BY DEF SessionInv, SessionTypes, ScanRecords
  <2>3. \A s \in ScanId : Restored(s) # NoRecord => locked'[s] \subseteq Restored(s).locks /\ Decided(Restored(s))
    BY <2>1, <2>2 DEF SessionInv, DiskHolds
  <2>4. \A s \in ScanId : saved[s] \in ScanRecords => Restored(s) # NoRecord /\ Restored(s) = saved[s]
    OBVIOUS
  <2> HIDE DEF Restored, Held
  <2>5. SessionTypes' BY <2>1, <2>2 DEF SessionInv, SessionTypes
  <2>6. MemoryHolds' BY <2>1, <2>2, <2>3 DEF MemoryHolds, Known, Decided
  <2>7. DiskHolds' BY <2>1, <2>3, <2>4 DEF DiskHolds, Decided
  <2> QED BY <2>5, <2>6, <2>7 DEF SessionInv
<1>6. CASE UNCHANGED sessionVars
  BY <1>6 DEF sessionVars, SessionInv, SessionTypes, MemoryHolds, DiskHolds, Known, Decided
<1>7. ASSUME NEW s \in ScanId,
             \/ SetGroups(s) \/ SetDeletePlan(s) \/ RecordDeleted(s) \/ MarkDeleting(s)
             \/ MarkEnded(s) \/ ClearAllIntents(s)
             \/ \E f \in SessionFile : \/ LockSurvivor(s, f) \/ UnlockSurvivor(s, f)
                                       \/ SetDeleteIntent(s, f) \/ ClearDeleteIntent(s, f)
      PROVE  SessionInv'
  <2>1. Known(s)
    BY <1>7 DEF SetGroups, SetDeletePlan, RecordDeleted, MarkDeleting, MarkEnded, ClearAllIntents,
       LockSurvivor, UnlockSurvivor, SetDeleteIntent, ClearDeleteIntent
  <2> QED BY <1>7, <2>1, RecordOperations
<1> QED BY <1>1, <1>2, <1>3, <1>4, <1>5, <1>6, <1>7 DEF SessionNext

(* A lock of the user holds against every plan and every restart, for any
   number of scans, files, refused writes and crashes (LocksHold). *)
THEOREM LocksHoldAlways == SessionSpec => []LocksHold
<1>1. SessionInit => SessionInv
  BY RecordsDiffer DEF SessionInit, SessionInv, SessionTypes, MemoryHolds, DiskHolds, Known
<1>2. SessionInv /\ [SessionNext]_sessionVars => SessionInv' BY SessionInductive
<1>3. SessionInv => LocksHold
  <2> SUFFICES ASSUME SessionInv, NEW s \in ScanId
               PROVE  /\ \A item \in EffectivePlan(s) : item.survivor \/ item.path \notin locked[s]
                      /\ Known(s) => locked[s] \subseteq memory[s].locks
    BY DEF LocksHold
  <2>1. Known(s) => locked[s] \subseteq memory[s].locks /\ Decided(memory[s])
    BY DEF SessionInv, MemoryHolds
  <2>2. \A item \in EffectivePlan(s) :
          Known(s) /\ (item.survivor \/ item.path \in memory[s].intents)
    BY DEF EffectivePlan
  <2> QED BY <2>1, <2>2 DEF Decided
<1> QED BY <1>1, <1>2, <1>3, PTL DEF SessionSpec

------------------------------------------------------------------------------
(* The settings file. *)

Sections == [Section -> Nat]

SettingsTypes ==
  /\ up \in BOOLEAN /\ file \in Sections \cup {Torn} /\ copy \in Sections /\ kept \in Sections
  /\ controls \in Nat /\ options \in Nat /\ writes \in Nat /\ mode \in OptionModes

(* A torn file is met by the start only, and nothing was kept in it. *)
TornAtStart == file = Torn => ~up /\ kept = Default

(* What the file lost of a mode's options, to a Save of an old copy, the
   copy has not got either: no later Save brings it back. *)
LostIsLost == file # Torn => \A m \in OptionModes : file[m] # kept[m] => copy[m] # kept[m]

SettingsInv == SettingsTypes /\ TornAtStart /\ LostIsLost /\ SettingsKept

LEMMA TornDiffers == Torn \notin Sections
<1> SUFFICES ASSUME Torn \in Sections PROVE FALSE OBVIOUS
<1>1. DOMAIN Torn = Section BY DEF Sections
<1>2. DOMAIN Torn = {"torn"} BY DEF Torn
<1> QED BY <1>1, <1>2 DEF Section, FixedSection

LEMMA DefaultType == Default \in Sections
  BY DEF Default, Sections

LEMMA GetSettings ==
  ASSUME SettingsInv
  PROVE  get_settings \in Sections /\ (up => file \in Sections /\ get_settings = file)
  BY TornDiffers, DefaultType DEF SettingsInv, SettingsTypes, TornAtStart, get_settings

(* A write of one section, by any writer but the page: the options of the
   mode that is shown, or a section of neither page nor mode. *)
LEMMA SectionWritten ==
  ASSUME SettingsInv, NEW s \in Section, WriteSection(s), UNCHANGED <<copy, controls, mode>>,
         \/ s = mode /\ options' = Stamp
         \/ s \in FixedSection \ {"page", "preset"} /\ options' = options
  PROVE  SettingsInv'
<1>1. /\ up /\ writes' = writes + 1 /\ file \in Sections
      /\ \/ up' = TRUE /\ file' = [file EXCEPT ![s] = Stamp]
         \/ up' = FALSE /\ file' = Torn
      /\ kept' = IF file' = Torn THEN Default ELSE [kept EXCEPT ![s] = Stamp]
  BY GetSettings DEF WriteSection, Change, save_settings, Keep
<1>2. /\ Stamp \in Nat /\ mode \in OptionModes /\ controls \in Nat /\ options \in Nat
      /\ copy \in Sections /\ kept \in Sections /\ writes \in Nat
  BY DEF SettingsInv, SettingsTypes, Stamp
<1> HIDE DEF Stamp
<1>3. CASE file' = Torn
  <2>1. [file EXCEPT ![s] = Stamp] \in Sections BY <1>1, <1>2 DEF Sections
  <2>2. up' = FALSE /\ kept' = Default /\ options' \in Nat /\ writes' \in Nat
    BY <1>1, <1>2, <1>3, <2>1, TornDiffers
  <2> QED BY <1>2, <1>3, <2>2, DefaultType
    DEF SettingsInv, SettingsTypes, TornAtStart, LostIsLost, SettingsKept, PageEditsKept, OptionsOfMode
<1>4. CASE file' # Torn
  <2>1. up' = TRUE /\ file' = [file EXCEPT ![s] = Stamp] /\ kept' = [kept EXCEPT ![s] = Stamp]
    BY <1>1, <1>4
  <2>2. file # Torn BY <1>1, TornDiffers
  <2>3. SettingsTypes' /\ TornAtStart'
    BY <1>1, <1>2, <1>4, <2>1 DEF SettingsTypes, TornAtStart, Sections
  <2>4. LostIsLost' BY <1>1, <1>2, <2>1, <2>2 DEF SettingsInv, LostIsLost, Sections, Section
  <2>5. PageEditsKept'
    BY <1>1, <1>2, <2>1, <2>2, SectionAssumption
    DEF SettingsInv, SettingsKept, PageEditsKept, Sections, Section, FixedSection, SectionAssumption
  <2>6. OptionsOfMode'
    BY <1>1, <1>2, <2>1, <2>2, SectionAssumption
    DEF SettingsInv, SettingsKept, OptionsOfMode, Sections, Section, FixedSection, SectionAssumption
  <2> QED BY <2>3, <2>4, <2>5, <2>6 DEF SettingsInv, SettingsKept
<1> QED BY <1>3, <1>4

(* Another mode: what the home page holds is what the user last gave the
   mode it leaves, for good. *)
LEMMA ModeSelected ==
  ASSUME SettingsInv, NEW m \in OptionModes, SelectMode(m)
  PROVE  SettingsInv'
<1>1. /\ up /\ m # mode /\ file \in Sections
      /\ \/ up' = TRUE /\ file' = [file EXCEPT ![mode] = options]
         \/ up' = FALSE /\ file' = Torn
      /\ mode' = m /\ options' = file[m]
      /\ kept' = IF file' = Torn THEN Default ELSE [kept EXCEPT ![mode] = options]
      /\ UNCHANGED <<copy, controls, writes>>
  BY GetSettings DEF SelectMode, save_settings
<1>2. /\ mode \in OptionModes /\ controls \in Nat /\ options \in Nat
      /\ copy \in Sections /\ kept \in Sections /\ writes \in Nat /\ file[m] \in Nat
      /\ mode \in Section /\ m \in Section
  BY <1>1 DEF SettingsInv, SettingsTypes, Sections, Section
<1>3. CASE file' = Torn
  BY <1>1, <1>2, <1>3, DefaultType, TornDiffers
  DEF SettingsInv, SettingsTypes, TornAtStart, LostIsLost, SettingsKept, PageEditsKept, OptionsOfMode, Sections
<1>4. CASE file' # Torn
  <2>1. up' = TRUE /\ file' = [file EXCEPT ![mode] = options] /\ kept' = [kept EXCEPT ![mode] = options]
    BY <1>1, <1>4
  <2>2. file # Torn BY <1>1, TornDiffers
  <2>3. SettingsTypes' /\ TornAtStart'
    BY <1>1, <1>2, <1>4, <2>1 DEF SettingsTypes, TornAtStart, Sections
  <2>4. LostIsLost' BY <1>1, <1>2, <2>1, <2>2 DEF SettingsInv, LostIsLost, Sections, Section
  <2>5. PageEditsKept'
    BY <1>1, <1>2, <2>1, <2>2, SectionAssumption
    DEF SettingsInv, SettingsKept, PageEditsKept, Sections, Section, FixedSection, SectionAssumption
  <2>6. OptionsOfMode' BY <1>1, <1>2, <2>1, <2>2 DEF OptionsOfMode, Sections
  <2> QED BY <2>3, <2>4, <2>5, <2>6 DEF SettingsInv, SettingsKept
<1> QED BY <1>3, <1>4

(* Save: a copy that lacks what the user last gave a mode leaves the home
   page with it; one that has it leaves the file with it. *)
LEMMA PageSaved ==
  ASSUME SettingsInv, Save
  PROVE  SettingsInv'
<1>1. /\ up /\ file \in Sections /\ copy' = [copy EXCEPT !["page"] = controls]
      /\ \/ up' = TRUE /\ file' = copy'
         \/ up' = FALSE /\ file' = Torn
      /\ kept' = IF file' = Torn THEN Default
                 ELSE [kept EXCEPT !["page"] = controls, !["preset"] = copy["preset"]]
      /\ UNCHANGED <<controls, mode, options, writes>>
  BY GetSettings DEF Save, save_settings
<1>2. /\ mode \in OptionModes /\ controls \in Nat /\ options \in Nat
      /\ copy \in Sections /\ kept \in Sections /\ writes \in Nat
      /\ {"page", "preset"} \subseteq Section
      /\ \A m \in OptionModes : m \in Section /\ m \notin {"page", "preset"}
  BY SectionAssumption DEF SettingsInv, SettingsTypes, Section, FixedSection, SectionAssumption
<1>3. copy' \in Sections BY <1>1, <1>2 DEF Sections
<1>4. CASE file' = Torn
  BY <1>1, <1>2, <1>3, <1>4, DefaultType, TornDiffers
  DEF SettingsInv, SettingsTypes, TornAtStart, LostIsLost, SettingsKept, PageEditsKept, OptionsOfMode
<1>5. CASE file' # Torn
  <2>1. /\ up' = TRUE /\ file' = copy'
        /\ kept' = [kept EXCEPT !["page"] = controls, !["preset"] = copy["preset"]]
    BY <1>1, <1>5
  <2>2. file # Torn BY <1>1, TornDiffers
  <2>3. kept' \in Sections BY <1>2, <2>1 DEF Sections
  <2>4. \A m \in OptionModes : kept'[m] = kept[m] /\ file'[m] = copy[m]
    BY <1>1, <1>2, <2>1 DEF Sections
  <2>5. SettingsTypes' /\ TornAtStart'
    BY <1>1, <1>2, <1>3, <1>5, <2>1, <2>3 DEF SettingsTypes, TornAtStart
  <2>6. LostIsLost' BY <2>1 DEF LostIsLost
  <2>7. PageEditsKept' BY <1>1, <1>2, <2>1 DEF PageEditsKept, Sections
  <2>8. OptionsOfMode'
    BY <1>1, <1>2, <2>2, <2>4 DEF SettingsInv, SettingsKept, OptionsOfMode, LostIsLost
  <2> QED BY <2>5, <2>6, <2>7, <2>8 DEF SettingsInv, SettingsKept
<1> QED BY <1>4, <1>5

(* The start reads everything anew. *)
LEMMA Booted ==
  ASSUME SettingsInv, Boot
  PROVE  SettingsInv'
<1>1. /\ copy' = get_settings /\ controls' = get_settings["page"] /\ mode' = FirstMode
      /\ options' = get_settings[FirstMode] /\ UNCHANGED <<writes, kept>>
      /\ get_settings \in Sections
  BY GetSettings DEF Boot
<1>2. /\ copy' \in Sections /\ controls' \in Nat /\ mode' \in OptionModes /\ options' \in Nat
      /\ writes' \in Nat /\ kept' \in Sections
  BY <1>1, SettingsAssumption
  DEF SettingsInv, SettingsTypes, Sections, Section, FixedSection, SettingsAssumption
<1>3. CASE file = Torn
  <2>1. /\ get_settings = Default /\ kept' = Default
        /\ \/ up' = TRUE /\ file' = Default
           \/ up' = FALSE /\ file' = Torn
    BY <1>1, <1>3 DEF Boot, save_settings, get_settings, SettingsInv, TornAtStart
  <2> QED BY <1>1, <1>2, <2>1, DefaultType, TornDiffers
    DEF SettingsInv, SettingsTypes, TornAtStart, LostIsLost, SettingsKept, PageEditsKept, OptionsOfMode
<1>4. CASE file # Torn
  <2>1. up' = TRUE /\ file' = file /\ get_settings = file BY <1>4 DEF Boot, get_settings
  <2> QED BY <1>1, <1>2, <1>4, <2>1, TornDiffers
    DEF SettingsInv, SettingsTypes, TornAtStart, LostIsLost, SettingsKept, PageEditsKept, OptionsOfMode
<1> QED BY <1>3, <1>4

LEMMA SettingsInductive ==
  ASSUME SettingsInv, [SettingsNext]_settingsVars
  PROVE  SettingsInv'
<1> USE DEF SettingsInv, SettingsTypes, TornAtStart, LostIsLost, SettingsKept, PageEditsKept,
            OptionsOfMode
<1>1. ASSUME WindowEvent \/ FinishOnboarding \/ ResetOnboarding \/ AddExcludePath \/ AckRootDrive
      PROVE  SettingsInv'
  BY <1>1, SectionWritten DEF WindowEvent, FinishOnboarding, ResetOnboarding, AddExcludePath,
     AckRootDrive, Section, FixedSection
<1>2. CASE EditOption BY <1>2, SectionWritten DEF EditOption, Section
<1>3. ASSUME NEW m \in OptionModes, SelectMode(m) PROVE SettingsInv' BY <1>3, ModeSelected
<1>4. CASE LoadPage BY <1>4, GetSettings, TornDiffers DEF LoadPage, Sections, Section, FixedSection
<1>5. CASE EditControl BY <1>5 DEF EditControl, Change, Stamp
<1>6. CASE PickPreset
  BY <1>6, SectionAssumption DEF PickPreset, Change, Stamp, Sections, Section, FixedSection, SectionAssumption
<1>7. CASE Save BY <1>7, PageSaved
<1>8. CASE Quit BY <1>8 DEF Quit
<1>9. CASE Boot BY <1>9, Booted
<1>10. CASE ShowOnboarding \/ UNCHANGED settingsVars BY <1>10 DEF ShowOnboarding, settingsVars
<1> QED BY <1>1, <1>2, <1>3, <1>4, <1>5, <1>6, <1>7, <1>8, <1>9, <1>10 DEF SettingsNext

(* The page's edits and the options of the mode survive every other writer
   of the file, for any number of writes, restarts and torn files
   (SettingsKept). *)
THEOREM SettingsKeptAlways == SettingsSpec => []SettingsKept
<1>1. SettingsInit => SettingsInv
  BY SettingsAssumption, DefaultType, TornDiffers
  DEF SettingsInit, SettingsInv, SettingsTypes, TornAtStart, LostIsLost, SettingsKept, PageEditsKept,
      OptionsOfMode, SettingsAssumption, Default, Section
<1>2. SettingsInv /\ [SettingsNext]_settingsVars => SettingsInv' BY SettingsInductive
<1>3. SettingsInv => SettingsKept BY DEF SettingsInv
<1> QED BY <1>1, <1>2, <1>3, PTL DEF SettingsSpec

------------------------------------------------------------------------------
(* The deletion pipeline: what a plan may delete. *)

Keepers(P) == {P[g].keep : g \in DOMAIN P}

\* A keeper that can be read, or that somebody else took away.
Spared(k) == Exists(k) \/ {k, Resolved(k)} \cap orphans # {}

\* The places of a plan that name a file other than their group's keeper.
Victims(P) == {x \in UNION {{g} \X DOMAIN P[g].delete : g \in DOMAIN P} :
                 Resolved(P[x[1]].delete[x[2]]) # Resolved(P[x[1]].keep)}

DeletionTypes ==
  /\ job.state \in {"idle", "built", "running"}
  /\ job = [state |-> job.state, plan |-> job.plan, todo |-> job.todo,
            cancelled |-> job.cancelled, deleted |-> job.deleted, failed |-> job.failed]
  /\ job.deleted \in SUBSET DelPath
  /\ job.state = "idle" => job = NoJob
  /\ job.state # "idle" => job.plan \in Plans

(* What is left to do spares every keeper of the plan. *)
PlanSpares ==
  /\ job.todo \subseteq Victims(job.plan)
  /\ \A x \in job.todo : Spared(job.plan[x[1]].keep)
  /\ \A op \in ops : Spared(op.kept) /\ (job.state # "idle" => op.kept \in Keepers(job.plan))

TokenInv ==
  /\ gate.token \in 0..gate.issued /\ gate.issued \in 0..MaxTokens
  /\ gate = [token |-> gate.token, expired |-> gate.expired, issued |-> gate.issued]
  /\ grants \in [0..MaxTokens -> Nat]
  /\ \A t \in 1..MaxTokens : /\ grants[t] <= 1
                             /\ t = gate.token \/ t > gate.issued => grants[t] = 0

DeletionInv == DeletionTypes /\ PlanSpares /\ TokenInv

LEMMA Links ==
  /\ \A p \in DelPath : Resolved(p) \in DelPath /\ Resolved(Resolved(p)) = Resolved(p)
  /\ \A P \in Plans : \A g \in DOMAIN P :
       /\ P[g].keep \in DelPath
       /\ \A i \in DOMAIN P[g].delete : P[g].delete[i] \in DelPath
<1>1. \A p \in DelPath : Resolved(p) \in DelPath /\ Resolved(Resolved(p)) = Resolved(p)
  BY PathAssumption DEF PathAssumption, DelPath, Resolved
<1>2. ASSUME NEW P \in Plans, NEW g \in DOMAIN P
      PROVE  /\ P[g].keep \in DelPath
             /\ \A i \in DOMAIN P[g].delete : P[g].delete[i] \in DelPath
  <2> DEFINE R == [keep : DelPath, delete : Seq(DelPath)]
  <2>1. P \in Seq(R) BY PathAssumption DEF PathAssumption
  <2> HIDE DEF R
  <2>2. P[g] \in R BY <2>1, LenProperties, ElementOfSeq
  <2>3. P[g].keep \in DelPath /\ P[g].delete \in Seq(DelPath) BY <2>2 DEF R
  <2> QED BY <2>3, LenProperties, ElementOfSeq
<1> QED BY <1>1, <1>2

(* A victim is no keeper of its plan, nor the file that one is a link to. *)
LEMMA VictimIsNoKeeper ==
  ASSUME NEW P \in Plans, NEW x \in Victims(P), NEW k \in Keepers(P)
  PROVE  P[x[1]].delete[x[2]] \in DelPath \ {k, Resolved(k)}
<1> DEFINE g == x[1]
           v == P[g].delete[x[2]]
<1>1. PICK h \in DOMAIN P : k = P[h].keep BY DEF Keepers
<1>2. g \in DOMAIN P /\ x[2] \in DOMAIN P[g].delete /\ Resolved(v) # Resolved(P[g].keep)
  BY DEF Victims
<1>3. v \in DelPath /\ k \in DelPath BY <1>1, <1>2, Links
<1>4. Resolved(v) # Resolved(k)
  <2>1. CASE h = g BY <1>1, <1>2, <2>1
  <2>2. CASE h # g
    <3>1. v \in Range(P[g].delete) BY <1>2 DEF Range
    <3> QED BY <1>1, <1>2, <2>2, <3>1, PlansDisjoint DEF PlansDisjoint
  <2> QED BY <2>1, <2>2
<1> QED BY <1>3, <1>4, Links

(* Building the plan leaves only victims, and keepers that can be read. *)
LEMMA PlanBuilt ==
  ASSUME DeletionInv, BuildPlan
  PROVE  DeletionInv'
<1>1. ops' = {} /\ UNCHANGED <<entries, orphans, gate, grants>> BY DEF BuildPlan, gateVars
<1>2. CASE UNCHANGED job
  BY <1>1, <1>2 DEF DeletionInv, DeletionTypes, PlanSpares, TokenInv, Spared, Exists
<1>3. CASE job' # job
  <2>1. PICK P \in Plans :
          job' = [NoJob EXCEPT !.state = "built", !.plan = P,
                               !.todo = UNION {{g} \X OperationsOf(P[g]) : g \in DOMAIN P}]
    BY <1>3 DEF BuildPlan
  <2>2. /\ job'.state = "built" /\ job'.plan = P /\ job'.deleted = {}
        /\ job'.todo = UNION {{g} \X OperationsOf(P[g]) : g \in DOMAIN P}
    BY <2>1 DEF NoJob
  <2>3. \A x \in job'.todo : x \in Victims(P) /\ Exists(P[x[1]].keep)
    BY <2>2 DEF OperationsOf, Victims
  <2>4. DeletionTypes' BY <2>1, <2>2 DEF DeletionTypes, NoJob
  <2>5. PlanSpares' BY <1>1, <2>2, <2>3 DEF PlanSpares, Spared, Exists
  <2> QED BY <1>1, <2>4, <2>5 DEF DeletionInv, TokenInv
<1> QED BY <1>2, <1>3

(* A deletion takes its victim only. *)
LEMMA VictimDeleted ==
  ASSUME DeletionInv, ExecuteOne
  PROVE  DeletionInv'
<1>1. PICK x \in job.todo : DeleteOne(x) BY DEF ExecuteOne
<1> DEFINE P == job.plan
           op == OperationAt(P, x)
<1>2. job.state = "running" /\ P \in Plans /\ x \in Victims(P) /\ UNCHANGED <<orphans, gate, grants>>
  BY <1>1 DEF ExecuteOne, DeletionInv, DeletionTypes, PlanSpares, gateVars
<1>3. x[1] \in DOMAIN P BY <1>2 DEF Victims
<1>4. op.path = P[x[1]].delete[x[2]] /\ op.kept = P[x[1]].keep /\ op.kept \in Keepers(P)
  BY <1>3 DEF OperationAt, Keepers
<1>5. op.path \in DelPath /\ \A k \in Keepers(P) : op.path \notin {k, Resolved(k)}
  BY <1>2, <1>4, VictimIsNoKeeper
<1> HIDE DEF op
<1>6. /\ entries' \in {entries, entries \ {op.path}} /\ ops' \in {ops, ops \cup {op}}
      /\ job'.state = "running" /\ job'.plan = P /\ job'.todo = job.todo \ {x}
      /\ job'.deleted \in {job.deleted, job.deleted \cup {op.path}}
      /\ job' = [state |-> job'.state, plan |-> job'.plan, todo |-> job'.todo,
                 cancelled |-> job'.cancelled, deleted |-> job'.deleted, failed |-> job'.failed]
  BY <1>1, <1>2 DEF DeleteOne, DeletionInv, DeletionTypes, op
<1>7. \A k \in Keepers(P) : Spared(k) => Spared(k)' BY <1>2, <1>5, <1>6 DEF Spared, Exists
<1>8. \A y \in job.todo : job.plan[y[1]].keep \in Keepers(P)
  BY DEF DeletionInv, PlanSpares, Victims, Keepers
<1>9. DeletionTypes' BY <1>2, <1>5, <1>6 DEF DeletionInv, DeletionTypes
<1>10. PlanSpares' BY <1>1, <1>2, <1>4, <1>6, <1>7, <1>8 DEF DeletionInv, PlanSpares
<1> QED BY <1>2, <1>9, <1>10 DEF DeletionInv, TokenInv

LEMMA DeletionInductive ==
  ASSUME DeletionInv, [PipelineNext \/ GateNext]_pipelineVars
  PROVE  DeletionInv'
<1> USE DEF DeletionInv, DeletionTypes, PlanSpares, Spared, Exists
<1>1. CASE BuildPlan BY <1>1, PlanBuilt
<1>2. CASE Execute BY <1>2 DEF Execute, fileVars, gateVars, TokenInv, NoJob
<1>3. CASE ExecuteOne BY <1>3, VictimDeleted
<1>4. CASE CancelBatch BY <1>4 DEF CancelBatch, fileVars, gateVars, TokenInv
<1>5. CASE WriteAudit \/ Die
  <2>1. job' = NoJob /\ UNCHANGED <<fileVars, gateVars>> BY <1>5 DEF WriteAudit, Die
  <2>2. DeletionTypes' /\ TokenInv' BY <2>1 DEF gateVars, TokenInv, NoJob
  <2>3. PlanSpares' BY <2>1 DEF fileVars, NoJob
  <2> QED BY <2>2, <2>3
<1>6. CASE OtherRemoves
  <2>1. PICK p \in entries : entries' = entries \ {p} /\ orphans' = orphans \cup {p}
    BY <1>6 DEF OtherRemoves
  <2>2. UNCHANGED <<job, ops, gate, grants>> BY <1>6 DEF OtherRemoves, gateVars
  <2>3. \A k : Spared(k) => Spared(k)' BY <2>1
  <2>4. PlanSpares' BY <2>2, <2>3
  <2> QED BY <2>2, <2>4 DEF TokenInv
<1>7. CASE IssueToken
  BY <1>7, PipelineAssumption DEF IssueToken, fileVars, TokenInv, PipelineAssumption
<1>8. CASE TokenExpires BY <1>8 DEF TokenExpires, fileVars, TokenInv
<1>9. CASE UseGate
  <2>1. UNCHANGED <<entries, orphans, ops, job>> BY <1>9 DEF UseGate, fileVars
  <2>2. PICK t \in 0..gate.issued : AssertAllowed(t) BY <1>9 DEF UseGate
  <2>3. /\ gate.token # 0 => t = gate.token
        /\ gate.token = 0 => t = 0
        /\ grants' = [grants EXCEPT ![t] = @ + 1]
        /\ gate' = [token |-> 0, expired |-> FALSE, issued |-> gate.issued]
    BY <2>2 DEF AssertAllowed, VerifyToken, TokenInv
  <2>4. TokenInv' BY <2>3, PipelineAssumption DEF TokenInv, PipelineAssumption
  <2> QED BY <2>1, <2>4
<1>10. CASE UNCHANGED pipelineVars BY <1>10 DEF pipelineVars, TokenInv
<1> QED BY <1>1, <1>2, <1>3, <1>4, <1>5, <1>6, <1>7, <1>8, <1>9, <1>10 DEF PipelineNext, GateNext

LEMMA PipelineStarts == PipelineInit => DeletionInv
  BY PipelineAssumption DEF PipelineInit, DeletionInv, DeletionTypes, PlanSpares, TokenInv, NoJob,
     PipelineAssumption

(* No plan deletes the last copy of what it keeps, and no token of a gate
   opens it twice, for any plans over any files and links
   (DeletionsGuarded). *)
THEOREM DeletionsGuardedAlways == PipelineSpec => []DeletionsGuarded
<1>1. PipelineInit => DeletionInv BY PipelineStarts
<1>2. DeletionInv /\ [PipelineNext \/ GateNext]_pipelineVars => DeletionInv' BY DeletionInductive
<1>3. DeletionInv => DeletionsGuarded
  BY DEF DeletionInv, DeletionsGuarded, KeptReadable, TokenOnce, PlanSpares, Spared, TokenInv
<1> QED BY <1>1, <1>2, <1>3, PTL DEF PipelineSpec

------------------------------------------------------------------------------
(* The audit trail: what is written at the end of a file of lines. *)

AuditRecords == [of : Nat, paths : SUBSET DelPath]
Pieces == AuditRecords \cup {Piece}
Lines  == Seq(Seq(Pieces))

\* A file whose last line is open, and holds nothing or begins with a piece.
Tidy(f) ==
  /\ f \in Lines /\ f # <<>>
  /\ f[Len(f)] # <<>> => f[Len(f)][1] = Piece

\* Whether the next record goes to a line of its own.
Clean(f) == f[Len(f)] = <<>>

LEMMA PieceIsNoRecord == Piece \notin AuditRecords
  BY PathAssumption DEF Piece, RecordOf, AuditRecords, PathAssumption

LEMMA TidyFacts ==
  ASSUME NEW f, Tidy(f)
  PROVE  /\ Len(f) \in Nat \ {0} /\ DOMAIN f = 1..Len(f)
         /\ \A i \in 1..Len(f) : /\ f[i] \in Seq(Pieces) /\ Len(f[i]) \in Nat
                                 /\ DOMAIN f[i] = 1..Len(f[i])
                                 /\ f[i] = <<>> <=> Len(f[i]) = 0
<1>1. f \in Seq(Seq(Pieces)) /\ f # <<>> BY DEF Tidy, Lines
<1>2. Len(f) \in Nat \ {0} /\ DOMAIN f = 1..Len(f) BY <1>1, LenProperties, EmptySeq
<1>3. ASSUME NEW i \in 1..Len(f)
      PROVE  /\ f[i] \in Seq(Pieces) /\ Len(f[i]) \in Nat
             /\ DOMAIN f[i] = 1..Len(f[i])
             /\ f[i] = <<>> <=> Len(f[i]) = 0
  <2>1. f[i] \in Seq(Pieces) BY <1>1, ElementOfSeq
  <2> QED BY <2>1, LenProperties, EmptySeq
<1> QED BY <1>2, <1>3

(* What is put at the end of the last line changes that line alone. *)
LEMMA PieceWritten ==
  ASSUME NEW f, Tidy(f), NEW piece \in Pieces
  PROVE  LET g == AddPiece(f, piece)
             last == f[Len(f)]
         IN  /\ g \in Lines /\ Len(g) = Len(f) /\ DOMAIN g = 1..Len(f)
             /\ \A i \in 1..Len(f) : i # Len(f) => g[i] = f[i]
             /\ g[Len(f)] = Append(last, piece)
             /\ Len(g[Len(f)]) = Len(last) + 1
             /\ g[Len(f)][1] = IF Clean(f) THEN piece ELSE last[1]
<1> DEFINE n == Len(f)
           last == f[n]
           g == AddPiece(f, piece)
<1>1. n \in 1..Len(f) /\ last \in Seq(Pieces) /\ f \in Seq(Seq(Pieces)) BY TidyFacts DEF Tidy, Lines
<1>2. /\ Append(last, piece) \in Seq(Pieces) /\ Len(Append(last, piece)) = Len(last) + 1
      /\ \A i \in 1..Len(last) : Append(last, piece)[i] = last[i]
      /\ Append(last, piece)[Len(last) + 1] = piece
  BY <1>1, AppendProperties
<1>3. g = [f EXCEPT ![n] = Append(last, piece)] BY DEF AddPiece
<1>4. /\ g \in Seq(Seq(Pieces)) /\ Len(g) = n
      /\ \A i \in 1..n : g[i] = IF i = n THEN Append(last, piece) ELSE f[i]
  BY <1>1, <1>2, <1>3, ExceptSeq
<1>5. DOMAIN g = 1..n BY <1>4, LenProperties
<1>6. g[n][1] = IF last = <<>> THEN piece ELSE last[1]
  <2>1. CASE last = <<>> BY <1>1, <1>2, <1>4, <2>1, EmptySeq
  <2>2. CASE last # <<>>
    <3>1. 1 \in 1..Len(last) BY <1>1, <2>2, TidyFacts
    <3> QED BY <1>1, <1>2, <1>4, <2>2, <3>1
  <2> QED BY <2>1, <2>2
<1> HIDE DEF g, last, n
<1>7. Clean(f) <=> last = <<>> BY DEF Clean, last, n
<1>8. g \in Lines /\ g[n] = Append(last, piece) BY <1>1, <1>4 DEF Lines
<1>9. \A i \in 1..n : i # n => g[i] = f[i] BY <1>4
<1>10. g[n][1] = IF Clean(f) THEN piece ELSE last[1] BY <1>6, <1>7
<1> QED BY <1>2, <1>4, <1>5, <1>8, <1>9, <1>10, Zenon DEF g, last, n

(* A piece of a record leaves the records as they were. *)
LEMMA PieceAdded ==
  ASSUME NEW f, Tidy(f)
  PROVE  Tidy(AddPiece(f, Piece)) /\ Records(AddPiece(f, Piece)) = Records(f)
<1> DEFINE g == AddPiece(f, Piece)
           n == Len(f)
<1>1. /\ g \in Lines /\ Len(g) = n /\ DOMAIN g = 1..n
      /\ \A i \in 1..n : i # n => g[i] = f[i]
      /\ Len(g[n]) = Len(f[n]) + 1
      /\ g[n][1] = IF Clean(f) THEN Piece ELSE f[n][1]
  <2>1. Piece \in Pieces BY DEF Pieces
  <2> QED BY <2>1, PieceWritten, Zenon
<1>2. n \in Nat \ {0} /\ DOMAIN f = 1..n /\ Len(f[n]) \in Nat BY TidyFacts
<1>3. g[n][1] = Piece /\ (f[n] # <<>> => f[n][1] = Piece) BY <1>1 DEF Tidy, Clean
<1>4. Len(f[n]) = 1 => f[n] # <<>> BY EmptySeq
<1> HIDE DEF g, n
<1>5. Tidy(g) BY <1>1, <1>2, <1>3, EmptySeq DEF Tidy
<1>6. \A i \in 1..n : (Len(g[i]) = 1 /\ g[i][1] # Piece) <=> (Len(f[i]) = 1 /\ f[i][1] # Piece)
  BY <1>1, <1>2, <1>3, <1>4
<1>7. \A i \in 1..n : Len(f[i]) = 1 /\ f[i][1] # Piece => g[i] = f[i] BY <1>1, <1>3, <1>4
<1>8. Records(g) = Records(f) BY <1>1, <1>2, <1>6, <1>7 DEF Records
<1> QED BY <1>5, <1>8 DEF g

(* A whole line is a record if it has a line of its own, and leaves the
   next one to its own. *)
LEMMA LineAdded ==
  ASSUME NEW f, Tidy(f), NEW r \in AuditRecords
  PROVE  LET g == AddLine(f, r)
         IN  /\ Tidy(g) /\ Clean(g)
             /\ Records(g) = Records(f) \cup (IF Clean(f) THEN {r} ELSE {})
<1> DEFINE h == AddPiece(f, r)
           g == Append(h, <<>>)
           n == Len(f)
<1>1. /\ h \in Lines /\ Len(h) = n /\ DOMAIN h = 1..n
      /\ \A i \in 1..n : i # n => h[i] = f[i]
      /\ Len(h[n]) = Len(f[n]) + 1
      /\ h[n][1] = IF Clean(f) THEN r ELSE f[n][1]
  BY PieceWritten DEF Pieces
<1>2. n \in Nat \ {0} /\ DOMAIN f = 1..n /\ Len(f[n]) \in Nat BY TidyFacts
<1>3. f[n] # <<>> => f[n][1] = Piece BY DEF Tidy
<1>4. (f[n] = <<>> <=> Clean(f)) /\ (f[n] = <<>> => Len(f[n]) = 0) /\ r # Piece
  BY EmptySeq, PieceIsNoRecord DEF Clean
<1>5. Len(f[n]) = 0 => f[n] = <<>> BY TidyFacts, <1>2, EmptySeq
<1> HIDE DEF h, n
<1>6. /\ g \in Lines /\ Len(g) = n + 1 /\ DOMAIN g = 1..(n + 1)
      /\ \A i \in 1..n : g[i] = h[i]
      /\ g[n + 1] = <<>>
  <2>1. <<>> \in Seq(Pieces) /\ h \in Seq(Seq(Pieces)) BY <1>1, EmptySeq DEF Lines
  <2>2. /\ g \in Seq(Seq(Pieces)) /\ Len(g) = Len(h) + 1
        /\ \A i \in 1..Len(h) : g[i] = h[i]
        /\ g[Len(h) + 1] = <<>>
    BY <2>1, AppendProperties
  <2> QED BY <1>1, <2>2, LenProperties DEF Lines
<1> HIDE DEF g
<1>7. Tidy(g) /\ Clean(g) BY <1>2, <1>6, EmptySeq DEF Tidy, Clean
<1> DEFINE Alone(l) == Len(l) = 1 /\ l[1] # Piece
<1>8. \A i \in 1..(n + 1) :
        Alone(g[i]) <=> \/ i \in 1..n /\ Alone(f[i])
                        \/ i = n /\ Clean(f)
  <2> SUFFICES ASSUME NEW i \in 1..(n + 1)
               PROVE  Alone(g[i]) <=> \/ i \in 1..n /\ Alone(f[i])
                                      \/ i = n /\ Clean(f)
    OBVIOUS
  <2>1. CASE i = n + 1 BY <1>2, <1>6, <2>1, EmptySeq
  <2>2. CASE i = n
    <3>1. g[n] = h[n] /\ n \in 1..n BY <1>2, <1>6
    <3> QED BY <1>1, <1>2, <1>3, <1>4, <1>5, <2>2, <3>1
  <2>3. CASE i \in 1..n /\ i # n BY <1>1, <1>2, <1>6, <2>3
  <2> QED BY <1>2, <2>1, <2>2, <2>3
<1>9. /\ \A i \in 1..n : Alone(f[i]) => g[i] = f[i]
      /\ Clean(f) => g[n][1] = r
  BY <1>1, <1>2, <1>3, <1>4, <1>6
<1>10. Records(g) = {g[i][1] : i \in {j \in 1..(n + 1) : Alone(g[j])}} BY <1>6 DEF Records
<1>11. Records(f) = {f[i][1] : i \in {j \in 1..n : Alone(f[j])}} BY <1>2 DEF Records
<1> HIDE DEF Alone
<1>12. Records(g) = Records(f) \cup (IF Clean(f) THEN {r} ELSE {}) BY <1>2, <1>8, <1>9, <1>10, <1>11
<1> QED BY <1>7, <1>12 DEF g, h, AddLine

(* Whatever the attempts to write a record do, it is added or it is not. *)
LEMMA AttemptsKeep ==
  ASSUME NEW f, Tidy(f), NEW r \in AuditRecords,
         NEW g \in Attempts(f, r).ok \cup Attempts(f, r).none
  PROVE  Tidy(g) /\ Records(f) \subseteq Records(g) /\ Records(g) \subseteq Records(f) \cup {r}
<1> DEFINE Failed(h) == {h, AddPiece(h, Piece), AddLine(h, r)}
           Twice == UNION {Failed(h) : h \in Failed(f)}
           Fits(h) == /\ Tidy(h) /\ Records(f) \subseteq Records(h)
                      /\ Records(h) \subseteq Records(f) \cup {r}
<1>1. Fits(f) OBVIOUS
<1>2. ASSUME NEW h, Fits(h) PROVE Fits(AddPiece(h, Piece)) /\ Fits(AddLine(h, r))
  BY <1>2, PieceAdded, LineAdded
<1> HIDE DEF Fits
<1>3. ASSUME NEW h, Fits(h), NEW k \in Failed(h) PROVE Fits(k) BY <1>2, <1>3
<1>4. \A h \in Failed(f) : Fits(h) BY <1>1, <1>3
<1>5. \A h \in Twice : Fits(h) BY <1>3, <1>4
<1>6. \/ \E h \in {f} \cup Failed(f) \cup Twice : g = AddLine(h, r)
      \/ \E h \in Twice : g \in Failed(h)
  BY DEF Attempts
<1>7. Fits(g) BY <1>1, <1>2, <1>3, <1>4, <1>5, <1>6
<1> QED BY <1>7 DEF Fits

(* A record that is missing was cut short itself, or appended to what one
   left behind; only a write that was cut short leaves the last line open. *)
Writings == [record : AuditRecords, whole : BOOLEAN]
BegunRecords(bs) == {bs[i].record : i \in DOMAIN bs}
Excused(bs, i) == ~bs[i].whole \/ (i > 1 /\ ~bs[i - 1].whole)

AuditInv ==
  /\ job.deleted \in SUBSET DelPath /\ jobs \in Nat /\ torn \in Nat
  /\ Tidy(auditFile) /\ begun \in Seq(Writings)
  /\ Records(auditFile) \subseteq BegunRecords(begun)
  /\ begun = <<>> \/ begun[Len(begun)].whole => Clean(auditFile)
  /\ \A i \in DOMAIN begun : begun[i].record \in Records(auditFile) \/ Excused(begun, i)

(* One more write: if it was whole, the next record has a line of its own,
   and it can be read unless the write before it was not. *)
LEMMA WritingAdded ==
  ASSUME AuditInv, NEW r \in AuditRecords, NEW whole \in BOOLEAN,
         begun' = Append(begun, Writing(r, whole)),
         Tidy(auditFile'), Records(auditFile) \subseteq Records(auditFile'),
         Records(auditFile') \subseteq Records(auditFile) \cup {r},
         whole => Clean(auditFile') /\ (Clean(auditFile) => r \in Records(auditFile')),
         job' = NoJob, jobs' = jobs, torn' \in Nat
  PROVE  AuditInv'
<1> DEFINE n == Len(begun)
           w == Writing(r, whole)
<1>1. begun \in Seq(Writings) /\ n \in Nat /\ DOMAIN begun = 1..n /\ w \in Writings
  BY LenProperties DEF AuditInv, Writings, Writing
<1>2. /\ begun' \in Seq(Writings) /\ Len(begun') = n + 1 /\ DOMAIN begun' = 1..(n + 1)
      /\ \A i \in 1..n : begun'[i] = begun[i]
      /\ begun'[n + 1] = w
  BY <1>1, AppendProperties, LenProperties
<1>3. w.record = r /\ w.whole = whole BY DEF Writing
<1> HIDE DEF w, n
<1>4. Records(auditFile') \subseteq BegunRecords(begun')
  <2>1. BegunRecords(begun) \cup {r} \subseteq BegunRecords(begun')
    BY <1>1, <1>2, <1>3 DEF BegunRecords
  <2> QED BY <2>1 DEF AuditInv
<1>5. begun' = <<>> \/ begun'[Len(begun')].whole => Clean(auditFile')
  <2>1. begun' # <<>> BY <1>1, <1>2, EmptySeq
  <2> QED BY <1>2, <1>3, <2>1
<1>6. ASSUME NEW i \in 1..(n + 1)
      PROVE  begun'[i].record \in Records(auditFile') \/ Excused(begun', i)
  <2>1. CASE i \in 1..n
    <3>1. begun[i].record \in Records(auditFile) \/ Excused(begun, i) BY <1>1, <2>1 DEF AuditInv
    <3>2. begun'[i] = begun[i] /\ (i > 1 => begun'[i - 1] = begun[i - 1]) BY <1>1, <1>2, <2>1
    <3> QED BY <3>1, <3>2 DEF Excused
  <2>2. CASE i = n + 1
    <3>1. CASE ~whole BY <1>2, <1>3, <2>2, <3>1 DEF Excused
    <3>2. CASE whole /\ Clean(auditFile) BY <1>2, <1>3, <2>2, <3>2
    <3>3. CASE whole /\ ~Clean(auditFile)
      <4>1. begun # <<>> /\ ~begun[n].whole BY <3>3 DEF AuditInv, n
      <4>2. n >= 1 BY <1>1, <4>1, EmptySeq DEF n
      <4>3. i > 1 /\ begun'[i - 1] = begun[n] BY <1>1, <1>2, <2>2, <4>2
      <4> QED BY <4>1, <4>3 DEF Excused
    <3> QED BY <3>1, <3>2, <3>3
  <2> QED BY <1>1, <2>1, <2>2
<1>7. job'.deleted \in SUBSET DelPath BY DEF NoJob
<1> QED BY <1>2, <1>4, <1>5, <1>6, <1>7 DEF AuditInv

LEMMA AuditWritten ==
  ASSUME AuditInv, WriteAudit
  PROVE  AuditInv'
<1> DEFINE r == RecordOf(jobs, job.deleted)
           f == auditFile
           g == auditFile'
<1>1. /\ g \in Attempts(f, r).ok \cup Attempts(f, r).none
      /\ begun' = Append(begun, Writing(r, torn' = torn)) /\ job' = NoJob /\ jobs' = jobs
      /\ torn' = torn + (IF g = AddLine(f, r) THEN 0 ELSE 1)
  BY DEF WriteAudit, AuditedPaths
<1>2. r \in AuditRecords /\ Tidy(f) /\ torn \in Nat BY DEF AuditInv, AuditRecords, RecordOf
<1>3. Tidy(g) /\ Records(f) \subseteq Records(g) /\ Records(g) \subseteq Records(f) \cup {r}
  BY <1>1, <1>2, AttemptsKeep
<1>4. g = AddLine(f, r) => Clean(g) /\ (Clean(f) => r \in Records(g)) BY <1>2, LineAdded
<1>5. torn' \in Nat /\ (torn' = torn => g = AddLine(f, r)) /\ (torn' = torn) \in BOOLEAN
  BY <1>1, <1>2
<1> HIDE DEF r
<1> QED BY <1>1, <1>2, <1>3, <1>4, <1>5, WritingAdded

LEMMA AuditDies ==
  ASSUME AuditInv, Die
  PROVE  AuditInv'
<1> DEFINE r == RecordOf(jobs, job.deleted)
<1>1. /\ torn' = torn + 1 /\ job' = NoJob /\ jobs' = jobs
      /\ \/ UNCHANGED <<begun, auditFile>>
         \/ /\ auditFile' \in Attempts(auditFile, r).none
            /\ begun' = Append(begun, Writing(r, FALSE))
  BY DEF Die, AuditedPaths
<1>2. r \in AuditRecords /\ Tidy(auditFile) /\ torn' \in Nat
  BY <1>1 DEF AuditInv, AuditRecords, RecordOf
<1> HIDE DEF r
<1>3. CASE UNCHANGED <<begun, auditFile>> BY <1>1, <1>2, <1>3 DEF AuditInv, NoJob
<1>4. CASE /\ auditFile' \in Attempts(auditFile, r).none
           /\ begun' = Append(begun, Writing(r, FALSE))
  <2>1. /\ Tidy(auditFile') /\ Records(auditFile) \subseteq Records(auditFile')
        /\ Records(auditFile') \subseteq Records(auditFile) \cup {r}
    BY <1>2, <1>4, AttemptsKeep
  <2> QED BY <1>1, <1>2, <1>4, <2>1, WritingAdded
<1> QED BY <1>1, <1>3, <1>4

LEMMA AuditInductive ==
  ASSUME AuditInv, DeletionTypes, DeletionTypes', [PipelineNext \/ GateNext]_pipelineVars
  PROVE  AuditInv'
<1>1. CASE WriteAudit BY <1>1, AuditWritten
<1>2. CASE Die BY <1>2, AuditDies
<1>3. CASE UNCHANGED auditVars /\ jobs' \in Nat BY <1>3 DEF auditVars, AuditInv, DeletionTypes
<1>4. WriteAudit \/ Die \/ (UNCHANGED auditVars /\ jobs' \in {jobs, jobs + 1})
  BY DEF PipelineNext, GateNext, BuildPlan, Execute, ExecuteOne, CancelBatch, OtherRemoves,
         IssueToken, TokenExpires, UseGate, pipelineVars, auditVars
<1>5. jobs \in Nat BY DEF AuditInv
<1> QED BY <1>1, <1>2, <1>3, <1>4, <1>5

LEMMA AuditInvTells == AuditInv => AuditTells
<1> SUFFICES ASSUME AuditInv PROVE AuditTells OBVIOUS
<1>1. Records(auditFile) \subseteq {begun[i].record : i \in DOMAIN begun}
  BY DEF AuditInv, BegunRecords
<1>2. ASSUME NEW i \in DOMAIN begun
      PROVE  \/ begun[i].record \in Records(auditFile)
             \/ ~begun[i].whole
             \/ i > 1 /\ ~begun[i - 1].whole
  BY DEF AuditInv, Excused
<1> QED BY <1>1, <1>2 DEF AuditTells

LEMMA AuditAtStart == PipelineInit => AuditInv
<1> SUFFICES ASSUME PipelineInit PROVE AuditInv OBVIOUS
<1> DEFINE f == << <<>> >>
<1>1. auditFile = f /\ begun = <<>> /\ torn = 0 /\ jobs = 0 /\ job.deleted = {}
  BY DEF PipelineInit, NoJob
<1>2. <<>> \in Seq(Pieces) /\ f \in Seq(Seq(Pieces)) /\ Len(f) = 1 /\ f[1] = <<>>
  BY EmptySeq, IsASeq
<1>3. Tidy(f) /\ Clean(f) BY <1>2 DEF Tidy, Clean, Lines
<1>4. Records(f) = {}
  <2>1. DOMAIN f = {1} /\ Len(<<>>) = 0 OBVIOUS
  <2> QED BY <1>2, <2>1 DEF Records
<1>5. <<>> \in Seq(Writings) /\ DOMAIN <<>> = {} BY EmptySeq
<1> QED BY <1>1, <1>3, <1>4, <1>5 DEF AuditInv

(* A batch that ended can be read back from the audit trail and nothing
   else can, but for the records that writes which were cut short, and the
   writes right after those, have cost, for any plans, failing writes and
   restarts (AuditTells). *)
THEOREM AuditTellsAlways == PipelineSpec => []AuditTells
<1>1. PipelineInit => DeletionInv /\ AuditInv BY PipelineStarts, AuditAtStart
<1>2. DeletionInv /\ [PipelineNext \/ GateNext]_pipelineVars => DeletionInv' BY DeletionInductive
<1>3. /\ AuditInv /\ DeletionInv /\ DeletionInv' /\ [PipelineNext \/ GateNext]_pipelineVars
      => AuditInv'
  BY AuditInductive DEF DeletionInv
<1>4. AuditInv => AuditTells BY AuditInvTells
<1> QED BY <1>1, <1>2, <1>3, <1>4, PTL DEF PipelineSpec

------------------------------------------------------------------------------
(* The funnel: what each phase keeps together, and what it tells apart. *)

\* Of files nobody touched, each group holds such as agree in what was read.
Agree(p, q) == IF "verify" \in switches THEN Blob(p) = Blob(q)
               ELSE Ends[Blob(p)] = Ends[Blob(q)]
AlikeIn(coll) == \A G \in coll : \A p, q \in G : Sound(p) /\ Sound(q) => Agree(p, q)

\* Two files that are the same have a path each in one of the groups.
MetIn(G, p, q) == Aliases(p) \cap G # {} /\ Aliases(q) \cap G # {}
SoundTwins(p, q) == Twins(p, q) /\ Sound(p) /\ Sound(q)
TwinsIn(coll) ==
  \A p, q \in FoundPath : SoundTwins(p, q) => \E G \in coll : MetIn(G, p, q)

FunnelTypes ==
  /\ disk \in [Original -> Blobs] /\ troubled \subseteq Original
  /\ buckets \subseteq SUBSET FoundPath /\ shown \subseteq SUBSET FoundPath
  /\ answers \subseteq SUBSET FoundPath
  /\ stage \notin {"idle", "done"} => DOMAIN sized = FoundPath

SizesRight == stage = "size" => \A p \in FoundPath : Sound(p) => sized[p] = Blob(p).size

TwinsKept ==
  ~stopped =>
    /\ stage \in {"distinct", "tierA", "quick", "full", "expose"} => TwinsIn(buckets)
    /\ stage = "convert" /\ "index_only" \notin switches => TwinsIn(shown)

FunnelInv ==
  /\ FunnelTypes /\ SizesRight
  /\ stage = "full" => "verify" \in switches
  /\ stage \notin {"convert", "done"} => shown = {}
  /\ stage # "done" => answers = {}
  /\ stage = "expose" => AlikeIn(buckets)
  /\ AlikeIn(shown) /\ AlikeIn(answers)
  /\ TwinsKept /\ TwinsShown

LEMMA TwoMembers ==
  ASSUME NEW S \in SUBSET FoundPath, NEW p \in S, NEW q \in S, p # q
  PROVE  Cardinality(S) > 1
<1>1. IsFiniteSet(S) /\ Cardinality(S) \in Nat
  BY FunnelAssumption, FS_Subset, FS_CardinalityType DEF FunnelAssumption
<1>2. Cardinality(S) # 0 BY <1>1, FS_EmptySet
<1>3. Cardinality(S) = 1 => \E x : S = {x} BY <1>1, FS_Singleton
<1> QED BY <1>1, <1>2, <1>3

(* Paths with the same hash are in one group. *)
LEMMA AlikesMeet ==
  ASSUME NEW ps \in SUBSET FoundPath, NEW hash,
         NEW p \in ps, NEW q \in ps, p # q, hash[p] = hash[q]
  PROVE  \E S \in Alikes(ps, hash) : p \in S /\ q \in S
<1> DEFINE S == {r \in ps : hash[r] = hash[p]}
<1>1. p \in S /\ q \in S /\ S \in SUBSET FoundPath OBVIOUS
<1>2. Cardinality(S) > 1 BY <1>1, TwoMembers
<1>3. S \in Alikes(ps, hash) BY <1>2 DEF Alikes
<1> QED BY <1>1, <1>3

LEMMA AlikesShare ==
  ASSUME NEW ps, NEW hash, NEW S \in Alikes(ps, hash)
  PROVE  S \subseteq ps /\ \A p, q \in S : hash[p] = hash[q]
BY DEF Alikes

LEMMA FileOf ==
  ASSUME NEW p \in FoundPath
  PROVE  ResolvesTo[p] \in Original /\ p \in Aliases(p)
BY DEF Original, Aliases

(* The sets with one path for each file keep one of each file. *)
LEMMA OnePerFileMeets ==
  ASSUME NEW B \in SUBSET FoundPath, NEW S \in OnePerFile(B),
         NEW p \in FoundPath, NEW q \in FoundPath, MetIn(B, p, q)
  PROVE  S \subseteq B /\ MetIn(S, p, q)
<1>1. S \subseteq B /\ \A r \in B : Cardinality({s \in S : ResolvesTo[s] = ResolvesTo[r]}) = 1
  BY DEF OnePerFile
<1>2. ASSUME NEW r \in FoundPath, Aliases(r) \cap B # {}
      PROVE  Aliases(r) \cap S # {}
  <2>1. PICK s \in B : ResolvesTo[s] = ResolvesTo[r] BY <1>2 DEF Aliases
  <2>2. {t \in S : ResolvesTo[t] = ResolvesTo[s]} # {} BY <1>1, FS_EmptySet
  <2> QED BY <1>1, <2>1, <2>2 DEF Aliases
<1> QED BY <1>1, <1>2 DEF MetIn

(* Two different files are two different paths. *)
LEMMA TwinsDiffer ==
  ASSUME NEW p \in FoundPath, NEW q \in FoundPath, Twins(p, q),
         NEW S \in SUBSET FoundPath, MetIn(S, p, q)
  PROVE  Cardinality(S) > 1
<1>1. PICK u \in Aliases(p), v \in Aliases(q) : u \in S /\ v \in S BY DEF MetIn
<1>2. u # v BY DEF Aliases, Twins
<1> QED BY <1>1, <1>2, TwoMembers

Readings == {Prefix, LongPrefix, Ends, Whole}

(* Twins have the same hash if their reads succeed. *)
LEMMA SameHash ==
  ASSUME FunnelTypes, NEW reading \in Readings,
         NEW ps \in SUBSET FoundPath, NEW bad,
         NEW u \in ps, NEW v \in ps, Twins(u, v), u \notin bad, v \notin bad
  PROVE  /\ u # v /\ Hashes(ps, reading, bad)[u] # <<>>
         /\ Hashes(ps, reading, bad)[u] = Hashes(ps, reading, bad)[v]
<1> DEFINE hash == Hashes(ps, reading, bad)
<1>1. Blob(v) = Blob(u) /\ Blob(u).size > 0 /\ u # v BY DEF Twins
<1>2. Blob(u) \in Blobs /\ Blob(u).size # 0
  BY <1>1, FileOf, FunnelAssumption DEF FunnelTypes, Blob, FunnelAssumption
<1>3. hash[u] = reading[Blob(u)] /\ hash[v] = reading[Blob(u)] BY <1>1, <1>2 DEF Hashes
<1>4. reading[Blob(u)] # <<>>
  <2>1. \A c \in Blobs : Prefix[c] # <<>> /\ LongPrefix[c] # <<>> /\ Ends[c] # <<>> /\ Whole[c] # <<>>
    BY DEF Prefix, LongPrefix, Ends, Whole
  <2> QED BY <1>2, <2>1 DEF Readings
<1> QED BY <1>1, <1>3, <1>4

(* The paths of twins are twins. *)
LEMMA AliasesOfTwins ==
  ASSUME NEW p \in FoundPath, NEW q \in FoundPath, Twins(p, q), NEW G, MetIn(G, p, q)
  PROVE  \E u, v \in G : u \in Aliases(p) /\ v \in Aliases(q) /\ Twins(u, v)
<1>1. PICK u, v \in G : u \in Aliases(p) /\ v \in Aliases(q) BY DEF MetIn
<1>2. Blob(u) = Blob(p) /\ Blob(v) = Blob(q) BY <1>1 DEF Aliases, Blob
<1> QED BY <1>1, <1>2 DEF Aliases, Twins

(* What a step leaves of the soundness of a path, and of what it holds. *)
StillSound == \A p \in FoundPath : Sound(p)' => Sound(p) /\ Blob(p)' = Blob(p)

LEMMA StillAlike ==
  ASSUME StillSound, switches' = switches,
         NEW coll \in SUBSET SUBSET FoundPath, AlikeIn(coll)
  PROVE  \A G \in coll : \A p, q \in G :
           Sound(p)' /\ Sound(q)' => IF "verify" \in switches' THEN Blob(p)' = Blob(q)'
                                     ELSE Ends[Blob(p)'] = Ends[Blob(q)']
BY DEF StillSound, AlikeIn, Agree

LEMMA StillTwins ==
  ASSUME StillSound, NEW p \in FoundPath, NEW q \in FoundPath, SoundTwins(p, q)'
  PROVE  SoundTwins(p, q)
BY DEF StillSound, SoundTwins, Twins

LEMMA SameSound ==
  ASSUME disk' = disk, troubled \subseteq troubled'
  PROVE  StillSound
BY DEF StillSound, Sound, Blob

(* The sizes are read, then put together. *)
LEMMA Begun ==
  ASSUME FunnelInv, NEW opts \in OptionSets, Begin(opts)
  PROVE  FunnelInv'
<1>1. /\ stage = "idle" /\ stage' = "size" /\ sized' = [p \in FoundPath |-> Blob(p).size]
      /\ UNCHANGED <<disk, buckets, stopped, shown, emitted, answers, troubled, mishaps>>
      /\ shown = {} /\ answers = {}
  BY DEF Begin, FunnelInv
<1>2. FunnelTypes' /\ SizesRight' /\ TwinsKept' /\ TwinsShown'
  BY <1>1 DEF FunnelInv, FunnelTypes, SizesRight, TwinsKept, TwinsShown, Blob
<1> QED BY <1>1, <1>2 DEF FunnelInv, AlikeIn

LEMMA GroupedBySize ==
  ASSUME FunnelInv, GroupBySize
  PROVE  FunnelInv'
<1>1. /\ stage = "size" /\ DOMAIN sized = FoundPath /\ shown = {} /\ answers = {}
      /\ UNCHANGED <<disk, switches, sized, stopped, shown, emitted, answers, troubled, mishaps>>
      /\ \/ stopped /\ buckets' = {} /\ stage' = "convert"
         \/ ~stopped /\ buckets' = Alikes(FoundPath, sized) /\ stage' = "distinct"
  BY DEF GroupBySize, FunnelInv, FunnelTypes
<1>2. FunnelTypes' BY <1>1, AlikesShare DEF FunnelInv, FunnelTypes
<1>3. CASE ~stopped
  <2> SUFFICES ASSUME NEW p \in FoundPath, NEW q \in FoundPath, SoundTwins(p, q)
               PROVE  \E G \in Alikes(FoundPath, sized) : MetIn(G, p, q)
    BY <1>1, <1>2, <1>3 DEF FunnelInv, AlikeIn, SizesRight, TwinsKept, TwinsShown, TwinsIn,
       SoundTwins, Twins, Sound, Blob
  <2>1. sized[p] = sized[q] /\ p # q BY <1>1 DEF FunnelInv, SizesRight, SoundTwins, Twins
  <2>2. PICK G \in Alikes(FoundPath, sized) : p \in G /\ q \in G BY <2>1, AlikesMeet
  <2> QED BY <2>2, FileOf DEF MetIn
<1>4. CASE stopped BY <1>1, <1>2, <1>4 DEF FunnelInv, AlikeIn, SizesRight, TwinsKept, TwinsShown
<1> QED BY <1>3, <1>4

(* Without aliases, each two twins still have a path each. *)
LEMMA AliasesDropped ==
  ASSUME FunnelInv, DropAliases
  PROVE  FunnelInv'
<1>1. /\ stage = "distinct" /\ DOMAIN sized = FoundPath /\ shown = {} /\ answers = {}
      /\ UNCHANGED <<disk, switches, sized, stopped, shown, emitted, answers, troubled, mishaps>>
      /\ stage' = IF "index_only" \in switches THEN "convert" ELSE "tierA"
  BY DEF DropAliases, FunnelInv, FunnelTypes
<1>2. CASE buckets' = buckets
  BY <1>1, <1>2 DEF FunnelInv, FunnelTypes, AlikeIn, SizesRight, TwinsKept, TwinsShown, TwinsIn,
     SoundTwins, Twins, Sound, Blob
<1>3. CASE buckets' # buckets
  <2>1. PICK left \in [buckets -> SUBSET FoundPath] :
          /\ \A B \in buckets : left[B] \in OnePerFile(B)
          /\ buckets' = {S \in {left[B] : B \in buckets} : Cardinality(S) > 1}
    BY <1>3 DEF DropAliases
  <2>2. FunnelTypes' BY <1>1, <2>1 DEF FunnelInv, FunnelTypes
  <2>3. ASSUME ~stopped, NEW p \in FoundPath, NEW q \in FoundPath, SoundTwins(p, q)
        PROVE  \E G \in buckets' : MetIn(G, p, q)
    <3>1. PICK B \in buckets : MetIn(B, p, q) BY <1>1, <2>3 DEF FunnelInv, TwinsKept, TwinsIn
    <3>2. B \in SUBSET FoundPath /\ left[B] \in SUBSET FoundPath BY <2>1 DEF FunnelInv, FunnelTypes
    <3>3. MetIn(left[B], p, q) BY <2>1, <3>1, <3>2, OnePerFileMeets
    <3>4. Cardinality(left[B]) > 1 BY <2>3, <3>2, <3>3, TwinsDiffer DEF SoundTwins
    <3> QED BY <2>1, <3>3, <3>4
  <2> QED BY <1>1, <2>2, <2>3 DEF FunnelInv, AlikeIn, SizesRight, TwinsKept, TwinsShown, TwinsIn,
       SoundTwins, Twins, Sound, Blob
<1> QED BY <1>2, <1>3

(* Tier A separates no twins whose prefixes it could read. *)
LEMMA TierASurvived ==
  ASSUME FunnelInv, TierA
  PROVE  FunnelInv'
<1>1. /\ stage = "tierA" /\ DOMAIN sized = FoundPath /\ shown = {} /\ answers = {}
      /\ stage' = "quick" /\ UNCHANGED <<disk, switches, sized, stopped, shown, emitted, answers>>
  BY DEF TierA, FunnelInv, FunnelTypes
<1>2. CASE UNCHANGED <<buckets, troubled, mishaps>>
  BY <1>1, <1>2 DEF FunnelInv, FunnelTypes, AlikeIn, SizesRight, TwinsKept, TwinsShown, TwinsIn,
     SoundTwins, Twins, Sound, Blob
<1>3. CASE ~UNCHANGED <<buckets, troubled, mishaps>>
  <2>1. PICK bad \in SUBSET Candidates :
          Failing(bad) /\ buckets' = {Survivors(B, bad) : B \in buckets} \ {{}}
    BY <1>3 DEF TierA
  <2>2. Candidates \subseteq FoundPath BY DEF FunnelInv, FunnelTypes, Candidates
  <2>3. troubled' = troubled \cup {ResolvesTo[p] : p \in bad} BY <2>1 DEF Failing
  <2>4. ASSUME NEW B \in buckets PROVE Survivors(B, bad) \subseteq B BY AlikesShare DEF Survivors
  <2>5. FunnelTypes' BY <1>1, <2>1, <2>2, <2>3, <2>4, FileOf DEF FunnelInv, FunnelTypes
  <2>6. StillSound BY <1>1, <2>3, SameSound
  <2>7. ASSUME ~stopped, NEW p \in FoundPath, NEW q \in FoundPath, SoundTwins(p, q)'
        PROVE  \E G \in buckets' : MetIn(G, p, q)
    <3>1. SoundTwins(p, q) BY <2>6, <2>7, StillTwins
    <3>2. PICK B \in buckets : MetIn(B, p, q) BY <1>1, <2>7, <3>1 DEF FunnelInv, TwinsKept, TwinsIn
    <3>3. PICK u, v \in B : u \in Aliases(p) /\ v \in Aliases(q) /\ Twins(u, v)
      BY <3>1, <3>2, AliasesOfTwins DEF SoundTwins
    <3>4. \A r \in B : ResolvesTo[r] \in {ResolvesTo[p], ResolvesTo[q]} => r \notin bad
      BY <2>3, <2>7 DEF SoundTwins, Sound
    <3>5. PICK reading \in {Prefix, LongPrefix} : Survivors(B, bad) = UNION Alikes(B, Hashes(B, reading, bad))
      BY DEF Survivors
    <3>6. B \in SUBSET FoundPath BY DEF FunnelInv, FunnelTypes
    <3>7. u # v /\ Hashes(B, reading, bad)[u] = Hashes(B, reading, bad)[v]
      <4>1. u \notin bad /\ v \notin bad BY <3>3, <3>4 DEF Aliases
      <4>2. FunnelTypes /\ reading \in Readings BY DEF FunnelInv, Readings
      <4> QED BY <3>3, <3>6, <4>1, <4>2, SameHash
    <3>8. u \in Survivors(B, bad) /\ v \in Survivors(B, bad) BY <3>3, <3>5, <3>6, <3>7, AlikesMeet
    <3> QED BY <2>1, <3>3, <3>8 DEF MetIn
  <2> QED
    BY <1>1, <2>5, <2>7 DEF FunnelInv, AlikeIn, SizesRight, TwinsKept, TwinsShown, TwinsIn, Aliases, MetIn
<1> QED BY <1>2, <1>3

(* A phase of hashes keeps such twins together, and whatever it puts
   together agrees in what it read. *)
LEMMA HashedPhase ==
  ASSUME FunnelInv, NEW reading \in {Ends, Whole}, HashPhase(reading), disk' = disk
  PROVE  /\ StillSound /\ troubled' \subseteq Original
         /\ buckets' \subseteq SUBSET FoundPath
         /\ stopped => stopped'
         /\ \A G \in buckets' : \A p, q \in G :
              Sound(p)' /\ Sound(q)' => reading[Blob(p)] = reading[Blob(q)]
         /\ ~stopped' /\ TwinsIn(buckets) =>
              \A p, q \in FoundPath : SoundTwins(p, q)' => \E G \in buckets' : MetIn(G, p, q)
<1>1. PICK bad \in SUBSET Candidates, late \in SUBSET Candidates :
        LET hash == Hashes(Candidates, reading, bad)
        IN  /\ Failing(bad)
            /\ CutShort(late, Candidates)
            /\ buckets' = Alikes({p \in Candidates \ late : hash[p] # <<>>}, hash)
  BY DEF HashPhase
<1> DEFINE hash == Hashes(Candidates, reading, bad)
           ps == {p \in Candidates \ late : hash[p] # <<>>}
<1>2. /\ buckets' = Alikes(ps, hash) /\ stopped' = (stopped \/ late # {})
      /\ troubled' = troubled \cup {ResolvesTo[p] : p \in bad}
  BY <1>1 DEF Failing, CutShort
<1>3. Candidates \subseteq FoundPath BY DEF FunnelInv, FunnelTypes, Candidates
<1>4. StillSound /\ troubled' \subseteq Original
  BY <1>2, <1>3, SameSound, FileOf DEF FunnelInv, FunnelTypes
<1>5. \A G \in buckets' : G \subseteq ps /\ \A p, q \in G : hash[p] = hash[q] BY <1>2, AlikesShare
<1>6. ASSUME NEW G \in buckets', NEW p \in G, NEW q \in G, Sound(p)', Sound(q)'
      PROVE  reading[Blob(p)] = reading[Blob(q)]
  <2>1. p \in Candidates /\ q \in Candidates /\ p \notin bad /\ q \notin bad
        /\ hash[p] # <<>> /\ hash[q] # <<>> /\ hash[p] = hash[q]
    BY <1>2, <1>5, <1>6 DEF Sound
  <2> QED BY <2>1 DEF Hashes
<1>7. ASSUME ~stopped', TwinsIn(buckets), NEW p \in FoundPath, NEW q \in FoundPath, SoundTwins(p, q)'
      PROVE  \E G \in buckets' : MetIn(G, p, q)
  <2>1. SoundTwins(p, q) /\ late = {} BY <1>2, <1>4, <1>7, StillTwins
  <2>2. PICK B \in buckets : MetIn(B, p, q) BY <1>7, <2>1 DEF TwinsIn
  <2>3. PICK u, v \in B : u \in Aliases(p) /\ v \in Aliases(q) /\ Twins(u, v)
    BY <2>1, <2>2, AliasesOfTwins DEF SoundTwins
  <2>4. u \in Candidates /\ v \in Candidates BY <2>3 DEF Candidates
  <2>5. \A r \in Candidates : ResolvesTo[r] \in {ResolvesTo[p], ResolvesTo[q]} => r \notin bad
    BY <1>2, <1>7 DEF SoundTwins, Sound
  <2>6. u # v /\ hash[u] # <<>> /\ hash[u] = hash[v]
    <3>1. u \notin bad /\ v \notin bad BY <2>3, <2>4, <2>5 DEF Aliases
    <3>2. FunnelTypes /\ reading \in Readings /\ Candidates \in SUBSET FoundPath
      BY <1>3 DEF FunnelInv, Readings
    <3> QED BY <2>3, <2>4, <3>1, <3>2, SameHash
  <2>7. u \in ps /\ v \in ps /\ ps \in SUBSET FoundPath BY <1>3, <2>1, <2>4, <2>6
  <2> HIDE DEF hash, ps
  <2>8. \E S \in Alikes(ps, hash) : u \in S /\ v \in S BY <2>6, <2>7, AlikesMeet
  <2> QED BY <1>2, <2>3, <2>8 DEF MetIn
<1> HIDE DEF hash, ps
<1>8. ps \subseteq FoundPath BY <1>3 DEF ps
<1> QED BY <1>2, <1>4, <1>5, <1>6, <1>7, <1>8

LEMMA QuickHashed ==
  ASSUME FunnelInv, QuickHash
  PROVE  FunnelInv'
<1>1. /\ stage = "quick" /\ DOMAIN sized = FoundPath /\ shown = {} /\ answers = {}
      /\ stage' = IF "verify" \in switches THEN "full" ELSE "expose"
      /\ UNCHANGED <<disk, switches, sized, shown, emitted, answers>>
      /\ HashPhase(Ends)
  BY DEF QuickHash, FunnelInv, FunnelTypes
<1>2. /\ StillSound /\ troubled' \subseteq Original
      /\ buckets' \subseteq SUBSET FoundPath
      /\ stopped => stopped'
      /\ \A G \in buckets' : \A p, q \in G :
           Sound(p)' /\ Sound(q)' => Ends[Blob(p)] = Ends[Blob(q)]
      /\ ~stopped' /\ TwinsIn(buckets) =>
           \A p, q \in FoundPath : SoundTwins(p, q)' => \E G \in buckets' : MetIn(G, p, q)
  BY <1>1, HashedPhase
<1>3. FunnelTypes' BY <1>1, <1>2 DEF FunnelInv, FunnelTypes
<1>4. TwinsKept' BY <1>1, <1>2 DEF FunnelInv, TwinsKept, TwinsIn, MetIn, Aliases
<1>5. stage' = "expose" => AlikeIn(buckets)' BY <1>1, <1>2 DEF AlikeIn, Agree, Blob
<1> QED BY <1>1, <1>3, <1>4, <1>5 DEF FunnelInv, AlikeIn, SizesRight, TwinsShown

LEMMA FullHashed ==
  ASSUME FunnelInv, FullHash
  PROVE  FunnelInv'
<1>1. /\ stage = "full" /\ "verify" \in switches /\ DOMAIN sized = FoundPath /\ shown = {} /\ answers = {}
      /\ stage' = "expose" /\ UNCHANGED <<disk, switches, sized, shown, emitted, answers>>
      /\ HashPhase(Whole)
  BY DEF FullHash, FunnelInv, FunnelTypes
<1>2. /\ StillSound /\ troubled' \subseteq Original
      /\ buckets' \subseteq SUBSET FoundPath
      /\ stopped => stopped'
      /\ \A G \in buckets' : \A p, q \in G :
           Sound(p)' /\ Sound(q)' => Whole[Blob(p)] = Whole[Blob(q)]
      /\ ~stopped' /\ TwinsIn(buckets) =>
           \A p, q \in FoundPath : SoundTwins(p, q)' => \E G \in buckets' : MetIn(G, p, q)
  BY <1>1, HashedPhase
<1>3. FunnelTypes' BY <1>1, <1>2 DEF FunnelInv, FunnelTypes
<1>4. TwinsKept' BY <1>1, <1>2 DEF FunnelInv, TwinsKept, TwinsIn, MetIn, Aliases
<1>5. AlikeIn(buckets)'
  <2> SUFFICES ASSUME NEW G \in buckets', NEW p \in G, NEW q \in G, Sound(p)', Sound(q)'
               PROVE  Blob(p)' = Blob(q)'
    BY <1>1 DEF AlikeIn, Agree
  <2>1. p \in FoundPath /\ q \in FoundPath /\ Whole[Blob(p)] = Whole[Blob(q)] BY <1>2
  <2>2. Blob(p) \in Blobs /\ Blob(q) \in Blobs BY <2>1, FileOf DEF Blob, FunnelInv, FunnelTypes
  <2>3. Blob(p) = Blob(q) BY <2>1, <2>2 DEF Whole
  <2> QED BY <1>1, <2>3 DEF Blob
<1> QED BY <1>1, <1>3, <1>4, <1>5 DEF FunnelInv, AlikeIn, SizesRight, TwinsShown

LEMMA Exposed ==
  ASSUME FunnelInv, Expose
  PROVE  FunnelInv'
<1>1. /\ stage = "expose" /\ stage' = "convert" /\ shown' = buckets /\ answers = {}
      /\ UNCHANGED <<disk, switches, sized, buckets, stopped, answers, troubled, mishaps>>
  BY DEF Expose, FunnelInv
<1>2. FunnelTypes' /\ SizesRight' /\ TwinsShown'
  BY <1>1 DEF FunnelInv, FunnelTypes, SizesRight, TwinsShown
<1>3. AlikeIn(shown)' /\ AlikeIn(answers)' BY <1>1 DEF FunnelInv, AlikeIn, Agree, Sound, Blob
<1>4. TwinsKept' BY <1>1 DEF FunnelInv, TwinsKept, TwinsIn, SoundTwins, Twins, Sound, Blob
<1> QED BY <1>1, <1>2, <1>3, <1>4 DEF FunnelInv

(* The conversion takes out files, and the groups of which too little is
   left: of twins that are not protected and not gone it takes neither. *)
LEMMA WasConverted ==
  ASSUME FunnelInv, Convert
  PROVE  FunnelInv'
<1>1. PICK gone \in SUBSET UNION shown, late \in SUBSET shown :
        /\ Failing(gone) /\ CutShort(late, shown) /\ answers' = Converted(shown \ late, gone)
  BY DEF Convert
<1>2. /\ stage = "convert" /\ stage' = "done"
      /\ UNCHANGED <<disk, switches, sized, buckets, shown, emitted>>
      /\ troubled' = troubled \cup {ResolvesTo[p] : p \in gone}
      /\ stopped' = (stopped \/ late # {}) /\ gone \subseteq FoundPath
      /\ shown \subseteq SUBSET FoundPath
  BY <1>1 DEF Convert, Failing, CutShort, FunnelInv, FunnelTypes
<1>3. StillSound BY <1>2, SameSound
<1>4. \A S \in answers' : \E B \in shown : S \subseteq B BY <1>1 DEF Converted
<1>5. FunnelTypes' BY <1>2, <1>4, FileOf DEF FunnelInv, FunnelTypes
<1>6. AlikeIn(shown)' /\ AlikeIn(answers)'
  <2>1. ASSUME NEW B \in shown, NEW p \in B, NEW q \in B, Sound(p)', Sound(q)'
        PROVE  Agree(p, q)'
    <3>1. Sound(p) /\ Sound(q) BY <1>2, <1>3, <2>1 DEF StillSound
    <3> QED BY <1>2, <2>1, <3>1 DEF FunnelInv, AlikeIn, Agree, Blob
  <2> QED BY <1>2, <1>4, <2>1 DEF AlikeIn
<1>7. TwinsShown'
  <2> SUFFICES ASSUME ~stopped', "index_only" \notin switches,
                      NEW p \in FoundPath, NEW q \in FoundPath, SoundTwins(p, q)',
                      (Aliases(p) \cup Aliases(q)) \cap Fenced = {}
               PROVE  \E G \in answers' : Aliases(p) \cap G # {} /\ Aliases(q) \cap G # {}
    BY <1>2 DEF TwinsShown, SoundTwins, Aliases
  <2>1. SoundTwins(p, q) /\ late = {} /\ ~stopped BY <1>2, <1>3, StillTwins
  <2>2. PICK B \in shown : MetIn(B, p, q) BY <1>2, <2>1 DEF FunnelInv, TwinsKept, TwinsIn
  <2>3. \A r \in gone : ResolvesTo[r] \notin {ResolvesTo[p], ResolvesTo[q]}
    BY <1>2 DEF SoundTwins, Sound
  <2> DEFINE S == B \ (Fenced \cup gone)
  <2>4. S \in SUBSET FoundPath /\ MetIn(S, p, q) BY <1>2, <2>2, <2>3 DEF MetIn, Aliases
  <2>5. Cardinality(S) > 1 BY <2>1, <2>4, TwinsDiffer DEF SoundTwins
  <2>6. S \in answers' BY <1>1, <2>1, <2>5 DEF Converted
  <2> QED BY <2>4, <2>6 DEF MetIn
<1> QED BY <1>2, <1>5, <1>6, <1>7 DEF FunnelInv, SizesRight, TwinsKept

(* Meanwhile: a cancel asks less of the scan, an edit concerns its file. *)
LEMMA Disturbed ==
  ASSUME FunnelInv, \/ CancelFunnel
                    \/ \E f \in Original, c \in Blobs : EditFile(f, c)
  PROVE  FunnelInv'
<1>1. /\ stage # "done" /\ UNCHANGED <<switches, sized, buckets, stage, shown, answers>>
      /\ stopped => stopped'
  BY DEF CancelFunnel, EditFile, Scanning
<1>2. StillSound /\ troubled' \subseteq Original /\ disk' \in [Original -> Blobs]
  <2>1. CASE CancelFunnel BY <2>1, SameSound DEF CancelFunnel, FunnelInv, FunnelTypes
  <2>2. ASSUME NEW f \in Original, NEW c \in Blobs, EditFile(f, c)
        PROVE  StillSound /\ troubled' \subseteq Original /\ disk' \in [Original -> Blobs]
    BY <2>2 DEF EditFile, StillSound, Sound, Blob, FunnelInv, FunnelTypes
  <2> QED BY <2>1, <2>2
<1>3. FunnelTypes' /\ TwinsShown' BY <1>1, <1>2 DEF FunnelInv, FunnelTypes, TwinsShown
<1>4. ASSUME NEW coll \in SUBSET SUBSET FoundPath, AlikeIn(coll)
      PROVE  \A G \in coll : \A p, q \in G : Sound(p)' /\ Sound(q)' => Agree(p, q)'
  BY <1>1, <1>2, <1>4, StillAlike DEF Agree
<1>5. /\ AlikeIn(shown)' /\ AlikeIn(answers)'
      /\ stage' = "expose" => AlikeIn(buckets)'
  BY <1>1, <1>4 DEF FunnelInv, FunnelTypes, AlikeIn
<1>6. SizesRight' BY <1>1, <1>2 DEF FunnelInv, SizesRight, StillSound
<1>7. \A p, q \in FoundPath : SoundTwins(p, q)' => SoundTwins(p, q) BY <1>2, StillTwins
<1>8. TwinsKept' BY <1>1, <1>7 DEF FunnelInv, TwinsKept, TwinsIn, MetIn, Aliases
<1> QED BY <1>1, <1>3, <1>5, <1>6, <1>8 DEF FunnelInv

(* Every exact duplicate and nothing else, for any files, aliases and
   settings, any number of edits, failed reads and cancels (FunnelExact). *)
THEOREM FunnelExactAlways == FunnelSpec => []FunnelExact
<1>1. FunnelInit => FunnelInv
  BY DEF FunnelInit, FunnelInv, FunnelTypes, SizesRight, AlikeIn, TwinsKept, TwinsShown
<1>2. FunnelInv /\ [FunnelNext]_funnelVars => FunnelInv'
  <2> SUFFICES ASSUME FunnelInv, [FunnelNext]_funnelVars PROVE FunnelInv' OBVIOUS
  <2>1. CASE \E opts \in OptionSets : Begin(opts) BY <2>1, Begun
  <2>2. CASE GroupBySize \/ DropAliases BY <2>2, GroupedBySize, AliasesDropped
  <2>3. CASE TierA BY <2>3, TierASurvived
  <2>4. CASE QuickHash \/ FullHash BY <2>4, QuickHashed, FullHashed
  <2>5. CASE Expose \/ Convert BY <2>5, Exposed, WasConverted
  <2>6. CASE CancelFunnel \/ \E f \in Original, c \in Blobs : EditFile(f, c) BY <2>6, Disturbed
  <2>7. CASE UNCHANGED funnelVars
    <3> USE <2>7 DEF funnelVars
    <3>1. /\ FunnelTypes' = FunnelTypes /\ SizesRight' = SizesRight /\ TwinsShown' = TwinsShown
          /\ AlikeIn(shown)' = AlikeIn(shown) /\ AlikeIn(answers)' = AlikeIn(answers)
          /\ AlikeIn(buckets)' = AlikeIn(buckets)
      BY DEF FunnelTypes, SizesRight, TwinsShown, AlikeIn, Agree, Twins, Sound, Blob
    <3>2. TwinsIn(shown)' = TwinsIn(shown) /\ TwinsIn(buckets)' = TwinsIn(buckets)
      BY DEF TwinsIn, SoundTwins, Twins, Sound, Blob, MetIn, Aliases
    <3> QED BY <3>1, <3>2 DEF FunnelInv, TwinsKept
  <2> QED BY <2>1, <2>2, <2>3, <2>4, <2>5, <2>6, <2>7 DEF FunnelNext
<1>3. FunnelInv => FunnelExact
  BY DEF FunnelInv, FunnelTypes, AlikeIn, Agree, FunnelExact, ShownAlike
<1> QED BY <1>1, <1>2, <1>3, PTL DEF FunnelSpec

------------------------------------------------------------------------------
(* The shell. *)

ShellKeys == ROUTE_KEYS \cup {"duplicates"}
Listables == SUBSET SUBSET File

ShellActions ==
  {SetActiveTab(k) : k \in ShellKeys} \cup {ScanCompleted(gs, m) : gs \in Listables, m \in ScanModes}
  \cup {ThemeChanged(t) : t \in {"light", "dark"}} \cup {SelectionChanged(fs) : fs \in SUBSET File}

Frames ==
  [at : {"navigate", "shown"}, key : ShellKeys] \cup [at : {"dispatch"}, action : ShellActions]
  \cup [at : {"listener", "sync"}, action : ShellActions, tab : ROUTE_KEYS, groups : Listables]
  \cup [at : {"record"}, groups : Listables] \cup [at : {"repaint"}]

ShellTypes ==
  /\ calls \in Seq(Frames)
  /\ {"active_tab", "groups", "scan_mode", "mode", "theme", "selected_files"} \subseteq DOMAIN state
  /\ state.groups \in Listables /\ state.active_tab \in VALID_MAIN_TAB_KEYS
  /\ state.scan_mode \in ScanModes
  /\ rail \in ROUTE_KEYS /\ asked \in ShellKeys \cup {"none"}
  /\ backend \in Listables /\ lastJson \in Listables
  /\ drawn \in Listables /\ results \in Listables /\ own \in BOOLEAN
  /\ snapshot \in {NoSnapshot} \cup {<<l>> : l \in Listables}

(* The two sides name one page, and the one that was asked for. *)
AtOne ==
  \/ rail = state.active_tab
  \/ rail = "dashboard" /\ state.active_tab = "review" /\ state.groups = NoGroups

Leads(k) == asked \notin {"none", "exclude"} => k = Destination(asked)

Settling == {"shown", "sync", "record", "repaint"}
Completes(f) == f.at \in {"dispatch", "listener", "sync"} /\ f.action.type = "ScanCompleted"

(* What the innermost call finds. *)
RailInv ==
  /\ calls = <<>> \/ Top.at \in Settling => AtOne /\ Leads(rail)
  /\ At("navigate") => (AtOne \/ Top.key = state.active_tab) /\ Leads(Destination(Top.key))
  /\ At("dispatch") \/ At("listener") =>
       CASE Top.action.type = "SetActiveTab" ->
              /\ Leads(rail)
              /\ IF Top.at = "dispatch" THEN Top.action.key = rail
                 ELSE rail \in {state.active_tab, "exclude"}
              /\ rail = "review" => state.groups # NoGroups
         [] Top.action.type = "ScanCompleted" ->
              /\ asked \in {"none", "review"}
              /\ asked = "review" => Top.action.groups # NoGroups
         [] OTHER -> AtOne /\ asked = "none"
  /\ At("listener") => /\ Top.tab = state.active_tab /\ Top.groups = state.groups
                       /\ Completes(Top) => /\ Top.tab = "review"
                                            /\ Top.action.groups = state.groups

(* What waits for it: the ends of calls, and the tab of a session that is
   opened. *)
OuterInv ==
  /\ \A i \in 2..Len(calls) :
       \/ calls[i].at \in Settling
       \/ /\ calls[i] = Dispatching(SetActiveTab("review")) /\ asked = "review"
          /\ IF Top.at = "dispatch" /\ Completes(Top) THEN Top.action.groups # NoGroups
             ELSE state.groups # NoGroups
  /\ At("dispatch") /\ Completes(Top) =>
       \A i \in 2..Len(calls) : calls[i].at \in {"record", "dispatch"}

(* What a page shows is up to date, or a call that waits will draw it. *)
Shows(i, key) == calls[i].at = "shown" /\ calls[i].key = key
Fills(i)      == calls[i].at \in {"listener", "sync"} /\ Completes(calls[i])
Repaints(i)   == calls[i].at = "repaint"

(* The review holds the store's groups, or what an apply or an undo made. *)
Matching == results = state.groups \/ own

WaitingInv ==
  \A i \in 1..Len(calls) :
    /\ calls[i].at = "sync" /\ Completes(calls[i]) => calls[i].groups = state.groups
    /\ Shows(i, "review") => state.groups # NoGroups

DrawnInv ==
  rail = "review" =>
    \/ Matching /\ (drawn = results \/ \E i \in 1..Len(calls) : Repaints(i))
    \/ \E i \in 1..Len(calls) : Shows(i, "review") \/ Fills(i)

ListedInv ==
  rail = "history" => listed = recorded \/ \E i \in 1..Len(calls) : Shows(i, "history")

(* What the pages are painted anew for is a theme or the review's marks: it
   moves nothing and fills nothing. *)
Quiet(f) ==
  /\ f.at \notin {"navigate", "shown"}
  /\ f.at \in {"dispatch", "listener", "sync"} =>
       f.action.type \in {"ThemeChanged", "FileSelectionChanged"}

RepaintInv ==
  (\E i \in 1..Len(calls) : Repaints(i)) => \A i \in 1..Len(calls) : Quiet(calls[i])

(* A scan that is to be recorded leads to the review or home. *)
RecordInv ==
  (\E i \in 1..Len(calls) : calls[i].at = "record") =>
    /\ Top.at = "navigate" => Top.key \in {"review", "dashboard"}
    /\ Top.at = "dispatch" /\ ~Completes(Top) => rail \in {"review", "dashboard"}
    /\ Top.at \in Settling \cup {"listener"} => state.active_tab \in {"review", "dashboard"}

PagesInv == WaitingInv /\ DrawnInv /\ ListedInv /\ RepaintInv /\ RecordInv

ShellInv == ShellTypes /\ RailInv /\ OuterInv /\ PagesInv

LEMMA ShellFrames ==
  /\ \A k \in ShellKeys : /\ Navigate(k) \in Frames /\ Navigate(k).at = "navigate"
                          /\ Navigate(k).key = k
                          /\ Shown(k) \in Frames /\ Shown(k).at = "shown" /\ Shown(k).key = k
  /\ \A act \in ShellActions :
       Dispatching(act) \in Frames /\ Dispatching(act).at = "dispatch"
         /\ Dispatching(act).action = act
  /\ \A gs \in Listables : Recording(gs) \in Frames /\ Recording(gs).at = "record"
  /\ Repainting \in Frames /\ Repainting.at = "repaint"
BY DEF Navigate, Shown, Dispatching, Recording, Repainting, Frames

LEMMA FrameParts ==
  ASSUME NEW f \in Frames
  PROVE  /\ f.at \in {"navigate", "dispatch", "listener"} \cup Settling
         /\ f.at \in {"navigate", "shown"} => f.key \in ShellKeys
         /\ f.at \in {"dispatch", "listener", "sync"} => f.action \in ShellActions
         /\ f.at \in {"listener", "sync"} => f.tab \in ROUTE_KEYS /\ f.groups \in Listables
         /\ f.at = "record" => f.groups \in Listables
BY DEF Frames, Settling

LEMMA ListenerFrame ==
  ASSUME NEW act \in ShellActions, NEW new, new.active_tab \in ROUTE_KEYS, new.groups \in Listables
  PROVE  /\ Listener(act, new) \in Frames /\ Listener(act, new).at = "listener"
         /\ Listener(act, new).action = act /\ Listener(act, new).tab = new.active_tab
         /\ Listener(act, new).groups = new.groups
BY DEF Listener, Frames

LEMMA SyncFrame ==
  ASSUME NEW f \in Frames, f.at = "listener"
  PROVE  /\ Syncing(f) \in Frames /\ Syncing(f).at = "sync"
         /\ Syncing(f).action = f.action /\ Syncing(f).tab = f.tab /\ Syncing(f).groups = f.groups
<1>1. f \in [at : {"listener", "sync"}, action : ShellActions, tab : ROUTE_KEYS, groups : Listables]
  BY DEF Frames
<1> QED BY <1>1 DEF Syncing, Frames

LEMMA ActionKinds ==
  ASSUME NEW act \in ShellActions
  PROVE  /\ act.type \in {"SetActiveTab", "ScanCompleted", "ThemeChanged", "FileSelectionChanged"}
         /\ act.type = "SetActiveTab" => act.key \in ShellKeys /\ act = SetActiveTab(act.key)
         /\ act.type = "ScanCompleted" => act.groups \in Listables /\ act.scan_mode \in ScanModes
BY DEF ShellActions, SetActiveTab, ScanCompleted, ThemeChanged, SelectionChanged

LEMMA ActionsMade ==
  /\ \A k \in ShellKeys : /\ SetActiveTab(k) \in ShellActions
                          /\ SetActiveTab(k).type = "SetActiveTab" /\ SetActiveTab(k).key = k
  /\ \A gs \in Listables, m \in ScanModes :
       /\ ScanCompleted(gs, m) \in ShellActions /\ ScanCompleted(gs, m).type = "ScanCompleted"
       /\ ScanCompleted(gs, m).groups = gs
  /\ \A t \in {"light", "dark"} :
       ThemeChanged(t) \in ShellActions /\ ThemeChanged(t).type = "ThemeChanged"
  /\ \A fs \in SUBSET File :
       SelectionChanged(fs) \in ShellActions /\ SelectionChanged(fs).type = "FileSelectionChanged"
<1>1. /\ \A k \in ShellKeys : SetActiveTab(k) \in ShellActions
      /\ \A gs \in Listables, m \in ScanModes : ScanCompleted(gs, m) \in ShellActions
      /\ \A t \in {"light", "dark"} : ThemeChanged(t) \in ShellActions
      /\ \A fs \in SUBSET File : SelectionChanged(fs) \in ShellActions
  <2>1. \A k \in ShellKeys : SetActiveTab(k) \in {SetActiveTab(j) : j \in ShellKeys} OBVIOUS
  <2>2. \A gs \in Listables, m \in ScanModes :
          ScanCompleted(gs, m) \in {ScanCompleted(hs, n) : hs \in Listables, n \in ScanModes}
    OBVIOUS
  <2>3. \A t \in {"light", "dark"} : ThemeChanged(t) \in {ThemeChanged(u) : u \in {"light", "dark"}}
    OBVIOUS
  <2>4. \A fs \in SUBSET File : SelectionChanged(fs) \in {SelectionChanged(es) : es \in SUBSET File}
    OBVIOUS
  <2> QED BY <2>1, <2>2, <2>3, <2>4 DEF ShellActions
<1> QED BY <1>1 DEF SetActiveTab, ScanCompleted, ThemeChanged, SelectionChanged

(* What the store makes of the shell's actions. *)
LEMMA ShellReduced ==
  ASSUME ShellTypes, NEW act \in ShellActions, NEW new, new = Reduce(state, act)
  PROVE  /\ {"active_tab", "groups", "scan_mode", "mode", "theme", "selected_files"} \subseteq DOMAIN new
         /\ new.groups = IF act.type = "ScanCompleted" THEN act.groups ELSE state.groups
         /\ new.active_tab = IF act.type = "ScanCompleted" THEN "review"
                             ELSE IF act.type = "SetActiveTab" /\ act.key \in VALID_MAIN_TAB_KEYS
                                  THEN act.key ELSE state.active_tab
         /\ new.scan_mode \in ScanModes
<1>1. CASE act.type = "SetActiveTab"
  <2>1. new = ReduceUi(state, act) BY <1>1 DEF Reduce, UiActions, ScanActions, HistoryActions
  <2> QED BY <1>1, <2>1 DEF ReduceUi, ShellTypes
<1>2. CASE act.type = "ThemeChanged"
  <2>1. new = ReduceUi(state, act) BY <1>2 DEF Reduce, UiActions, ScanActions, HistoryActions
  <2> QED BY <1>2, <2>1 DEF ReduceUi, ShellTypes
<1>3. CASE act.type = "FileSelectionChanged"
  <2>1. new = ReduceScan(state, act) BY <1>3 DEF Reduce, UiActions, ScanActions, HistoryActions
  <2>2. new = [state EXCEPT !.selected_files = act.file_ids] BY <1>3, <2>1 DEF ReduceScan
  <2> QED BY <1>3, <2>2 DEF ShellTypes
<1>4. CASE act.type = "ScanCompleted"
  <2>1. new = ReduceScan(state, act) BY <1>4 DEF Reduce, UiActions, ScanActions, HistoryActions
  <2>2. new = [ScanOver(state, FALSE) EXCEPT
                 !.mode = "results", !.groups = act.groups, !.scan_mode = act.scan_mode,
                 !.selected_group_id = NoGroup, !.active_tab = "review",
                 !.review_unlocked = TRUE, !.review_file_filter = "all",
                 !.selected_files = {}]
    BY <1>4, <2>1 DEF ReduceScan
  <2>3. DOMAIN ScanOver(state, FALSE) = DOMAIN state BY DEF ScanOver
  <2>4. act.scan_mode \in ScanModes BY <1>4, ActionKinds
  <2> QED BY <1>4, <2>2, <2>3, <2>4 DEF ShellTypes
<1> QED BY <1>1, <1>2, <1>3, <1>4, ActionKinds

------------------------------------------------------------------------------
(* The stack. *)

LEMMA StackTop ==
  ASSUME ShellTypes, calls # <<>>
  PROVE  /\ Len(calls) \in Nat \ {0} /\ Top = calls[1] /\ Top \in Frames /\ Tail(calls) \in Seq(Frames)
         /\ \A i \in 1..Len(calls) : calls[i] \in Frames
         /\ Len(Tail(calls)) = Len(calls) - 1
         /\ \A i \in 1..Len(Tail(calls)) : Tail(calls)[i] = calls[i + 1]
<1>1. calls \in Seq(Frames) BY DEF ShellTypes
<1>2. Head(calls) = calls[1] BY <1>1
<1>3. Len(calls) \in Nat \ {0} /\ \A i \in 1..Len(calls) : calls[i] \in Frames
  BY <1>1, EmptySeq, ElementOfSeq
<1> QED BY <1>1, <1>2, <1>3, HeadTailProperties DEF Top

LEMMA StackReturn ==
  ASSUME ShellTypes, calls # <<>>, Return
  PROVE  /\ calls' \in Seq(Frames) /\ Len(calls') = Len(calls) - 1
         /\ \A i \in 1..Len(calls') : i + 1 \in 2..Len(calls) /\ calls'[i] = calls[i + 1]
         /\ calls' # <<>> => 2 \in 2..Len(calls) /\ Head(calls') = calls[2]
<1>1. calls' = Tail(calls) BY DEF Return
<1>2. \A i \in 1..Len(calls') : i + 1 \in 2..Len(calls) BY <1>1, StackTop
<1>3. calls' \in Seq(Frames) BY <1>1, StackTop
<1>4. calls' # <<>> => Head(calls') = calls'[1] BY <1>3
<1>5. calls' # <<>> => Len(calls') \in Nat \ {0} BY <1>3, EmptySeq
<1> QED BY <1>1, <1>2, <1>4, <1>5, StackTop

LEMMA StackOne ==
  ASSUME ShellTypes, calls # <<>>, NEW f \in Frames, Then(<<f>>)
  PROVE  /\ calls' \in Seq(Frames) /\ calls' # <<>> /\ Len(calls') = Len(calls)
         /\ Head(calls') = f /\ calls'[1] = f
         /\ \A i \in 2..Len(calls') : calls'[i] = calls[i]
<1>1. calls' = <<f>> \o Tail(calls) /\ <<f>> \in Seq(Frames) BY DEF Then
<1> QED BY <1>1, StackTop, ConcatProperties

LEMMA StackTwo ==
  ASSUME ShellTypes, calls # <<>>, NEW f \in Frames, NEW g \in Frames, Then(<<f, g>>)
  PROVE  /\ calls' \in Seq(Frames) /\ calls' # <<>> /\ Len(calls') = Len(calls) + 1
         /\ Head(calls') = f /\ calls'[1] = f /\ calls'[2] = g
         /\ \A i \in 3..Len(calls') : i - 1 \in 2..Len(calls) /\ calls'[i] = calls[i - 1]
         /\ \A i \in 2..Len(calls) : i + 1 \in 3..Len(calls') /\ calls'[i + 1] = calls[i]
<1>1. calls' = <<f, g>> \o Tail(calls) /\ <<f, g>> \in Seq(Frames) BY DEF Then
<1> QED BY <1>1, StackTop, ConcatProperties

LEMMA Destinations ==
  ASSUME NEW k \in ShellKeys
  PROVE  /\ Destination(k) \in ROUTE_KEYS
         /\ Destination(k) = "review" => state.groups # NoGroups
         /\ Destination(k) = "exclude" => k = "exclude"
         /\ k \in {"review", "dashboard"} => Destination(k) \in {"review", "dashboard"}
         /\ k = "review" /\ state.groups # NoGroups => Destination(k) = "review"
         /\ Destination(k) \in {k, "review", "dashboard"}
         /\ Destination(k) = "dashboard" /\ k # "dashboard" => state.groups = NoGroups
BY DEF Destination, ShellKeys, ROUTE_KEYS

(* A call is over: its caller goes on where the rail is right. *)
LEMMA CallResumed ==
  ASSUME ShellInv, calls # <<>>, Return, UNCHANGED <<state, rail, asked>>, AtOne, Leads(rail),
         Top.at \in Settling \cup {"navigate"}
  PROVE  /\ RailInv' /\ OuterInv'
         /\ calls' # <<>> /\ Head(calls').at \notin Settling =>
              /\ Head(calls') = Dispatching(SetActiveTab("review"))
              /\ rail = "review" /\ state.groups # NoGroups
<1>1. /\ AtOne' /\ Leads(rail)' /\ state' = state /\ rail' = rail /\ asked' = asked
  BY DEF AtOne, Leads, Destination
<1>2. /\ calls' \in Seq(Frames) /\ Len(calls') = Len(calls) - 1 /\ Len(calls) \in Nat
      /\ \A i \in 1..Len(calls') : i + 1 \in 2..Len(calls) /\ calls'[i] = calls[i + 1]
      /\ calls' # <<>> => 2 \in 2..Len(calls) /\ Head(calls') = calls[2]
  BY StackReturn, StackTop DEF ShellInv
<1>3. \A i \in 2..Len(calls) :
        \/ calls[i].at \in Settling
        \/ /\ calls[i] = Dispatching(SetActiveTab("review")) /\ asked = "review"
           /\ state.groups # NoGroups
  BY DEF ShellInv, OuterInv, Settling
<1>4. asked = "review" /\ state.groups # NoGroups => rail = "review" BY DEF Leads, Destination
<1>5. /\ Dispatching(SetActiveTab("review")).at = "dispatch"
      /\ Dispatching(SetActiveTab("review")).action.type = "SetActiveTab"
      /\ Dispatching(SetActiveTab("review")).action.key = "review"
  BY DEF Dispatching, SetActiveTab
<1>6. ASSUME calls' # <<>>
      PROVE  \/ Head(calls').at \in Settling
             \/ /\ Head(calls') = Dispatching(SetActiveTab("review"))
                /\ rail = "review" /\ state.groups # NoGroups
  BY <1>2, <1>3, <1>4, <1>6
<1>7. RailInv' BY <1>1, <1>5, <1>6 DEF RailInv, At, Top, Settling
<1>8. OuterInv'
  <2>1. ~(At("dispatch")' /\ Completes(Top)') BY <1>5, <1>6 DEF At, Top, Settling, Completes
  <2>2. \A i \in 2..Len(calls') :
          \/ calls'[i].at \in Settling
          \/ /\ calls'[i] = Dispatching(SetActiveTab("review")) /\ asked = "review"
             /\ state.groups # NoGroups
    BY <1>2, <1>3
  <2>3. calls # <<>> /\ Len(calls') >= 2 => calls' # <<>> BY <1>2, EmptySeq
  <2> QED BY <1>1, <2>1, <2>2, <2>3 DEF OuterInv, At, Top, Completes
<1> QED BY <1>6, <1>7, <1>8

(* What waits in the stack for a return is one place nearer. *)
LEMMA ReturnWaits ==
  ASSUME ShellTypes, calls # <<>>, Return
  PROVE  /\ \A key : (\E i \in 1..Len(calls) : Shows(i, key))
                      => Shows(1, key) \/ \E i \in 1..Len(calls') : Shows(i, key)'
         /\ (\E i \in 1..Len(calls) : Fills(i)) => Fills(1) \/ \E i \in 1..Len(calls') : Fills(i)'
         /\ (\E i \in 1..Len(calls) : Repaints(i))
              => Repaints(1) \/ \E i \in 1..Len(calls') : Repaints(i)'
<1>1. /\ Len(calls') = Len(calls) - 1 /\ Len(calls) \in Nat
      /\ \A i \in 1..Len(calls') : calls'[i] = calls[i + 1]
  BY StackReturn, StackTop
<1>2. \A i \in 1..Len(calls) : i = 1 \/ (i - 1 \in 1..Len(calls') /\ calls'[i - 1] = calls[i])
  BY <1>1
<1> QED BY <1>2 DEF Shows, Fills, Repaints, Completes

(* The pages, when a call is over: what it was to draw is drawn. *)
LEMMA ResumedPages ==
  ASSUME ShellInv, calls # <<>>, Return, UNCHANGED <<state, rail, asked>>, AtOne, Leads(rail),
         Top.at \in Settling \cup {"navigate"},
         Top.at = "navigate" => Top.key = state.active_tab \/ Destination(Top.key) = rail,
         rail = "review" => \/ drawn' = results' /\ (results' = state.groups \/ own')
                            \/ /\ UNCHANGED <<results, own, drawn>>
                               /\ ~Shows(1, "review") /\ ~Fills(1) /\ ~Repaints(1),
         rail = "history" => \/ listed' = recorded'
                             \/ UNCHANGED <<listed, recorded>> /\ ~Shows(1, "history")
  PROVE  PagesInv'
<1>1. /\ calls' \in Seq(Frames) /\ Len(calls') = Len(calls) - 1 /\ Len(calls) \in Nat
      /\ \A i \in 1..Len(calls') : i + 1 \in 1..Len(calls) /\ calls'[i] = calls[i + 1]
      /\ \A i \in 1..Len(calls') : calls' # <<>>
  <2>1. \A i \in 1..Len(calls') : calls' # <<>> BY StackReturn, EmptySeq DEF ShellInv
  <2> QED BY <2>1, StackReturn, StackTop DEF ShellInv
<1>2. state' = state /\ rail' = rail OBVIOUS
<1>3. calls' # <<>> /\ Head(calls').at \notin Settling =>
        /\ Head(calls').at = "dispatch" /\ Head(calls').action.type = "SetActiveTab"
        /\ rail = "review"
  BY CallResumed DEF Dispatching, SetActiveTab
<1>4. ASSUME NEW i \in 1..Len(calls'), calls'[i].at = "record"
      PROVE  rail \in {"review", "dashboard"} /\ state.active_tab \in {"review", "dashboard"}
  <2>1. \E j \in 1..Len(calls) : calls[j].at = "record" BY <1>1, <1>4
  <2>2. CASE Top.at = "navigate"
    <3>1. Top.key \in {"review", "dashboard"} BY <2>1, <2>2 DEF ShellInv, PagesInv, RecordInv
    <3>2. rail \in {"review", "dashboard"} \/ state.active_tab \in {"review", "dashboard"}
      BY <2>2, <3>1 DEF Destination
    <3> QED BY <3>2 DEF AtOne
  <2>3. CASE Top.at \in Settling
    <3>1. state.active_tab \in {"review", "dashboard"}
      BY <2>1, <2>3 DEF ShellInv, PagesInv, RecordInv
    <3> QED BY <3>1 DEF AtOne
  <2> QED BY <2>2, <2>3
<1>5. RepaintInv' BY <1>1 DEF ShellInv, PagesInv, RepaintInv, Repaints, Quiet
<1>6. WaitingInv'
  <2>1. \A j \in 1..Len(calls) :
          /\ calls[j].at = "sync" /\ Completes(calls[j]) => calls[j].groups = state.groups
          /\ calls[j].at = "shown" /\ calls[j].key = "review" => state.groups # NoGroups
    BY DEF ShellInv, PagesInv, WaitingInv, Shows
  <2> QED BY <1>1, <1>2, <2>1 DEF WaitingInv, Shows
<1>7. DrawnInv'
  <2>1. CASE rail = "review" => drawn' = results' /\ (results' = state.groups \/ own')
    BY <1>2, <2>1 DEF DrawnInv, Matching
  <2>2. CASE /\ rail = "review" /\ UNCHANGED <<results, own, drawn>>
             /\ ~Shows(1, "review") /\ ~Fills(1) /\ ~Repaints(1)
    <3>1. \/ Matching /\ (drawn = results \/ \E i \in 1..Len(calls') : Repaints(i)')
          \/ \E i \in 1..Len(calls') : Shows(i, "review")' \/ Fills(i)'
      BY <2>2, ReturnWaits DEF ShellInv, PagesInv, DrawnInv
    <3> QED BY <1>2, <2>2, <3>1 DEF DrawnInv, Matching
  <2> QED BY <2>1, <2>2
<1>8. ListedInv'
  <2> SUFFICES ASSUME rail = "history", UNCHANGED <<listed, recorded>>, listed # recorded, ~Shows(1, "history")
               PROVE  \E i \in 1..Len(calls') : Shows(i, "history")'
    BY <1>2 DEF ListedInv
  <2> QED BY ReturnWaits DEF ShellInv, PagesInv, ListedInv
<1>9. RecordInv' BY <1>1, <1>2, <1>3, <1>4 DEF RecordInv, Top, Settling
<1> QED BY <1>5, <1>6, <1>7, <1>8, <1>9 DEF PagesInv

------------------------------------------------------------------------------
(* The calls. *)

LEMMA TopFrame ==
  ASSUME ShellInv, calls # <<>>
  PROVE  /\ ShellTypes /\ Top \in Frames /\ Top = calls[1] /\ 1 \in 1..Len(calls) /\ Len(calls) \in Nat
         /\ Top.at \in {"navigate", "dispatch", "listener"} \cup Settling
         /\ \A place : At(place) <=> Top.at = place
<1>1. ShellTypes BY DEF ShellInv
<1>2. Top \in Frames /\ Top = calls[1] /\ Len(calls) \in Nat \ {0} BY <1>1, StackTop
<1> QED BY <1>1, <1>2, FrameParts DEF At, Top

LEMMA NavigateKeeps ==
  ASSUME ShellInv, NavigateTo
  PROVE  ShellInv'
<1> DEFINE dest == Destination(Top.key)
<1>1. calls # <<>> /\ Top.at = "navigate" /\ UNCHANGED <<state, asked, pageVars, diskVars, scanVars>>
  BY DEF NavigateTo, At, Top
<1>2. /\ ShellTypes /\ Top \in Frames /\ Top = calls[1] /\ Top.key \in ShellKeys /\ At("navigate")
  BY <1>1, TopFrame, FrameParts
<1>3. dest \in ROUTE_KEYS /\ dest \in ShellKeys /\ (dest = "review" => state.groups # NoGroups)
      /\ (Top.key \in {"review", "dashboard"} => dest \in {"review", "dashboard"})
  BY <1>2, Destinations DEF ShellKeys
<1>4. AtOne \/ Top.key = state.active_tab BY <1>2 DEF ShellInv, RailInv
<1>5. Leads(dest) BY <1>2 DEF ShellInv, RailInv
<1>6. CASE dest = rail
  <2>1. Return /\ rail' = rail BY <1>6 DEF NavigateTo
  <2>2. AtOne BY <1>2, <1>4, <1>6 DEF AtOne, Destination, ShellTypes, VALID_MAIN_TAB_KEYS
  <2>3. Leads(rail) BY <1>5, <1>6
  <2>4. ShellTypes'
    BY <1>1, <1>2, <2>1, StackReturn DEF ShellTypes, pageVars, reviewVars, diskVars, scanVars
  <2>5. RailInv' /\ OuterInv' BY <1>1, <2>1, <2>2, <2>3, CallResumed
  <2>6. ~Shows(1, "review") /\ ~Shows(1, "history") /\ ~Fills(1) /\ ~Repaints(1)
    BY <1>1, <1>2 DEF Shows, Fills, Repaints
  <2>7. PagesInv'
    BY <1>1, <1>6, <2>1, <2>2, <2>3, <2>6, ResumedPages DEF pageVars, reviewVars, diskVars
  <2> QED BY <2>4, <2>5, <2>7 DEF ShellInv
<1>7. CASE dest # rail
  <2> DEFINE f == Dispatching(SetActiveTab(dest))
             g == Shown(dest)
  <2>1. rail' = dest /\ Then(<<f, g>>) BY <1>7 DEF NavigateTo
  <2>2. /\ f \in Frames /\ f.at = "dispatch" /\ f.action.type = "SetActiveTab" /\ f.action.key = dest
        /\ ~Completes(f)
        /\ g \in Frames /\ g.at = "shown" /\ g.key = dest
    BY <1>3, ShellFrames, ActionsMade DEF Completes
  <2> HIDE DEF f, g
  <2>3. /\ calls' \in Seq(Frames) /\ calls' # <<>> /\ Len(calls') = Len(calls) + 1 /\ Len(calls) \in Nat
        /\ Head(calls') = f /\ calls'[1] = f /\ calls'[2] = g
        /\ \A i \in 3..Len(calls') : i - 1 \in 2..Len(calls) /\ calls'[i] = calls[i - 1]
    BY <1>1, <1>2, <2>1, <2>2, StackTwo, StackTop
  <2>4. 2 \in 1..Len(calls') BY <1>1, <1>2, <2>3, StackTop
  <2>5. \A i \in 1..Len(calls') :
          \/ calls'[i] = f \/ calls'[i] = g
          \/ i - 1 \in 1..Len(calls) /\ calls'[i] = calls[i - 1]
    BY <2>3
  <2>6. ShellTypes'
    BY <1>1, <1>2, <1>3, <2>1, <2>3 DEF ShellTypes, pageVars, reviewVars, diskVars, scanVars
  <2>7. RailInv'
    BY <1>1, <1>3, <1>5, <2>1, <2>2, <2>3 DEF RailInv, At, Top, Settling, Leads, Destination
  <2>8. OuterInv'
    <3>1. \A j \in 2..Len(calls) :
            \/ calls[j].at \in Settling
            \/ /\ calls[j] = Dispatching(SetActiveTab("review")) /\ asked = "review"
               /\ state.groups # NoGroups
      BY <1>1 DEF ShellInv, OuterInv
    <3>2. \A i \in 2..Len(calls') :
            \/ calls'[i].at \in Settling
            \/ /\ calls'[i] = Dispatching(SetActiveTab("review")) /\ asked = "review"
               /\ state.groups # NoGroups
      BY <2>2, <2>3, <3>1 DEF Settling
    <3> QED BY <1>1, <2>2, <2>3, <3>2 DEF OuterInv, At, Top
  <2>9. WaitingInv'
    <3>1. \A j \in 1..Len(calls) :
            /\ calls[j].at = "sync" /\ Completes(calls[j]) => calls[j].groups = state.groups
            /\ calls[j].at = "shown" /\ calls[j].key = "review" => state.groups # NoGroups
      BY DEF ShellInv, PagesInv, WaitingInv, Shows
    <3>2. \A i \in 1..Len(calls') :
            /\ calls'[i].at = "sync" /\ Completes(calls'[i]) => calls'[i].groups = state.groups
            /\ calls'[i].at = "shown" /\ calls'[i].key = "review" => state.groups # NoGroups
      BY <1>3, <2>2, <2>3, <2>5, <3>1
    <3> QED BY <1>1, <3>2 DEF WaitingInv, Shows, Completes
  <2>10. DrawnInv' /\ ListedInv' BY <2>1, <2>2, <2>3, <2>4 DEF DrawnInv, ListedInv, Shows
  <2>11. RepaintInv'
    <3>1. \A j \in 1..Len(calls) : ~Repaints(j)
      BY <1>1, TopFrame DEF ShellInv, PagesInv, RepaintInv, Quiet
    <3> QED BY <2>2, <2>3, <2>5, <3>1 DEF RepaintInv, Repaints
  <2>12. RecordInv'
    <3>1. (\E j \in 1..Len(calls) : calls[j].at = "record") => dest \in {"review", "dashboard"}
      BY <1>1, <1>3 DEF ShellInv, PagesInv, RecordInv
    <3>2. (\E i \in 1..Len(calls') : calls'[i].at = "record") => \E j \in 1..Len(calls) : calls[j].at = "record"
      BY <2>2, <2>3, <2>5
    <3> QED BY <2>1, <2>2, <2>3, <3>1, <3>2 DEF RecordInv, Top, Settling
  <2> QED BY <2>6, <2>7, <2>8, <2>9, <2>10, <2>11, <2>12 DEF ShellInv, PagesInv
<1> QED BY <1>6, <1>7

LEMMA DispatchKeeps ==
  ASSUME ShellInv, Dispatch
  PROVE  ShellInv'
<1> DEFINE act == Top.action
           f   == Listener(act, state')
<1>1. /\ calls # <<>> /\ Top.at = "dispatch" /\ state' = Reduce(state, act) /\ Then(<<f>>)
      /\ UNCHANGED <<rail, asked, paused, pageVars, diskVars, scanVars>>
  BY DEF Dispatch, At, Top
<1>2. ShellTypes /\ Top \in Frames /\ Top = calls[1] /\ act \in ShellActions /\ At("dispatch")
  BY <1>1, TopFrame, FrameParts
<1>3. /\ act.type \in {"SetActiveTab", "ScanCompleted", "ThemeChanged", "FileSelectionChanged"}
      /\ act.type = "SetActiveTab" => act.key \in ShellKeys
      /\ act.type = "ScanCompleted" => act.groups \in Listables
  BY <1>2, ActionKinds
<1>4. /\ {"active_tab", "groups", "scan_mode", "mode", "theme", "selected_files"} \subseteq DOMAIN state'
      /\ state'.groups = IF act.type = "ScanCompleted" THEN act.groups ELSE state.groups
      /\ state'.active_tab = IF act.type = "ScanCompleted" THEN "review"
                             ELSE IF act.type = "SetActiveTab" /\ act.key \in VALID_MAIN_TAB_KEYS
                                  THEN act.key ELSE state.active_tab
      /\ state'.scan_mode \in ScanModes
  BY <1>1, <1>2, ShellReduced
<1>5. state'.groups \in Listables /\ state'.active_tab \in VALID_MAIN_TAB_KEYS /\ state'.active_tab \in ROUTE_KEYS
  BY <1>2, <1>3, <1>4 DEF ShellTypes, VALID_MAIN_TAB_KEYS, ROUTE_KEYS
<1>6. /\ f \in Frames /\ f.at = "listener" /\ f.action = act /\ f.tab = state'.active_tab
      /\ f.groups = state'.groups
  BY <1>2, <1>5, ListenerFrame
<1> HIDE DEF f
<1>7. /\ calls' \in Seq(Frames) /\ calls' # <<>> /\ Len(calls') = Len(calls) /\ Len(calls) \in Nat
      /\ Head(calls') = f /\ calls'[1] = f /\ \A i \in 2..Len(calls') : calls'[i] = calls[i]
  BY <1>1, <1>2, <1>6, StackOne, StackTop
<1>8. 1 \in 1..Len(calls') /\ 1 \in 1..Len(calls) BY <1>1, <1>2, <1>7, StackTop
<1>9. ShellTypes'
  BY <1>1, <1>2, <1>4, <1>5, <1>7 DEF ShellTypes, pageVars, reviewVars, diskVars, scanVars
<1>10. Completes(Top) <=> act.type = "ScanCompleted" BY <1>1 DEF Completes
<1>11. CASE act.type = "ScanCompleted"
  <2>1. asked \in {"none", "review"} /\ (asked = "review" => act.groups # NoGroups)
    BY <1>2, <1>11 DEF ShellInv, RailInv
  <2>2. RailInv' BY <1>1, <1>4, <1>6, <1>7, <1>11, <2>1 DEF RailInv, At, Top, Settling, Completes
  <2>3. \A i \in 2..Len(calls) :
          /\ calls[i].at \in {"record", "dispatch"}
          /\ \/ calls[i].at \in Settling
             \/ /\ calls[i] = Dispatching(SetActiveTab("review")) /\ asked = "review"
                /\ act.groups # NoGroups
    BY <1>1, <1>2, <1>10, <1>11 DEF ShellInv, OuterInv
  <2>4. OuterInv' BY <1>1, <1>4, <1>6, <1>7, <1>11, <2>3 DEF OuterInv, At, Top
  <2>5. Fills(1)' BY <1>6, <1>7, <1>11 DEF Fills, Completes
  <2>6. WaitingInv' /\ DrawnInv' BY <1>6, <1>7, <1>8, <2>3, <2>5 DEF WaitingInv, DrawnInv, Shows
  <2>7. ListedInv'
    <3>1. rail = "history" => listed = recorded
      BY <1>1, <1>2, <2>3 DEF ShellInv, PagesInv, ListedInv, Shows
    <3> QED BY <1>1, <3>1 DEF ListedInv, pageVars, reviewVars, diskVars
  <2>8. RepaintInv'
    <3>1. \A i \in 1..Len(calls') : calls'[i].at # "repaint" BY <1>6, <1>7, <2>3
    <3> QED BY <3>1 DEF RepaintInv, Repaints
  <2>9. RecordInv' BY <1>4, <1>6, <1>7, <1>11 DEF RecordInv, Top
  <2> QED BY <1>9, <2>2, <2>4, <2>6, <2>7, <2>8, <2>9 DEF ShellInv, PagesInv
<1>12. CASE act.type # "ScanCompleted"
  <2>1. state'.groups = state.groups BY <1>4, <1>12
  <2>2. RailInv'
    <3>1. CASE act.type = "SetActiveTab"
      <4>1. Leads(rail) /\ act.key = rail /\ (rail = "review" => state.groups # NoGroups)
        BY <1>1, <1>2, <3>1 DEF ShellInv, RailInv
      <4>2. Leads(rail)' BY <1>1, <2>1, <4>1 DEF Leads, Destination
      <4>3. rail \in {state'.active_tab, "exclude"}
        BY <1>2, <1>4, <3>1, <4>1 DEF ShellTypes, ROUTE_KEYS, VALID_MAIN_TAB_KEYS
      <4> QED
        BY <1>1, <1>6, <1>7, <2>1, <3>1, <4>1, <4>2, <4>3 DEF RailInv, At, Top, Settling, Completes
    <3>2. CASE act.type # "SetActiveTab"
      <4>1. AtOne /\ asked = "none" BY <1>2, <1>12, <3>2 DEF ShellInv, RailInv
      <4>2. AtOne' BY <1>1, <1>4, <1>12, <3>2, <4>1 DEF AtOne
      <4> QED BY <1>1, <1>6, <1>7, <1>12, <3>2, <4>1, <4>2 DEF RailInv, At, Top, Settling, Completes
    <3> QED BY <3>1, <3>2
  <2>3. OuterInv'
    <3>1. \A i \in 2..Len(calls) :
            \/ calls[i].at \in Settling
            \/ /\ calls[i] = Dispatching(SetActiveTab("review")) /\ asked = "review"
               /\ state.groups # NoGroups
      BY <1>10, <1>12 DEF ShellInv, OuterInv
    <3> QED BY <1>1, <1>6, <1>7, <2>1, <3>1 DEF OuterInv, At, Top
  <2>4. \A i \in 1..Len(calls') : i = 1 \/ calls'[i] = calls[i] BY <1>7
  <2>5. WaitingInv' BY <1>6, <1>7, <2>1, <2>4 DEF ShellInv, PagesInv, WaitingInv, Shows, Completes
  <2>6. ASSUME NEW i \in 1..Len(calls) PROVE /\ \A key : Shows(i, key) => Shows(i, key)'
                                             /\ ~Fills(1) /\ (Fills(i) => Fills(i)')
                                             /\ Repaints(i) => Repaints(i)'
    BY <1>1, <1>2, <1>7, <2>4 DEF Shows, Fills, Repaints, Completes
  <2>7. DrawnInv' /\ ListedInv'
    <3>1. rail' = rail /\ results' = results /\ own' = own /\ drawn' = drawn /\ listed' = listed
          /\ recorded' = recorded
      BY <1>1 DEF pageVars, reviewVars, diskVars
    <3>2. DrawnInv' BY <1>7, <2>1, <2>6, <3>1 DEF ShellInv, PagesInv, DrawnInv, Matching
    <3>3. ListedInv' BY <1>7, <2>6, <3>1 DEF ShellInv, PagesInv, ListedInv
    <3> QED BY <3>2, <3>3
  <2>8. RepaintInv'
    <3>1. ASSUME NEW i \in 1..Len(calls'), Repaints(i)' PROVE \A j \in 1..Len(calls') : Quiet(calls'[j])
      <4>1. Repaints(i) /\ i \in 1..Len(calls) BY <1>6, <1>7, <2>4, <3>1 DEF Repaints
      <4>2. \A j \in 1..Len(calls) : Quiet(calls[j]) BY <4>1 DEF ShellInv, PagesInv, RepaintInv
      <4>3. Quiet(f) BY <1>1, <1>2, <1>6, <1>8, <4>2 DEF Quiet
      <4> QED BY <1>7, <2>4, <4>2, <4>3
    <3> QED BY <3>1 DEF RepaintInv, Quiet
  <2>9. RecordInv'
    <3> SUFFICES ASSUME NEW i \in 1..Len(calls'), calls'[i].at = "record"
                 PROVE  state'.active_tab \in {"review", "dashboard"}
      BY <1>6, <1>7 DEF RecordInv, Top
    <3>1. rail \in {"review", "dashboard"}
      BY <1>1, <1>6, <1>7, <1>10, <1>12, <2>4 DEF ShellInv, PagesInv, RecordInv
    <3>2. CASE act.type = "SetActiveTab"
      BY <1>1, <1>2, <1>4, <3>1, <3>2 DEF ShellInv, RailInv, VALID_MAIN_TAB_KEYS
    <3>3. CASE act.type # "SetActiveTab"
      BY <1>2, <1>4, <1>12, <3>1, <3>3 DEF ShellInv, RailInv, AtOne
    <3> QED BY <3>2, <3>3
  <2> QED BY <1>9, <2>2, <2>3, <2>5, <2>7, <2>8, <2>9 DEF ShellInv, PagesInv
<1> QED BY <1>11, <1>12

LEMMA ListenKeeps ==
  ASSUME ShellInv, Listen
  PROVE  ShellInv'
<1> DEFINE act == Top.action
           g   == Syncing(Top)
<1>1. /\ calls # <<>> /\ Top.at = "listener"
      /\ UNCHANGED <<state, rail, asked, paused, pageVars, diskVars, scanVars>>
  BY DEF Listen, At, Top
<1>2. /\ ShellTypes /\ Top \in Frames /\ Top = calls[1] /\ act \in ShellActions /\ At("listener")
      /\ 1 \in 1..Len(calls)
  BY <1>1, TopFrame, FrameParts
<1>3. act.type \in {"SetActiveTab", "ScanCompleted", "ThemeChanged", "FileSelectionChanged"}
  BY <1>2, ActionKinds
<1>4. /\ Top.tab = state.active_tab /\ Top.groups = state.groups
      /\ Completes(Top) <=> act.type = "ScanCompleted"
      /\ Completes(Top) => Top.tab = "review" /\ act.groups = state.groups
  BY <1>1, <1>2 DEF ShellInv, RailInv, Completes
<1>5. /\ g \in Frames /\ g.at = "sync" /\ g.action = act /\ g.groups = state.groups
      /\ Completes(g) <=> Completes(Top)
  BY <1>1, <1>2, <1>4, SyncFrame DEF Completes
<1>6. \A j \in 2..Len(calls) :
        \/ calls[j].at \in Settling
        \/ /\ calls[j] = Dispatching(SetActiveTab("review")) /\ asked = "review"
           /\ state.groups # NoGroups
  BY <1>1 DEF ShellInv, OuterInv
<1>7. \A j \in 1..Len(calls) :
        /\ calls[j].at = "sync" /\ Completes(calls[j]) => calls[j].groups = state.groups
        /\ calls[j].at = "shown" /\ calls[j].key = "review" => state.groups # NoGroups
  BY DEF ShellInv, PagesInv, WaitingInv, Shows
<1>8. /\ state.active_tab \in VALID_MAIN_TAB_KEYS /\ state.active_tab \in ShellKeys
      /\ state.active_tab \in ROUTE_KEYS /\ state.active_tab # "exclude"
  BY <1>2 DEF ShellTypes, VALID_MAIN_TAB_KEYS, ShellKeys, ROUTE_KEYS
<1> HIDE DEF g
<1>9. CASE Top.tab # rail /\ act.type \in {"SetActiveTab", "ScanCompleted"}
  <2> DEFINE f == Navigate(state.active_tab)
  <2>1. Then(<<f, g>>) BY <1>4, <1>9 DEF Listen, g
  <2>2. f \in Frames /\ f.at = "navigate" /\ f.key = state.active_tab BY <1>8, ShellFrames
  <2> HIDE DEF f
  <2>3. /\ calls' \in Seq(Frames) /\ calls' # <<>> /\ Len(calls') = Len(calls) + 1 /\ Len(calls) \in Nat
        /\ Head(calls') = f /\ calls'[1] = f /\ calls'[2] = g
        /\ \A i \in 3..Len(calls') : i - 1 \in 2..Len(calls) /\ calls'[i] = calls[i - 1]
        /\ \A i \in 2..Len(calls) : i + 1 \in 3..Len(calls') /\ calls'[i + 1] = calls[i]
    BY <1>1, <1>2, <1>5, <2>1, <2>2, StackTwo, StackTop
  <2>4. /\ 2 \in 1..Len(calls')
        /\ \A i \in 1..Len(calls') :
             \/ calls'[i] = f \/ calls'[i] = g
             \/ i - 1 \in 1..Len(calls) /\ calls'[i] = calls[i - 1]
        /\ \A j \in 2..Len(calls) : j + 1 \in 1..Len(calls') /\ calls'[j + 1] = calls[j]
    <3>1. Len(calls) \in Nat \ {0} BY <1>1, <1>2, StackTop
    <3> QED BY <2>3, <3>1
  <2>5. ShellTypes' BY <1>1, <1>2, <2>3 DEF ShellTypes, pageVars, reviewVars, diskVars, scanVars
  <2>6. Leads(Destination(state.active_tab))
    <3>1. CASE act.type = "SetActiveTab"
      <4>1. rail = "exclude" /\ Leads(rail) BY <1>1, <1>2, <1>4, <1>9, <3>1 DEF ShellInv, RailInv
      <4>2. asked \in {"none", "exclude"}
        <5>1. asked \notin {"none", "exclude"} => asked \in ShellKeys /\ Destination(asked) = "exclude"
          BY <1>2, <4>1 DEF Leads, ShellTypes
        <5> QED BY <5>1, Destinations
      <4> QED BY <4>2 DEF Leads
    <3>2. CASE act.type = "ScanCompleted"
      <4>1. asked \in {"none", "review"} BY <1>2, <3>2 DEF ShellInv, RailInv
      <4>2. state.active_tab = "review" BY <1>4, <3>2
      <4> QED BY <4>1, <4>2 DEF Leads
    <3> QED BY <1>9, <3>1, <3>2
  <2>7. RailInv'
    <3>1. Leads(Destination(state.active_tab))' BY <1>1, <2>6 DEF Leads, Destination
    <3> QED BY <1>1, <2>2, <2>3, <3>1 DEF RailInv, At, Top, Settling
  <2>8. OuterInv'
    <3>1. \A i \in 2..Len(calls') :
            \/ calls'[i].at \in Settling
            \/ /\ calls'[i] = Dispatching(SetActiveTab("review")) /\ asked = "review"
               /\ state.groups # NoGroups
      <4> SUFFICES ASSUME NEW i \in 2..Len(calls')
                   PROVE  \/ calls'[i].at \in Settling
                          \/ /\ calls'[i] = Dispatching(SetActiveTab("review")) /\ asked = "review"
                             /\ state.groups # NoGroups
        BY Zenon
      <4>1. i = 2 \/ i \in 3..Len(calls') BY <2>3
      <4>2. CASE i = 2 BY <1>5, <2>3, <4>2 DEF Settling
      <4>3. ASSUME i \in 3..Len(calls')
            PROVE  \/ calls'[i].at \in Settling
                   \/ /\ calls'[i] = Dispatching(SetActiveTab("review")) /\ asked = "review"
                      /\ state.groups # NoGroups
        <5>1. i - 1 \in 2..Len(calls) /\ calls'[i] = calls[i - 1] BY <2>3, <4>3
        <5> QED BY <1>6, <5>1, Zenon
      <4> QED BY <4>1, <4>2, <4>3
    <3> QED BY <1>1, <2>2, <2>3, <3>1 DEF OuterInv, At, Top
  <2>9. WaitingInv'
    <3>1. \A i \in 1..Len(calls') :
            /\ calls'[i].at = "sync" /\ Completes(calls'[i]) => calls'[i].groups = state.groups
            /\ calls'[i].at = "shown" /\ calls'[i].key = "review" => state.groups # NoGroups
      BY <1>5, <1>7, <2>2, <2>3, <2>4
    <3> QED BY <1>1, <3>1 DEF WaitingInv, Shows, Completes
  <2>10. /\ \A key : (\E i \in 1..Len(calls) : Shows(i, key)) => \E i \in 1..Len(calls') : Shows(i, key)'
         /\ (\E i \in 1..Len(calls) : Fills(i)) => \E i \in 1..Len(calls') : Fills(i)'
         /\ \A i \in 1..Len(calls) : ~Repaints(i)
    <3>1. \A key : \A j \in 1..Len(calls) : Shows(j, key) => j \in 2..Len(calls)
      BY <1>1, <1>2, <2>3 DEF Shows
    <3>2. Fills(1) => Fills(2)' BY <1>2, <1>5, <2>3 DEF Fills, Completes
    <3>3. \A j \in 1..Len(calls) : Fills(j) => j = 1 \/ j \in 2..Len(calls) BY <2>3
    <3>4. \A j \in 1..Len(calls) : ~Repaints(j)
      BY <1>1, <1>2, <1>9 DEF ShellInv, PagesInv, RepaintInv, Quiet
    <3>5. /\ \A key : (\E i \in 1..Len(calls) : Shows(i, key)) => \E i \in 1..Len(calls') : Shows(i, key)'
          /\ (\E i \in 1..Len(calls) : Fills(i)) => \E i \in 1..Len(calls') : Fills(i)'
      BY <2>4, <3>1, <3>2, <3>3 DEF Shows, Fills, Completes
    <3> QED BY <3>4, <3>5, Zenon
  <2>11. DrawnInv' /\ ListedInv'
    <3>1. /\ rail' = rail /\ state' = state /\ results' = results /\ own' = own /\ drawn' = drawn
          /\ listed' = listed /\ recorded' = recorded
      BY <1>1 DEF pageVars, reviewVars, diskVars
    <3>2. DrawnInv'
      <4>1. CASE Matching /\ drawn = results BY <3>1, <4>1 DEF DrawnInv, Matching
      <4>2. CASE rail # "review" BY <3>1, <4>2 DEF DrawnInv
      <4>3. CASE \E i \in 1..Len(calls) : Shows(i, "review") \/ Fills(i)
        <5>1. \E i \in 1..Len(calls') : Shows(i, "review")' \/ Fills(i)' BY <2>10, <4>3, Zenon
        <5> QED BY <5>1 DEF DrawnInv
      <4> QED BY <2>10, <4>1, <4>2, <4>3 DEF ShellInv, PagesInv, DrawnInv
    <3>3. ListedInv' BY <2>10, <3>1 DEF ShellInv, PagesInv, ListedInv
    <3> QED BY <3>2, <3>3
  <2>12. RepaintInv' BY <1>5, <2>2, <2>3, <2>4, <2>10 DEF RepaintInv, Repaints
  <2>13. RecordInv'
    <3>1. (\E j \in 1..Len(calls) : calls[j].at = "record") => state.active_tab \in {"review", "dashboard"}
      BY <1>1 DEF ShellInv, PagesInv, RecordInv
    <3>2. (\E i \in 1..Len(calls') : calls'[i].at = "record") => \E j \in 1..Len(calls) : calls[j].at = "record"
      BY <1>5, <2>2, <2>3, <2>4
    <3> QED BY <1>1, <2>2, <2>3, <3>1, <3>2 DEF RecordInv, Top, Settling
  <2> QED BY <2>5, <2>7, <2>8, <2>9, <2>11, <2>12, <2>13 DEF ShellInv, PagesInv
<1>10. CASE ~(Top.tab # rail /\ act.type \in {"SetActiveTab", "ScanCompleted"})
  <2>1. Then(<<g>>) BY <1>10 DEF Listen, g
  <2>2. /\ calls' \in Seq(Frames) /\ calls' # <<>> /\ Len(calls') = Len(calls) /\ Len(calls) \in Nat
        /\ Head(calls') = g /\ calls'[1] = g /\ \A i \in 2..Len(calls') : calls'[i] = calls[i]
    BY <1>1, <1>2, <1>5, <2>1, StackOne, StackTop
  <2>3. ShellTypes' BY <1>1, <1>2, <2>2 DEF ShellTypes, pageVars, reviewVars, diskVars, scanVars
  <2>4. \A i \in 1..Len(calls') : i = 1 \/ (i \in 2..Len(calls) /\ calls'[i] = calls[i]) BY <2>2
  <2>5. AtOne /\ Leads(rail)
    <3>1. CASE act.type = "SetActiveTab"
      BY <1>1, <1>2, <1>4, <1>10, <3>1 DEF ShellInv, RailInv, AtOne
    <3>2. CASE act.type = "ScanCompleted"
      <4>1. rail = state.active_tab /\ rail = "review" BY <1>4, <1>10, <3>2
      <4>2. asked \in {"none", "review"} /\ (asked = "review" => state.groups # NoGroups)
        BY <1>2, <1>4, <3>2 DEF ShellInv, RailInv
      <4> QED BY <4>1, <4>2 DEF AtOne, Leads, Destination
    <3>3. CASE act.type \notin {"SetActiveTab", "ScanCompleted"}
      BY <1>2, <3>3 DEF ShellInv, RailInv, Leads
    <3> QED BY <3>1, <3>2, <3>3
  <2>6. RailInv'
    <3>1. AtOne' /\ Leads(rail)' BY <1>1, <2>5 DEF AtOne, Leads, Destination
    <3> QED BY <1>5, <2>2, <3>1 DEF RailInv, At, Top, Settling
  <2>7. OuterInv' BY <1>1, <1>5, <1>6, <2>2 DEF OuterInv, At, Top
  <2>8. WaitingInv'
    <3>1. \A i \in 1..Len(calls') :
            /\ calls'[i].at = "sync" /\ Completes(calls'[i]) => calls'[i].groups = state.groups
            /\ calls'[i].at = "shown" /\ calls'[i].key = "review" => state.groups # NoGroups
      BY <1>5, <1>7, <2>2, <2>4
    <3> QED BY <1>1, <3>1 DEF WaitingInv, Shows, Completes
  <2>9. ASSUME NEW i \in 1..Len(calls) PROVE /\ \A key : Shows(i, key) => Shows(i, key)'
                                             /\ Fills(i) => Fills(i)'
                                             /\ Repaints(i) => Repaints(i)'
    BY <1>1, <1>2, <1>5, <2>2, <2>4 DEF Shows, Fills, Repaints, Completes
  <2>10. DrawnInv' /\ ListedInv'
    BY <1>1, <2>2, <2>9 DEF ShellInv, PagesInv, DrawnInv, Matching, ListedInv, pageVars, reviewVars, diskVars
  <2>11. RepaintInv'
    <3>1. ASSUME NEW i \in 1..Len(calls'), Repaints(i)' PROVE \A j \in 1..Len(calls') : Quiet(calls'[j])
      <4>1. Repaints(i) /\ i \in 1..Len(calls) BY <1>5, <2>2, <2>4, <3>1 DEF Repaints
      <4>2. \A j \in 1..Len(calls) : Quiet(calls[j]) BY <4>1 DEF ShellInv, PagesInv, RepaintInv
      <4>3. Quiet(g) BY <1>1, <1>2, <1>5, <4>2 DEF Quiet
      <4> QED BY <2>2, <2>4, <4>2, <4>3
    <3> QED BY <3>1 DEF RepaintInv, Quiet
  <2>12. RecordInv'
    <3>1. \A i \in 1..Len(calls') : calls'[i].at = "record" => calls'[i] = calls[i]
      BY <1>5, <2>2, <2>4
    <3> QED BY <1>1, <1>5, <2>2, <3>1 DEF ShellInv, PagesInv, RecordInv, Top, Settling
  <2> QED BY <2>3, <2>6, <2>7, <2>8, <2>10, <2>11, <2>12 DEF ShellInv, PagesInv
<1> QED BY <1>9, <1>10

(* The ends of calls. *)
LEMMA EndKeeps ==
  ASSUME ShellInv, calls # <<>>, Top.at \in Settling, Return, UNCHANGED <<state, rail, asked>>,
         backend' \in Listables, lastJson' \in Listables, drawn' \in Listables, results' \in Listables,
         own' \in BOOLEAN, snapshot' = snapshot,
         rail = "review" => \/ drawn' = results' /\ (results' = state.groups \/ own')
                            \/ /\ UNCHANGED <<results, own, drawn>>
                               /\ ~Shows(1, "review") /\ ~Fills(1) /\ ~Repaints(1),
         rail = "history" => \/ listed' = recorded'
                             \/ UNCHANGED <<listed, recorded>> /\ ~Shows(1, "history")
  PROVE  ShellInv'
<1>1. AtOne /\ Leads(rail) BY DEF ShellInv, RailInv
<1>2. ShellTypes' BY StackReturn DEF ShellInv, ShellTypes
<1>3. Top.at # "navigate" BY DEF Settling
<1> QED BY <1>1, <1>2, <1>3, CallResumed, ResumedPages DEF ShellInv

LEMMA SyncKeeps ==
  ASSUME ShellInv, Sync
  PROVE  ShellInv'
<1>1. calls # <<>> /\ Top.at = "sync" /\ Return /\ UNCHANGED <<state, rail, asked, paused, diskVars, scanVars>>
  BY DEF Sync, At, Top
<1>2. ShellTypes /\ Top \in Frames /\ Top = calls[1] /\ Top.groups \in Listables /\ 1 \in 1..Len(calls)
  BY <1>1, TopFrame, FrameParts
<1>3. /\ ~Shows(1, "review") /\ ~Shows(1, "history") /\ ~Repaints(1)
      /\ Fills(1) <=> Top.action.type = "ScanCompleted"
  BY <1>1, <1>2 DEF Shows, Fills, Repaints, Completes
<1>4. Top.action.type = "ScanCompleted" => Top.groups = state.groups
  BY <1>1, <1>2 DEF ShellInv, PagesInv, WaitingInv, Completes
<1>5. CASE Top.action.type = "ScanCompleted"
  <2>1. /\ results' = state.groups /\ own' = FALSE /\ snapshot' = snapshot /\ listed' = recorded
        /\ drawn' = IF rail = "review" THEN results' ELSE drawn
    BY <1>4, <1>5 DEF Sync
  <2>2. results' \in Listables /\ drawn' \in Listables /\ backend' \in Listables /\ lastJson' \in Listables
        /\ recorded' = recorded
    BY <1>1, <1>2, <2>1 DEF ShellTypes, diskVars, scanVars
  <2> QED BY <1>1, <2>1, <2>2, EndKeeps DEF Settling
<1>6. CASE Top.action.type # "ScanCompleted"
  <2>1. UNCHANGED <<results, own, snapshot, drawn, listed, recorded, lastJson, backend>>
    BY <1>1, <1>6 DEF Sync, pageVars, reviewVars, diskVars, scanVars
  <2>2. /\ results' \in Listables /\ drawn' \in Listables /\ backend' \in Listables /\ lastJson' \in Listables
        /\ own' \in BOOLEAN
    BY <1>2, <2>1 DEF ShellTypes
  <2> QED BY <1>1, <1>3, <1>6, <2>1, <2>2, EndKeeps DEF Settling
<1> QED BY <1>5, <1>6

LEMMA OnShowKeeps ==
  ASSUME ShellInv, OnShow
  PROVE  ShellInv'
<1>1. calls # <<>> /\ Top.at = "shown" /\ Return /\ UNCHANGED <<state, rail, asked, paused, diskVars, scanVars>>
  BY DEF OnShow, At, Top
<1>2. ShellTypes /\ Top \in Frames /\ Top = calls[1] /\ Top.key \in ShellKeys /\ 1 \in 1..Len(calls)
  BY <1>1, TopFrame, FrameParts
<1>3. ~Fills(1) /\ ~Repaints(1) /\ \A key : Shows(1, key) <=> Top.key = key
  BY <1>1, <1>2 DEF Shows, Fills, Repaints
<1>4. Top.key = "review" => state.groups # NoGroups
  BY <1>1, <1>2 DEF ShellInv, PagesInv, WaitingInv, Shows
<1>5. drawn' \in Listables /\ results' \in Listables /\ own' \in BOOLEAN /\ snapshot' = snapshot
  BY <1>2 DEF OnShow, ShellTypes
<1>6. \/ drawn' = results' /\ results' = state.groups
      \/ UNCHANGED <<results, own, drawn>> /\ Top.key # "review"
  BY <1>4 DEF OnShow
<1>7. listed' = recorded' \/ (UNCHANGED <<listed, recorded>> /\ Top.key # "history")
  BY <1>1 DEF OnShow, diskVars
<1>8. backend' \in Listables /\ lastJson' \in Listables
  BY <1>1, <1>2 DEF ShellTypes, diskVars, scanVars
<1> QED BY <1>1, <1>3, <1>5, <1>6, <1>7, <1>8, EndKeeps DEF Settling

LEMMA RecordKeeps ==
  ASSUME ShellInv, Record
  PROVE  ShellInv'
<1>1. calls # <<>> /\ Top.at = "record" /\ Return /\ UNCHANGED <<state, rail, asked, paused, pageVars, scanVars>>
  BY DEF Record, At, Top
<1>2. ShellTypes /\ Top \in Frames /\ Top = calls[1] /\ Top.groups \in Listables /\ 1 \in 1..Len(calls)
  BY <1>1, TopFrame, FrameParts
<1>3. ~Fills(1) /\ ~Repaints(1) /\ \A key : ~Shows(1, key) BY <1>1, <1>2 DEF Shows, Fills, Repaints
<1>4. rail # "history"
  <2>1. state.active_tab \in {"review", "dashboard"}
    BY <1>1, <1>2 DEF ShellInv, PagesInv, RecordInv, Settling
  <2> QED BY <1>1, <2>1 DEF ShellInv, RailInv, AtOne, Settling
<1> QED
  BY <1>1, <1>2, <1>3, <1>4, EndKeeps DEF Record, ShellTypes, Settling, pageVars, reviewVars, scanVars

LEMMA RepaintKeeps ==
  ASSUME ShellInv, Repaint
  PROVE  ShellInv'
<1>1. calls # <<>> /\ Top.at = "repaint" /\ Return
      /\ UNCHANGED <<state, rail, asked, paused, results, snapshot, own, listed, diskVars, scanVars>>
      /\ drawn' = results
  BY DEF Repaint, At, Top
<1>2. ShellTypes /\ Top = calls[1] /\ 1 \in 1..Len(calls) BY <1>1, TopFrame
<1>3. \A i \in 1..Len(calls) : Quiet(calls[i])
  BY <1>1, <1>2 DEF ShellInv, PagesInv, RepaintInv, Repaints
<1>4. \A i \in 1..Len(calls) : ~Fills(i) /\ \A key : ~Shows(i, key)
  BY <1>3 DEF Quiet, Fills, Shows, Completes
<1>5. rail = "review" => results = state.groups \/ own
  BY <1>4 DEF ShellInv, PagesInv, DrawnInv, Matching
<1>6. 1 \in 1..Len(calls) /\ ~Shows(1, "history") BY <1>2, <1>4
<1>7. /\ backend' \in Listables /\ lastJson' \in Listables /\ drawn' \in Listables
      /\ results' \in Listables /\ own' \in BOOLEAN /\ recorded' = recorded
  BY <1>1, <1>2 DEF ShellTypes, diskVars, scanVars
<1> QED BY <1>1, <1>5, <1>6, <1>7, EndKeeps DEF Settling

------------------------------------------------------------------------------
(* The handlers. *)

(* What a handler finds. *)
LEMMA Idle ==
  ASSUME ShellInv, calls = <<>>
  PROVE  /\ ShellTypes /\ AtOne /\ Leads(rail)
         /\ rail = "review" => drawn = results /\ (results = state.groups \/ own)
         /\ rail = "history" => listed = recorded
<1>1. Len(calls) = 0 BY EmptySeq
<1> QED BY <1>1 DEF ShellInv, RailInv, PagesInv, DrawnInv, Matching, ListedInv

LEMMA OneFrame ==
  ASSUME NEW f \in Frames, calls' = <<f>>
  PROVE  /\ calls' \in Seq(Frames) /\ calls' # <<>> /\ Head(calls') = f
         /\ Len(calls') = 1 /\ calls'[1] = f
OBVIOUS

LEMMA TwoFrames ==
  ASSUME NEW f \in Frames, NEW g \in Frames, calls' = <<f, g>>
  PROVE  /\ calls' \in Seq(Frames) /\ calls' # <<>> /\ Head(calls') = f
         /\ Len(calls') = 2 /\ calls'[1] = f /\ calls'[2] = g
OBVIOUS

LEMMA NavigationStarts ==
  ASSUME ShellInv, calls = <<>>, NEW k \in ShellKeys, calls' = <<Navigate(k)>>, asked' = k,
         UNCHANGED <<state, rail, pageVars, diskVars, scanVars>>
  PROVE  ShellInv'
<1> DEFINE f == Navigate(k)
<1>1. f \in Frames /\ f.at = "navigate" /\ f.key = k BY ShellFrames
<1> HIDE DEF f
<1>2. /\ calls' \in Seq(Frames) /\ calls' # <<>> /\ Head(calls') = f /\ Len(calls') = 1
      /\ \A i \in 1..Len(calls') : calls'[i] = f
  BY <1>1, OneFrame DEF f
<1>3. ShellTypes' BY <1>2, Idle DEF ShellTypes, pageVars, reviewVars, diskVars, scanVars
<1>4. RailInv'
  <2>1. AtOne' /\ Leads(Destination(k))' BY Idle DEF AtOne, Leads
  <2> QED BY <1>1, <1>2, <2>1 DEF RailInv, At, Top, Settling
<1>5. OuterInv' BY <1>1, <1>2 DEF OuterInv, At, Top
<1>6. PagesInv'
  BY <1>1, <1>2, Idle DEF PagesInv, WaitingInv, DrawnInv, Matching, ListedInv, RepaintInv, Repaints,
     RecordInv, Shows, Top, Settling, pageVars, reviewVars, diskVars
<1> QED BY <1>3, <1>4, <1>5, <1>6 DEF ShellInv

LEMMA BuilderKeys == \A i \in DOMAIN BUILDERS : BUILDERS[i] \in ShellKeys
BY DEF BUILDERS, ShellKeys, ROUTE_KEYS

LEMMA GoKeeps ==
  ASSUME ShellInv, NEW k \in ShellKeys, Go(k)
  PROVE  ShellInv'
BY NavigationStarts DEF Go, Starts

LEMMA NavigationKeeps ==
  ASSUME ShellInv,
         \/ \E k \in ROUTE_KEYS : Go(k) \/ RouteChange(k)
         \/ \E n \in 1..4 : Digit(n)
         \/ \E step \in {-1, 1} : Cycle(step)
  PROVE  ShellInv'
<1>1. ASSUME NEW k \in ROUTE_KEYS, Go(k) PROVE ShellInv' BY <1>1, GoKeeps DEF ShellKeys
<1>2. ASSUME NEW k \in ROUTE_KEYS, RouteChange(k) PROVE ShellInv'
  BY <1>2, NavigationStarts DEF RouteChange, Starts, ShellKeys
<1>3. ASSUME NEW n \in 1..4, Digit(n) PROVE ShellInv'
  <2>1. PICK i \in DOMAIN BUILDERS : Go(Destination(BUILDERS[i])) BY <1>3 DEF Digit
  <2>2. Destination(BUILDERS[i]) \in ShellKeys BY BuilderKeys, Destinations DEF ShellKeys
  <2> QED BY <2>1, <2>2, GoKeeps
<1>4. ASSUME NEW step \in {-1, 1}, Cycle(step) PROVE ShellInv'
  <2>1. PICK i \in DOMAIN BUILDERS : Go(BUILDERS[((i - 1 + step) % Len(BUILDERS)) + 1])
    BY <1>4 DEF Cycle
  <2>2. Len(BUILDERS) = 6 /\ DOMAIN BUILDERS = 1..6 BY DEF BUILDERS
  <2>3. ((i - 1 + step) % 6) + 1 \in 1..6 BY <2>2
  <2>4. BUILDERS[((i - 1 + step) % Len(BUILDERS)) + 1] \in ShellKeys BY <2>2, <2>3, BuilderKeys
  <2> QED BY <2>1, <2>4, GoKeeps
<1> QED BY <1>1, <1>2, <1>3, <1>4

(* A call that tells the store something, and what follows it. *)
LEMMA ScanKeeps ==
  ASSUME ShellInv, NEW gs \in Listings, NEW m \in ScanModes, ScanDone(gs, m)
  PROVE  ShellInv'
<1> DEFINE f == Dispatching(ScanCompleted(gs, m))
           g == Recording(gs)
<1>1. calls = <<>> /\ calls' = <<f, g>> /\ asked' = "none" /\ backend' = gs
      /\ UNCHANGED <<state, rail, paused, pageVars, diskVars>>
  BY DEF ScanDone, Starts
<1>2. gs \in Listables BY AppStateAssumption DEF AppStateAssumption, Listables
<1>3. /\ f \in Frames /\ f.at = "dispatch" /\ f.action.type = "ScanCompleted" /\ f.action.groups = gs
      /\ Completes(f) /\ g \in Frames /\ g.at = "record"
  BY <1>2, ShellFrames, ActionsMade DEF Completes
<1> HIDE DEF f, g
<1>4. /\ calls' \in Seq(Frames) /\ calls' # <<>> /\ Head(calls') = f /\ Len(calls') = 2
      /\ \A i \in 1..Len(calls') : calls'[i] = f \/ calls'[i] = g
      /\ \A i \in 2..Len(calls') : calls'[i] = g
  BY <1>1, <1>3, TwoFrames
<1>5. ShellTypes' BY <1>1, <1>2, <1>4, Idle DEF ShellTypes, pageVars, reviewVars, diskVars
<1>6. RailInv' BY <1>1, <1>3, <1>4 DEF RailInv, At, Top, Settling
<1>7. OuterInv' BY <1>1, <1>3, <1>4 DEF OuterInv, At, Top, Settling
<1>8. PagesInv'
  BY <1>1, <1>3, <1>4, Idle DEF PagesInv, WaitingInv, DrawnInv, Matching, ListedInv, RepaintInv, Repaints,
     RecordInv, Shows, Top, Settling, pageVars, reviewVars, diskVars
<1> QED BY <1>5, <1>6, <1>7, <1>8 DEF ShellInv

LEMMA SessionOpens ==
  ASSUME ShellInv, OpenLastSession
  PROVE  ShellInv'
<1> DEFINE gs == IF backend # NoGroups THEN backend ELSE lastJson
           m  == IF backend # NoGroups THEN state.scan_mode ELSE "files"
           f  == Dispatching(ScanCompleted(gs, m))
           g  == Dispatching(SetActiveTab("review"))
<1>1. calls = <<>> /\ calls' = <<f, g>> /\ asked' = "review" /\ gs # NoGroups
      /\ UNCHANGED <<state, rail, paused, pageVars, diskVars, scanVars>>
  BY DEF OpenLastSession, Starts
<1>2. gs \in Listables /\ m \in ScanModes
  BY <1>1, Idle, AppStateAssumption DEF AppStateAssumption, ShellTypes
<1>3. "review" \in ShellKeys BY DEF ShellKeys, ROUTE_KEYS
<1> HIDE DEF gs, m
<1>4. /\ f \in Frames /\ f.at = "dispatch" /\ f.action.type = "ScanCompleted" /\ f.action.groups = gs
      /\ Completes(f) /\ g \in Frames /\ g.at = "dispatch" /\ ~Completes(g)
  BY <1>2, <1>3, ShellFrames, ActionsMade DEF Completes
<1> HIDE DEF f
<1>5. /\ calls' \in Seq(Frames) /\ calls' # <<>> /\ Head(calls') = f /\ Len(calls') = 2
      /\ \A i \in 1..Len(calls') : calls'[i] = f \/ calls'[i] = g
      /\ \A i \in 2..Len(calls') : calls'[i] = g
  BY <1>1, <1>4, TwoFrames
<1>6. ShellTypes'
  BY <1>1, <1>2, <1>3, <1>5, Idle DEF ShellTypes, pageVars, reviewVars, diskVars, scanVars
<1>7. RailInv' BY <1>1, <1>4, <1>5 DEF RailInv, At, Top, Settling
<1>8. OuterInv' BY <1>1, <1>4, <1>5 DEF OuterInv, At, Top, Settling
<1> HIDE DEF g
<1>9. PagesInv'
  BY <1>1, <1>4, <1>5, Idle DEF PagesInv, WaitingInv, DrawnInv, Matching, ListedInv, RepaintInv, Repaints,
     RecordInv, Shows, Top, Settling, pageVars, reviewVars, diskVars
<1> QED BY <1>6, <1>7, <1>8, <1>9 DEF ShellInv

(* A theme or the review's marks go to the store, then the pages are
   painted anew. *)
LEMMA RepaintStarts ==
  ASSUME ShellInv, NEW act \in ShellActions,
         act.type \in {"ThemeChanged", "FileSelectionChanged"},
         calls = <<>>, calls' = <<Dispatching(act), Repainting>>, asked' = "none",
         UNCHANGED <<state, rail, drawn, listed, diskVars, scanVars>>,
         results' \in Listables, own' \in BOOLEAN,
         snapshot' \in {NoSnapshot} \cup {<<l>> : l \in Listables},
         own' \/ UNCHANGED <<results, own>>
  PROVE  ShellInv'
<1> DEFINE f == Dispatching(act)
           g == Repainting
<1>1. /\ f \in Frames /\ f.at = "dispatch" /\ f.action = act /\ ~Completes(f) /\ Quiet(f)
      /\ g \in Frames /\ g.at = "repaint" /\ Quiet(g)
  BY ShellFrames DEF Completes, Quiet
<1> HIDE DEF f, g
<1>2. /\ calls' \in Seq(Frames) /\ calls' # <<>> /\ Head(calls') = f /\ Len(calls') = 2
      /\ calls'[1] = f /\ calls'[2] = g /\ 2 \in 1..Len(calls')
      /\ \A i \in 1..Len(calls') : calls'[i] = f \/ calls'[i] = g
      /\ \A i \in 2..Len(calls') : calls'[i] = g
  BY <1>1, TwoFrames DEF f, g
<1>3. ShellTypes' BY <1>2, Idle DEF ShellTypes, diskVars, scanVars
<1>4. RailInv'
  <2>1. AtOne' BY Idle DEF AtOne
  <2> QED BY <1>1, <1>2, <2>1 DEF RailInv, At, Top, Settling, Completes
<1>5. OuterInv' BY <1>1, <1>2 DEF OuterInv, At, Top, Settling
<1>6. WaitingInv' BY <1>1, <1>2 DEF WaitingInv, Shows
<1>7. DrawnInv'
  <2>1. Repaints(2)' BY <1>1, <1>2 DEF Repaints
  <2>2. rail' = "review" => Matching' BY Idle DEF Matching
  <2> QED BY <1>2, <2>1, <2>2 DEF DrawnInv
<1>8. ListedInv' BY Idle DEF ListedInv, diskVars
<1>9. RepaintInv' /\ RecordInv'
  <2>1. \A i \in 1..Len(calls') : Quiet(calls'[i]) /\ calls'[i].at # "record" BY <1>1, <1>2
  <2> QED BY <2>1 DEF RepaintInv, RecordInv, Quiet
<1> QED BY <1>3, <1>4, <1>5, <1>6, <1>7, <1>8, <1>9 DEF ShellInv, PagesInv

LEMMA ThemeKeeps ==
  ASSUME ShellInv, NEW t \in {"light", "dark"}, ApplyPresetTheme(t)
  PROVE  ShellInv'
<1>1. /\ calls = <<>> /\ calls' = <<Dispatching(ThemeChanged(t)), Repainting>> /\ asked' = "none"
      /\ UNCHANGED <<state, rail, results, snapshot, own, drawn, listed, diskVars, scanVars>>
  BY DEF ApplyPresetTheme, Starts, pageVars, reviewVars
<1>2. ShellTypes BY <1>1, Idle
<1>3. /\ results' \in Listables /\ own' \in BOOLEAN
      /\ snapshot' \in {NoSnapshot} \cup {<<l>> : l \in Listables}
  BY <1>1, <1>2 DEF ShellTypes
<1> QED BY <1>1, <1>3, ActionsMade, RepaintStarts

(* What an apply leaves of the page's groups. *)
LEMMA PrunedListable ==
  ASSUME NEW gs \in Listables, NEW paths
  PROVE  Pruned(gs, paths) \in Listables
BY DEF Pruned, Listables

LEMMA ApplyKeeps ==
  ASSUME ShellInv, NEW removed \in SUBSET File, NEW fs \in SUBSET File,
         Apply(removed, fs) \/ UndoApply(fs)
  PROVE  ShellInv'
<1>1. /\ calls = <<>> /\ calls' = <<Dispatching(SelectionChanged(fs)), Repainting>> /\ asked' = "none"
      /\ UNCHANGED <<state, rail, drawn, listed, diskVars, scanVars>>
  BY DEF Apply, UndoApply, Starts
<1>2. ShellTypes BY <1>1, Idle
<1>3. CASE Apply(removed, fs)
  <2>1. /\ results' = Pruned(results, removed) /\ snapshot' = <<results>> /\ results \in Listables
        /\ own' = TRUE
    BY <1>2, <1>3 DEF Apply, ShellTypes
  <2>2. results' \in Listables /\ snapshot' \in {<<l>> : l \in Listables} BY <2>1, PrunedListable
  <2> QED BY <1>1, <2>1, <2>2, ActionsMade, RepaintStarts
<1>4. CASE UndoApply(fs) /\ snapshot = NoSnapshot
  <2>1. UNCHANGED <<results, own>> /\ snapshot' = NoSnapshot BY <1>4 DEF UndoApply
  <2>2. results' \in Listables /\ own' \in BOOLEAN BY <1>2, <2>1 DEF ShellTypes
  <2> QED BY <1>1, <2>1, <2>2, ActionsMade, RepaintStarts
<1>5. CASE UndoApply(fs) /\ snapshot # NoSnapshot
  <2>1. results' = snapshot[1] /\ own' = TRUE /\ snapshot' = NoSnapshot BY <1>5 DEF UndoApply
  <2>2. PICK l \in Listables : snapshot = <<l>> BY <1>2, <1>5 DEF ShellTypes
  <2>3. results' \in Listables BY <2>1, <2>2
  <2> QED BY <1>1, <2>1, <2>3, ActionsMade, RepaintStarts
<1> QED BY <1>3, <1>4, <1>5

LEMMA SelectKeeps ==
  ASSUME ShellInv, NEW fs \in SUBSET File, Select(fs)
  PROVE  ShellInv'
<1> DEFINE f == Dispatching(SelectionChanged(fs))
<1>1. calls = <<>> /\ calls' = <<f>> /\ asked' = "none"
      /\ UNCHANGED <<state, rail, paused, pageVars, diskVars, scanVars>>
  BY DEF Select, Starts
<1>2. f \in Frames /\ f.at = "dispatch" /\ f.action.type = "FileSelectionChanged" /\ ~Completes(f)
  BY ShellFrames, ActionsMade DEF Completes
<1> HIDE DEF f
<1>3. /\ calls' \in Seq(Frames) /\ calls' # <<>> /\ Head(calls') = f /\ Len(calls') = 1
      /\ \A i \in 1..Len(calls') : calls'[i] = f
  BY <1>1, <1>2, OneFrame
<1>4. ShellTypes' BY <1>1, <1>3, Idle DEF ShellTypes, pageVars, reviewVars, diskVars, scanVars
<1>5. RailInv'
  <2>1. AtOne' BY <1>1, Idle DEF AtOne
  <2> QED BY <1>1, <1>2, <1>3, <2>1 DEF RailInv, At, Top, Settling
<1>6. OuterInv' BY <1>1, <1>2, <1>3 DEF OuterInv, At, Top, Settling
<1>7. PagesInv'
  BY <1>1, <1>2, <1>3, Idle DEF PagesInv, WaitingInv, DrawnInv, Matching, ListedInv, RepaintInv, Repaints,
     RecordInv, Shows, Top, Settling, pageVars, reviewVars, diskVars
<1> QED BY <1>4, <1>5, <1>6, <1>7 DEF ShellInv

(* A state without calls in which the sides agree. *)
LEMMA AtRest ==
  ASSUME calls = <<>>, ShellTypes, AtOne, Leads(rail),
         rail = "review" => drawn = results /\ (results = state.groups \/ own),
         rail = "history" => listed = recorded
  PROVE  ShellInv
<1>1. Len(calls) = 0 BY EmptySeq
<1> QED
  BY <1>1 DEF ShellInv, RailInv, OuterInv, PagesInv, WaitingInv, DrawnInv, Matching, ListedInv, RepaintInv,
     RecordInv, At

LEMMA InitialState ==
  /\ {"active_tab", "groups", "scan_mode", "mode", "theme", "selected_files"} \subseteq DOMAIN create_initial_state
  /\ create_initial_state.groups = {} /\ create_initial_state.active_tab = "dashboard"
  /\ create_initial_state.scan_mode = "files"
BY DEF create_initial_state

LEMMA ShellStarts == ShellInit => ShellInv
<1> SUFFICES ASSUME ShellInit PROVE ShellInv OBVIOUS
<1>1. ShellTypes
  BY InitialState, AppStateAssumption, EmptySeq
  DEF ShellInit, ShellTypes, AppStateAssumption, VALID_MAIN_TAB_KEYS, ROUTE_KEYS, Listables, NoGroups
<1>2. AtOne /\ Leads(rail) BY InitialState DEF ShellInit, AtOne, Leads
<1> QED BY <1>1, <1>2, AtRest DEF ShellInit

LEMMA RestKeeps ==
  ASSUME ShellInv, ClearHistory \/ Restart \/ OpenApplySheet
  PROVE  ShellInv'
<1> DEFINE Fresh == /\ rail = "review" => drawn = results /\ (results = state.groups \/ own)
                    /\ rail = "history" => listed = recorded
<1>1. calls = <<>> /\ calls' = <<>> BY DEF ClearHistory, Restart, OpenApplySheet
<1>2. ShellTypes /\ AtOne /\ Fresh BY <1>1, Idle
<1>3. CASE ClearHistory
  <2>1. ShellTypes' /\ AtOne' /\ Leads(rail)'
    BY <1>2, <1>3 DEF ClearHistory, ShellTypes, AtOne, Leads, reviewVars, scanVars
  <2>2. Fresh' BY <1>2, <1>3 DEF ClearHistory, reviewVars
  <2> QED
    BY <1>1, <2>1, <2>2 DEF ShellInv, RailInv, OuterInv, PagesInv, WaitingInv, DrawnInv, Matching, ListedInv,
       RepaintInv, RecordInv, At
<1>4. CASE Restart
  <2>1. ShellTypes' /\ AtOne' /\ Leads(rail)' /\ rail' = "dashboard"
    BY <1>1, <1>2, <1>4, InitialState, AppStateAssumption
    DEF Restart, ShellTypes, AtOne, Leads, AppStateAssumption, VALID_MAIN_TAB_KEYS, ROUTE_KEYS, Listables,
        NoGroups, diskVars
  <2> QED
    BY <1>1, <2>1 DEF ShellInv, RailInv, OuterInv, PagesInv, WaitingInv, DrawnInv, ListedInv, RepaintInv,
       RecordInv, At
<1>5. CASE OpenApplySheet
  <2>1. ShellTypes' /\ AtOne' /\ Leads(rail)'
    BY <1>2, <1>5 DEF OpenApplySheet, ShellTypes, AtOne, Leads, diskVars, scanVars
  <2>2. Fresh' BY <1>2, <1>5 DEF OpenApplySheet, diskVars
  <2> QED
    BY <1>1, <2>1, <2>2 DEF ShellInv, RailInv, OuterInv, PagesInv, WaitingInv, DrawnInv, Matching, ListedInv,
       RepaintInv, RecordInv, At
<1> QED BY <1>3, <1>4, <1>5

(* The inductive invariant: whoever is called finds what it needs, and what
   is not up to date will be by a call that waits. *)
LEMMA ShellInductive == ShellInv /\ [ShellNext]_shellVars => ShellInv'
<1> SUFFICES ASSUME ShellInv, [ShellNext]_shellVars PROVE ShellInv' OBVIOUS
<1>1. CASE NavigateTo \/ Dispatch \/ Listen BY <1>1, NavigateKeeps, DispatchKeeps, ListenKeeps
<1>2. CASE Sync \/ OnShow \/ Record \/ Repaint
  BY <1>2, SyncKeeps, OnShowKeeps, RecordKeeps, RepaintKeeps
<1>3. CASE \/ \E k \in ROUTE_KEYS : Go(k) \/ RouteChange(k)
           \/ \E n \in 1..4 : Digit(n)
           \/ \E step \in {-1, 1} : Cycle(step)
  BY <1>3, NavigationKeeps
<1>4. CASE \E gs \in Listings, m \in ScanModes : ScanDone(gs, m) BY <1>4, ScanKeeps
<1>5. CASE OpenLastSession BY <1>5, SessionOpens
<1>6. CASE \E t \in {"light", "dark"} : ApplyPresetTheme(t) BY <1>6, ThemeKeeps
<1>7. CASE \/ \E fs \in Selections : Select(fs) \/ UndoApply(fs)
           \/ \E removed \in SUBSET File, fs \in Selections : Apply(removed, fs)
  <2>1. Selections \subseteq SUBSET File BY AppStateAssumption DEF AppStateAssumption
  <2>2. ASSUME NEW fs \in Selections, Select(fs) PROVE ShellInv' BY <2>1, <2>2, SelectKeeps
  <2>3. ASSUME NEW fs \in Selections, UndoApply(fs) PROVE ShellInv'
    <3>1. {} \in SUBSET File OBVIOUS
    <3> QED BY <2>1, <2>3, <3>1, ApplyKeeps
  <2>4. ASSUME NEW removed \in SUBSET File, NEW fs \in Selections, Apply(removed, fs) PROVE ShellInv'
    BY <2>1, <2>4, ApplyKeeps
  <2> QED BY <1>7, <2>2, <2>3, <2>4
<1>8. CASE ClearHistory \/ Restart \/ OpenApplySheet BY <1>8, RestKeeps
<1>9. CASE UNCHANGED shellVars
  <2> USE <1>9 DEF shellVars
  <2>1. ShellTypes' = ShellTypes BY DEF ShellTypes
  <2>2. RailInv' = RailInv BY DEF RailInv, At, Top, Completes, Leads, Destination, AtOne
  <2>3. OuterInv' = OuterInv BY DEF OuterInv, At, Top, Completes
  <2>4. WaitingInv' = WaitingInv /\ DrawnInv' = DrawnInv
    BY DEF WaitingInv, DrawnInv, Matching, Shows, Fills, Repaints, Completes
  <2>5. ListedInv' = ListedInv /\ RepaintInv' = RepaintInv
    BY DEF ListedInv, RepaintInv, Shows, Repaints, Quiet
  <2>6. RecordInv' = RecordInv BY DEF RecordInv, Completes, Top
  <2> QED BY <2>1, <2>2, <2>3, <2>4, <2>5, <2>6 DEF ShellInv, PagesInv
<1> QED BY <1>1, <1>2, <1>3, <1>4, <1>5, <1>6, <1>7, <1>8, <1>9 DEF ShellNext

(* The rail, the store and the user agree on the page whenever no call is
   left, whatever is navigated, scanned, opened and restarted (RailAgrees). *)
THEOREM RailAgreesAlways == ShellSpec => []RailAgrees
<1>1. ShellInv => RailAgrees BY DEF ShellInv, RailInv, RailAgrees, AtOne, Leads
<1> QED BY <1>1, ShellStarts, ShellInductive, PTL DEF ShellSpec

(* The page that is shown is up to date whenever no call is left: the
   review draws its groups, which are the store's unless an apply or an
   undo changed them since, and the history lists every recorded scan. *)
THEOREM PagesCurrentAlways == ShellSpec => []PagesCurrent
<1>1. ShellInv => PagesCurrent BY Idle DEF PagesCurrent
<1> QED BY <1>1, ShellStarts, ShellInductive, PTL DEF ShellSpec

------------------------------------------------------------------------------
(* The thumbnails. *)

Thumbnails == UNION {ToSet(keys) : keys \in Wanted}

(* What the cache tells of a key: a picture only of a file that can be
   shown, and none of it only if it was missed. *)
Told(k, image, gone) == /\ image => k \in Readable
                        /\ k \in Readable \ gone => image
Pictures(gone) == {p \in [key : Thumbnails, image : BOOLEAN] : Told(p.key, p.image, gone)}

TaskSteps == {"look", "touch", "read", "put", "move", "count", "pop", "answered", "raised"}
TaskRecords ==
  [at : TaskSteps \cup {"over"}, view : Views \cup {"none"}, keys : Seq(Thumbnails),
   todo : Seq(Thumbnails), image : BOOLEAN, shown : SUBSET Thumbnails, lost : BOOLEAN]

(* What is left to do and what was done make up what was asked for; the
   picture in hand is what the cache told of the key in hand. *)
Faithful(k, gone) ==
  /\ k.at # "over" => k.view \in Views /\ k.todo # <<>>
  /\ k.at \in {"move", "count", "pop", "answered"} => Told(Head(k.todo), k.image, gone)
  /\ ToSet(k.todo) \subseteq ToSet(k.keys) /\ k.shown \subseteq ToSet(k.keys) \cap Readable
  /\ (ToSet(k.keys) \cap Readable) \ gone \subseteq k.shown \cup ToSet(k.todo)

(* The task of the last generation of a view ends with nothing to do. *)
Latest(v) ==
  newest[v] # "none" =>
    /\ newest[v] \in Task /\ task[newest[v]].view = v
    /\ LET k == task[newest[v]] IN k.at = "over" /\ ~k.lost => k.todo = <<>>

(* The entries that the cache may have beyond its limit: the keys that were
   put and not yet moved to the end, one for each task that counts. *)
Putting  == {t \in Task : task[t].at = "move"}
Trimming == {t \in Task : task[t].at \in {"count", "pop"}}
PutKeys  == {k \in Thumbnails : Holds(k) /\ \E t \in Putting : Key(t) = k}

ThumbsTypes ==
  /\ entriesLru \in Seq(Pictures(missed)) /\ task \in [Task -> TaskRecords]
  /\ newest \in [Views -> Task \cup {"none"}]

CacheBounded == Len(entriesLru) <= MaxEntries + Cardinality(Trimming) + Cardinality(PutKeys)

ThumbsInv ==
  /\ ThumbsTypes /\ \A t \in Task : Faithful(task[t], missed)
  /\ \A v \in Views : Latest(v)
  /\ CacheBounded

(* Sizes of sets that differ by a subset, or by one element. *)
LEMMA OneMore ==
  ASSUME NEW S, NEW T, IsFiniteSet(T), S \subseteq T
  PROVE  /\ IsFiniteSet(S) /\ Cardinality(S) \in Nat /\ Cardinality(T) \in Nat
         /\ Cardinality(S) <= Cardinality(T)
         /\ \A x \in T : x \notin S => Cardinality(S) + 1 <= Cardinality(T)
<1>1. IsFiniteSet(S) /\ Cardinality(S) \in Nat /\ Cardinality(T) \in Nat
      /\ Cardinality(S) <= Cardinality(T)
  BY FS_Subset, FS_CardinalityType
<1>2. ASSUME NEW x \in T, x \notin S PROVE Cardinality(S) + 1 <= Cardinality(T)
  <2>1. Cardinality(S \cup {x}) = Cardinality(S) + 1 BY <1>1, <1>2, FS_AddElement
  <2> QED BY <2>1, <1>2, FS_Subset
<1> QED BY <1>1, <1>2

LEMMA OneLess ==
  ASSUME NEW S, NEW T, IsFiniteSet(S), IsFiniteSet(T), NEW x, S \ {x} \subseteq T
  PROVE  Cardinality(S) <= Cardinality(T) + 1
<1>1. /\ IsFiniteSet(S \ {x}) /\ Cardinality(S) <= Cardinality(S \ {x}) + 1
      /\ Cardinality(S \ {x}) \in Nat /\ Cardinality(S) \in Nat
  <2>1. IsFiniteSet(S \ {x}) /\ Cardinality(S \ {x}) = IF x \in S THEN Cardinality(S) - 1 ELSE Cardinality(S)
    BY FS_RemoveElement
  <2>2. Cardinality(S \ {x}) \in Nat /\ Cardinality(S) \in Nat BY <2>1, FS_CardinalityType
  <2> QED BY <2>1, <2>2
<1>2. Cardinality(S \ {x}) <= Cardinality(T) /\ Cardinality(T) \in Nat BY <1>1, OneMore
<1> QED BY <1>1, <1>2

(* A set whose elements are all values of a function on a finite set. *)
LEMMA Covered ==
  ASSUME NEW S, IsFiniteSet(S), NEW f, NEW T, \A x \in T : \E s \in S : f[s] = x
  PROVE  IsFiniteSet(T) /\ Cardinality(T) <= Cardinality(S)
<1> DEFINE D == {s \in S : f[s] \in T}
           g == [s \in D |-> f[s]]
<1>1. g \in Surjection(D, T) BY DEF Surjection
<1>2. IsFiniteSet(D) /\ Cardinality(D) <= Cardinality(S) /\ Cardinality(S) \in Nat /\ Cardinality(D) \in Nat
  BY OneMore
<1> HIDE DEF D, g
<1>3. IsFiniteSet(T) /\ Cardinality(T) <= Cardinality(D) BY <1>1, <1>2, FS_Surjection
<1> QED BY <1>2, <1>3, FS_CardinalityType

(* An element of a sequence goes to its end: nothing is lost. *)
EntryLast(s, i) == Append(RemoveAt(s, i), s[i])

LEMMA ToTheEnd ==
  ASSUME NEW S, NEW s \in Seq(S), NEW i \in 1..Len(s)
  PROVE  /\ EntryLast(s, i) \in Seq(S) /\ Len(EntryLast(s, i)) = Len(s)
         /\ \A j \in 1..Len(s) : \E h \in 1..Len(EntryLast(s, i)) : EntryLast(s, i)[h] = s[j]
<1> DEFINE front == SubSeq(s, 1, i - 1)
           back  == SubSeq(s, i + 1, Len(s))
           m     == EntryLast(s, i)
<1>1. /\ front \in Seq(S) /\ Len(front) = i - 1
      /\ \A j \in 1..(i - 1) : front[j] = s[j]
  BY SubSeqProperties, LenProperties, ElementOfSeq
<1>2. /\ back \in Seq(S) /\ Len(back) = Len(s) - i
      /\ \A j \in 1..(Len(s) - i) : back[j] = s[j + i]
  <2>1. Len(s) \in Nat /\ \A j \in (i + 1)..Len(s) : s[j] \in S BY LenProperties, ElementOfSeq
  <2> QED BY <2>1, SubSeqProperties, Z3
<1>3. RemoveAt(s, i) = front \o back BY DEF RemoveAt
<1> HIDE DEF front, back
<1>4. /\ front \o back \in Seq(S) /\ Len(front \o back) = Len(s) - 1
      /\ \A j \in 1..(Len(s) - 1) : (front \o back)[j] = IF j < i THEN s[j] ELSE s[j + 1]
  <2>1. /\ front \o back \in Seq(S) /\ Len(front \o back) = Len(front) + Len(back)
        /\ \A j \in 1..(Len(front) + Len(back)) :
             (front \o back)[j] = IF j <= Len(front) THEN front[j] ELSE back[j - Len(front)]
    BY <1>1, <1>2, ConcatProperties
  <2> QED BY <2>1, <1>1, <1>2, LenProperties
<1> DEFINE r == front \o back
<1> HIDE DEF r
<1>5. s[i] \in S /\ r \in Seq(S) /\ Len(r) = Len(s) - 1 /\ m = Append(r, s[i])
  BY <1>3, <1>4, ElementOfSeq DEF r, EntryLast
<1> HIDE DEF m
<1>6. /\ m \in Seq(S) /\ Len(m) = Len(s) /\ m[Len(s)] = s[i]
      /\ \A j \in 1..(Len(s) - 1) : m[j] = r[j]
  BY <1>5
<1>7. ASSUME NEW j \in 1..Len(s) PROVE \E h \in 1..Len(m) : m[h] = s[j]
  <2>1. CASE j < i
    <3>1. j \in 1..(Len(s) - 1) /\ j \in 1..Len(m) BY <2>1, <1>6
    <3> QED BY <2>1, <3>1, <1>6, <1>4 DEF r
  <2>2. CASE j = i BY <2>2, <1>6
  <2>3. CASE j > i
    <3>1. j - 1 \in 1..(Len(s) - 1) /\ ~(j - 1 < i) /\ (j - 1) + 1 = j /\ j - 1 \in 1..Len(m)
      BY <2>3, <1>6
    <3> QED BY <3>1, <1>6, <1>4 DEF r
  <2> QED BY <2>1, <2>2, <2>3
<1> QED BY <1>6, <1>7 DEF m

(* What a task does to the dictionary. *)
LEMMA EntryOf ==
  ASSUME NEW k, Holds(k), NEW P, entriesLru \in Seq(P)
  PROVE  /\ Entry(k) \in 1..Len(entriesLru) /\ entriesLru[Entry(k)].key = k
         /\ entriesLru[Entry(k)] \in P
<1>1. DOMAIN entriesLru = 1..Len(entriesLru) /\ \A i \in DOMAIN entriesLru : entriesLru[i] \in P
  BY LenProperties, ElementOfSeq
<1>2. Entry(k) \in DOMAIN entriesLru /\ entriesLru[Entry(k)].key = k BY DEF Holds, Entry
<1> QED BY <1>1, <1>2

LEMMA ImageFound ==
  ASSUME NEW k, Holds(k), entriesLru \in Seq(Pictures(missed))
  PROVE  ImageOf(k) \in BOOLEAN /\ Told(k, ImageOf(k), missed)
<1>1. PICK r : r = entriesLru[Entry(k)] OBVIOUS
<1>2. r \in Pictures(missed) /\ r.key = k BY <1>1, EntryOf
<1>3. r.image \in BOOLEAN /\ Told(r.key, r.image, missed) BY <1>2 DEF Pictures
<1> QED BY <1>1, <1>2, <1>3 DEF ImageOf

(* More keys are missed: what was told stays right. *)
LEMMA MoreMissed ==
  ASSUME NEW M, NEW N, M \subseteq N
  PROVE  /\ \A k, image : Told(k, image, M) => Told(k, image, N)
         /\ \A k : Faithful(k, M) => Faithful(k, N)
         /\ \A s \in Seq(Pictures(M)) : s \in Seq(Pictures(N))
<1>1. \A k, image : Told(k, image, M) => Told(k, image, N) BY DEF Told
<1>2. \A k : Faithful(k, M) => Faithful(k, N) BY <1>1 DEF Faithful
<1>3. Pictures(M) \subseteq Pictures(N) BY <1>1 DEF Pictures
<1>4. ASSUME NEW s \in Seq(Pictures(M)) PROVE s \in Seq(Pictures(N)) BY <1>3
<1> QED BY <1>1, <1>2, <1>4

LEMMA MovedEntry ==
  ASSUME NEW P, NEW k, Holds(k), entriesLru \in Seq(P), entriesLru' = ToEnd(k)
  PROVE  /\ entriesLru' \in Seq(P) /\ Len(entriesLru') = Len(entriesLru)
         /\ \A q : Holds(q) => Holds(q)'
<1>1. /\ entriesLru' \in Seq(P) /\ Len(entriesLru') = Len(entriesLru)
      /\ \A j \in 1..Len(entriesLru) : \E h \in 1..Len(entriesLru') : entriesLru'[h] = entriesLru[j]
  <2>1. Entry(k) \in 1..Len(entriesLru) /\ entriesLru' = EntryLast(entriesLru, Entry(k))
    BY EntryOf DEF ToEnd, EntryLast
  <2> QED BY <2>1, ToTheEnd
<1> QED BY <1>1, LenProperties DEF Holds

LEMMA AssignedEntry ==
  ASSUME NEW P, NEW k, NEW image, [key |-> k, image |-> image] \in P, entriesLru \in Seq(P),
         \A p \in P : p = [key |-> p.key, image |-> p.image], entriesLru' = Assign(k, image)
  PROVE  /\ entriesLru' \in Seq(P) /\ Holds(k)'
         /\ \A q : Holds(q) => Holds(q)'
         /\ Len(entriesLru') = Len(entriesLru) + (IF Holds(k) THEN 0 ELSE 1)
<1> DEFINE e == [key |-> k, image |-> image]
<1>e. e \in P /\ e.key = k OBVIOUS
<1>0. /\ DOMAIN entriesLru = 1..Len(entriesLru) /\ Len(entriesLru) \in Nat
      /\ entriesLru \in [1..Len(entriesLru) -> P]
  BY LenProperties
<1>1. CASE Holds(k)
  <2> DEFINE i == Entry(k)
             c == entriesLru[i]
  <2>1. i \in 1..Len(entriesLru) /\ c.key = k /\ c \in P BY <1>1, EntryOf
  <2>2. entriesLru' = [entriesLru EXCEPT ![i] = [c EXCEPT !.image = image]] BY <1>1 DEF Assign
  <2>3. [c EXCEPT !.image = image] = e
    <3>1. c = [key |-> k, image |-> c.image] BY <2>1
    <3> QED BY <3>1
  <2> HIDE DEF e, i, c
  <2>4. /\ entriesLru' \in [1..Len(entriesLru) -> P] /\ entriesLru'[i] = e
        /\ \A j \in 1..Len(entriesLru) : j # i => entriesLru'[j] = entriesLru[j]
    BY <1>0, <1>e, <2>1, <2>2, <2>3
  <2>5. entriesLru' \in Seq(P) /\ Len(entriesLru') = Len(entriesLru) /\ DOMAIN entriesLru' = 1..Len(entriesLru)
    BY <1>0, <2>4, LenProperties
  <2>6. \A j \in 1..Len(entriesLru) : entriesLru'[j].key = entriesLru[j].key
    BY <1>e, <2>1, <2>4 DEF c
  <2>7. \A q : Holds(q) => Holds(q)' BY <1>0, <2>5, <2>6 DEF Holds
  <2> QED BY <1>0, <1>1, <2>5, <2>7
<1>2. CASE ~Holds(k)
  <2> HIDE DEF e
  <2>2. entriesLru' = Append(entriesLru, e) BY <1>2 DEF Assign, e
  <2>3. /\ entriesLru' \in Seq(P) /\ Len(entriesLru') = Len(entriesLru) + 1
        /\ entriesLru'[Len(entriesLru) + 1] = e
        /\ \A j \in 1..Len(entriesLru) : entriesLru'[j] = entriesLru[j]
    BY <1>e, <2>2
  <2>4. DOMAIN entriesLru' = 1..(Len(entriesLru) + 1) BY <2>3, LenProperties
  <2> QED BY <1>0, <1>2, <1>e, <2>3, <2>4 DEF Holds
<1> QED BY <1>1, <1>2

LEMMA PoppedEntry ==
  ASSUME NEW P, entriesLru \in Seq(P), entriesLru # <<>>, entriesLru' = Tail(entriesLru)
  PROVE  /\ entriesLru' \in Seq(P) /\ Len(entriesLru') = Len(entriesLru) - 1
         /\ \A q : Holds(q) => Holds(q)' \/ q = Head(entriesLru).key
<1>1. /\ entriesLru' \in Seq(P) /\ Len(entriesLru') = Len(entriesLru) - 1
      /\ Len(entriesLru) \in Nat
      /\ \A i \in 1..Len(entriesLru') : entriesLru'[i] = entriesLru[i + 1]
  BY HeadTailProperties, LenProperties
<1>2. Head(entriesLru) = entriesLru[1] OBVIOUS
<1>3. ASSUME NEW q, Holds(q), q # Head(entriesLru).key PROVE Holds(q)'
  <2>1. PICK i \in 1..Len(entriesLru) : entriesLru[i].key = q BY <1>3, LenProperties DEF Holds
  <2>2. i - 1 \in 1..Len(entriesLru') /\ (i - 1) + 1 = i BY <2>1, <1>1, <1>2, <1>3
  <2>3. DOMAIN entriesLru' = 1..Len(entriesLru') BY <1>1, LenProperties
  <2> QED BY <2>1, <2>2, <2>3, <1>1 DEF Holds
<1> QED BY <1>1, <1>3

(* A task goes on: what its new record must keep, and what follows. *)
MovesTo(t, k) ==
  /\ task' = [task EXCEPT ![t] = k]
  /\ k \in TaskRecords /\ k.view = task[t].view /\ Faithful(k, missed')
  /\ k.at = "over" /\ ~k.lost => k.todo = <<>> \/ newest[k.view] # t

TasksKept ==
  /\ task' \in [Task -> TaskRecords] /\ \A t \in Task : Faithful(task'[t], missed')
  /\ \A v \in Views : Latest(v)'

LEMMA TaskMoved ==
  ASSUME ThumbsInv, NEW t \in Task, NEW k, MovesTo(t, k), newest' = newest,
         missed \subseteq missed'
  PROVE  TasksKept
<1>1. /\ task' \in [Task -> TaskRecords] /\ task'[t] = k
      /\ \A u \in Task : u # t => task'[u] = task[u]
  BY DEF ThumbsInv, ThumbsTypes, MovesTo
<1>2. \A u \in Task : Faithful(task'[u], missed') BY <1>1, MoreMissed DEF ThumbsInv, MovesTo
<1>3. ASSUME NEW v \in Views, newest[v] # "none" PROVE Latest(v)'
  <2>1. newest[v] \in Task /\ task[newest[v]].view = v
        /\ (task[newest[v]].at = "over" /\ ~task[newest[v]].lost => task[newest[v]].todo = <<>>)
    BY <1>3 DEF ThumbsInv, Latest
  <2>2. CASE newest[v] = t BY <2>1, <2>2, <1>1 DEF MovesTo, Latest
  <2>3. CASE newest[v] # t BY <2>1, <2>3, <1>1 DEF Latest
  <2> QED BY <2>2, <2>3
<1>4. \A v \in Views : Latest(v)' BY <1>3 DEF Latest
<1> QED BY <1>1, <1>2, <1>4 DEF TasksKept

LEMMA TaskRunning ==
  ASSUME ThumbsInv, NEW t \in Task, task[t].at # "over"
  PROVE  /\ task[t] \in TaskRecords /\ Faithful(task[t], missed)
         /\ task[t].view \in Views /\ Key(t) \in Thumbnails /\ task[t].todo # <<>>
BY HeadTailProperties DEF ThumbsInv, ThumbsTypes, Faithful, TaskRecords, Key

(* A step within the work on a key, of which the picture is not yet known,
   or known already. *)
LEMMA StaysOnKey ==
  ASSUME ThumbsInv, NEW t \in Task, task[t].at # "over", NEW p \in TaskSteps, Goes(t, p), newest' = newest,
         missed' = missed,
         p \in {"move", "count", "pop", "answered"} => Told(Key(t), task[t].image, missed)
  PROVE  TasksKept
<1> DEFINE k == [task[t] EXCEPT !.at = p]
<1>1. /\ k \in TaskRecords /\ k.at = p
      /\ k.view = task[t].view /\ k.keys = task[t].keys /\ k.todo = task[t].todo
      /\ k.image = task[t].image /\ k.shown = task[t].shown /\ k.lost = task[t].lost
  BY TaskRunning DEF TaskRecords, TaskSteps
<1>2. task' = [task EXCEPT ![t] = k] BY DEF Goes
<1> HIDE DEF k
<1>3. Faithful(k, missed') BY <1>1, TaskRunning DEF Faithful, Key
<1>4. k.at # "over" BY <1>1 DEF TaskSteps
<1> QED BY <1>1, <1>2, <1>3, <1>4, TaskMoved DEF MovesTo

LEMMA GetsPicture ==
  ASSUME ThumbsInv, NEW t \in Task, task[t].at # "over", NEW p \in TaskSteps, NEW g \in BOOLEAN,
         task' = [task EXCEPT ![t].at = p, ![t].image = g], newest' = newest,
         missed \subseteq missed',
         p \in {"move", "count", "pop", "answered"} => Told(Key(t), g, missed')
  PROVE  TasksKept
<1> DEFINE k == [task[t] EXCEPT !.at = p, !.image = g]
<1>1. /\ k \in TaskRecords /\ k.at = p
      /\ k.view = task[t].view /\ k.keys = task[t].keys /\ k.todo = task[t].todo
      /\ k.image = g /\ k.shown = task[t].shown /\ k.lost = task[t].lost
  BY TaskRunning DEF TaskRecords, TaskSteps
<1>2. task' = [task EXCEPT ![t] = k] BY DEF ThumbsInv, ThumbsTypes
<1> HIDE DEF k
<1>3. Faithful(k, missed')
  <2>1. Faithful(task[t], missed') BY TaskRunning, MoreMissed
  <2> QED BY <1>1, <2>1, TaskRunning DEF Faithful, Key
<1>4. k.at # "over" BY <1>1 DEF TaskSteps
<1> QED BY <1>1, <1>2, <1>3, <1>4, TaskMoved DEF MovesTo

(* The answer to a key: the rows that have their pictures, with it, and
   those still to come make up what was asked for. *)
LEMMA Rest ==
  ASSUME NEW s \in Seq(Thumbnails), s # <<>>
  PROVE  /\ Tail(s) \in Seq(Thumbnails) /\ (Len(s) = 1 <=> Tail(s) = <<>>)
         /\ ToSet(s) = {Head(s)} \cup ToSet(Tail(s))
<1>1. /\ Tail(s) \in Seq(Thumbnails) /\ Len(Tail(s)) = Len(s) - 1 /\ Len(s) \in Nat
      /\ \A i \in 1..Len(Tail(s)) : Tail(s)[i] = s[i + 1]
  BY HeadTailProperties, LenProperties
<1>2. Head(s) = s[1] /\ Len(s) # 0 OBVIOUS
<1>3. Len(s) = 1 <=> Tail(s) = <<>>
  <2>1. Len(Tail(s)) = 0 <=> Tail(s) = <<>> BY <1>1, EmptySeq
  <2> QED BY <2>1, <1>1
<1>4. DOMAIN s = 1..Len(s) /\ DOMAIN Tail(s) = 1..Len(Tail(s)) BY <1>1, LenProperties
<1>5. ASSUME NEW i \in 1..Len(s) PROVE s[i] \in {Head(s)} \cup ToSet(Tail(s))
  <2>1. CASE i = 1 BY <2>1, <1>2
  <2>2. CASE i # 1
    <3>1. i - 1 \in 1..Len(Tail(s)) /\ s[i] = Tail(s)[i - 1] BY <2>2, <1>1
    <3> QED BY <3>1, <1>4 DEF ToSet
  <2> QED BY <2>1, <2>2
<1>6. ASSUME NEW i \in 1..Len(Tail(s)) PROVE Tail(s)[i] \in ToSet(s)
  <2>1. i + 1 \in 1..Len(s) /\ Tail(s)[i] = s[i + 1] BY <1>1
  <2> QED BY <2>1, <1>4 DEF ToSet
<1>7. Head(s) \in ToSet(s)
  <2>1. 1 \in 1..Len(s) BY <1>1, <1>2
  <2> QED BY <2>1, <1>2, <1>4 DEF ToSet
<1> QED BY <1>1, <1>3, <1>4, <1>5, <1>6, <1>7 DEF ToSet

LEMMA Answered ==
  ASSUME ThumbsInv, NEW t \in Task, Answer(t)
  PROVE  TasksKept
<1>1. task[t].at = "answered" /\ task[t].at # "over" /\ newest' = newest /\ missed' = missed
  BY DEF Answer
<1>2. Told(Key(t), task[t].image, missed) BY <1>1, TaskRunning DEF Faithful, Key
<1>3. CASE newest[task[t].view] # t
  <2> DEFINE k == [task[t] EXCEPT !.at = "over"]
  <2>1. /\ k \in TaskRecords /\ k.at = "over"
        /\ k.view = task[t].view /\ k.keys = task[t].keys /\ k.todo = task[t].todo
        /\ k.shown = task[t].shown
    BY <1>1, TaskRunning DEF TaskRecords
  <2>2. task' = [task EXCEPT ![t] = k] BY <1>3 DEF Answer, ThumbsInv, ThumbsTypes
  <2> HIDE DEF k
  <2>3. Faithful(k, missed') BY <1>1, <2>1, TaskRunning DEF Faithful
  <2> QED BY <1>1, <1>3, <2>1, <2>2, <2>3, TaskMoved DEF MovesTo
<1>4. CASE newest[task[t].view] = t
  <2> DEFINE seen == IF task[t].image THEN task[t].shown \cup {Key(t)} ELSE task[t].shown
             next == IF Len(task[t].todo) = 1 THEN "over" ELSE "look"
             r    == Slotted(task[t])
             k    == Advanced(r)
  <2>1. /\ task[t] \in TaskRecords /\ Key(t) \in Thumbnails /\ task[t].todo \in Seq(Thumbnails)
        /\ task[t].todo # <<>> /\ task[t].view \in Views
        /\ ToSet(task[t].todo) \subseteq ToSet(task[t].keys)
        /\ task[t].shown \subseteq ToSet(task[t].keys) \cap Readable
        /\ (ToSet(task[t].keys) \cap Readable) \ missed \subseteq task[t].shown \cup ToSet(task[t].todo)
    BY <1>1, TaskRunning DEF Faithful, TaskRecords
  <2>2. seen \in SUBSET Thumbnails /\ next \in TaskSteps \cup {"over"}
    BY <2>1 DEF TaskSteps, TaskRecords
  <2>3. /\ Tail(task[t].todo) \in Seq(Thumbnails) /\ (next = "over" <=> Tail(task[t].todo) = <<>>)
        /\ ToSet(task[t].todo) = {Key(t)} \cup ToSet(Tail(task[t].todo))
    BY <2>1, Rest DEF Key
  <2>4. /\ ToSet(Tail(task[t].todo)) \subseteq ToSet(task[t].keys)
        /\ seen \subseteq ToSet(task[t].keys) \cap Readable
        /\ (ToSet(task[t].keys) \cap Readable) \ missed \subseteq seen \cup ToSet(Tail(task[t].todo))
    <3>1. /\ task[t].image => Key(t) \in Readable
          /\ Key(t) \in Readable \ missed => task[t].image
      BY <1>2 DEF Told
    <3>2. CASE task[t].image
      <4>1. seen = task[t].shown \cup {Key(t)} BY <3>2
      <4> QED BY <2>1, <2>3, <3>1, <3>2, <4>1
    <3>3. CASE ~task[t].image
      <4>1. seen = task[t].shown BY <3>3
      <4> QED BY <2>1, <2>3, <3>1, <3>3, <4>1
    <3> QED BY <3>2, <3>3
  <2>5. task' = [task EXCEPT ![t] = k] BY <1>4 DEF Answer, ThumbsInv, ThumbsTypes
  <2>8. /\ r \in TaskRecords /\ r.shown = seen /\ r.todo = task[t].todo
        /\ r.view = task[t].view /\ r.keys = task[t].keys
    BY <2>1, <2>2 DEF TaskRecords, Slotted, Key, seen
  <2> HIDE DEF r
  <2>9. k = [r EXCEPT !.todo = Tail(task[t].todo), !.at = next] BY <2>8 DEF Advanced
  <2> HIDE DEF next, seen, k
  <2>6. /\ k \in TaskRecords /\ k.at = next /\ k.shown = seen /\ k.todo = Tail(task[t].todo)
        /\ k.view = task[t].view /\ k.keys = task[t].keys
    BY <2>2, <2>3, <2>8, <2>9 DEF TaskRecords
  <2>7. Faithful(k, missed')
    <3>1. next \in {"over", "look"} BY DEF next
    <3> QED BY <1>1, <2>1, <2>3, <2>4, <2>6, <3>1 DEF Faithful
  <2> QED BY <1>1, <2>3, <2>5, <2>6, <2>7, TaskMoved DEF MovesTo
<1> QED BY <1>3, <1>4

LEMMA Raised ==
  ASSUME ThumbsInv, NEW t \in Task, Raise(t)
  PROVE  TasksKept
<1> DEFINE k == [task[t] EXCEPT !.at = "over", !.lost = TRUE]
<1>1. /\ task[t].at # "over" /\ newest' = newest /\ task' = [task EXCEPT ![t] = k]
      /\ missed' = missed
  BY DEF Raise, ThumbsInv, ThumbsTypes
<1>2. /\ k \in TaskRecords /\ k.at = "over" /\ k.lost
      /\ k.view = task[t].view /\ k.keys = task[t].keys /\ k.todo = task[t].todo
      /\ k.shown = task[t].shown
  BY <1>1, TaskRunning DEF TaskRecords
<1> HIDE DEF k
<1>3. Faithful(k, missed') BY <1>1, <1>2, TaskRunning DEF Faithful
<1> QED BY <1>1, <1>2, <1>3, TaskMoved DEF MovesTo

(* A new generation of a view, and one that has no task. *)
LEMMA Started ==
  ASSUME ThumbsInv, NEW t \in Task, NEW v \in Views, NEW keys \in Wanted, StartLoad(v, keys, t)
  PROVE  TasksKept /\ newest' \in [Views -> Task \cup {"none"}]
<1> DEFINE k == [at |-> IF keys = <<>> THEN "over" ELSE "look", view |-> v, keys |-> keys, todo |-> keys,
                 image |-> FALSE, shown |-> {}, lost |-> FALSE]
<1>1. /\ task' = [task EXCEPT ![t] = k] /\ newest' = [newest EXCEPT ![v] = t]
      /\ \A u \in Views : newest[u] # t
      /\ missed' = missed
  BY DEF StartLoad
<1>2. keys \in Seq(Thumbnails) BY ThumbsAssumption DEF Thumbnails
<1>3. k \in TaskRecords /\ k.view = v /\ (k.at = "over" => k.todo = <<>>)
  BY <1>2 DEF TaskRecords, TaskSteps
<1>4. Faithful(k, missed') BY DEF Faithful
<1> HIDE DEF k
<1>5. /\ task' \in [Task -> TaskRecords] /\ task'[t] = k
      /\ \A u \in Task : u # t => task'[u] = task[u]
      /\ newest' \in [Views -> Task \cup {"none"}] /\ newest'[v] = t
      /\ \A u \in Views : u # v => newest'[u] = newest[u]
  BY <1>1, <1>3 DEF ThumbsInv, ThumbsTypes
<1>6. \A u \in Task : Faithful(task'[u], missed') BY <1>1, <1>4, <1>5 DEF ThumbsInv
<1>7. \A u \in Views : Latest(u)' BY <1>1, <1>3, <1>5 DEF ThumbsInv, Latest
<1> QED BY <1>5, <1>6, <1>7 DEF TasksKept

LEMMA Superseded ==
  ASSUME ThumbsInv, NEW v \in Views, Supersede(v)
  PROVE  TasksKept /\ newest' \in [Views -> Task \cup {"none"}]
<1>1. /\ newest' \in [Views -> Task \cup {"none"}] /\ newest'[v] = "none" /\ task' = task
      /\ missed' = missed
      /\ \A u \in Views : u # v => newest'[u] = newest[u]
  BY DEF Supersede, ThumbsInv, ThumbsTypes
<1>2. \A u \in Views : Latest(u)' BY <1>1 DEF ThumbsInv, Latest
<1> QED BY <1>1, <1>2 DEF TasksKept, ThumbsInv, ThumbsTypes

(* The sets that the bound counts are finite, and a task that puts has one key. *)
LEMMA SurplusFinite ==
  ASSUME NEW S, S \subseteq Task, NEW f, NEW K, \A x \in K : \E t \in S : f[t] = x
  PROVE  IsFiniteSet(S) /\ IsFiniteSet(K) /\ Cardinality(K) <= Cardinality(S)
<1>1. IsFiniteSet(S) BY ThumbsAssumption, FS_Subset
<1> QED BY <1>1, Covered

KeyOf == [t \in Task |-> Key(t)]

LEMMA PutKeysFinite ==
  /\ IsFiniteSet(Trimming) /\ IsFiniteSet(Putting) /\ IsFiniteSet(PutKeys)
  /\ Cardinality(PutKeys) <= Cardinality(Putting)
<1>1. Putting \subseteq Task /\ Trimming \subseteq Task BY DEF Putting, Trimming
<1>2. \A x \in PutKeys : \E t \in Putting : KeyOf[t] = x BY <1>1 DEF PutKeys, KeyOf
<1> QED BY <1>1, <1>2, SurplusFinite, ThumbsAssumption, FS_Subset

LEMMA PutKeysFiniteAfter ==
  /\ IsFiniteSet(Trimming') /\ IsFiniteSet(Putting') /\ IsFiniteSet(PutKeys')
<1>1. Putting' \subseteq Task /\ Trimming' \subseteq Task BY DEF Putting, Trimming
<1>2. \A x \in PutKeys' : \E t \in Putting' : KeyOf'[t] = x BY <1>1 DEF PutKeys, KeyOf
<1> QED BY <1>1, <1>2, SurplusFinite, ThumbsAssumption, FS_Subset

(* What the bound counts does not shrink, and grows with the cache. *)
LEMMA BoundKept ==
  ASSUME ThumbsInv, Len(entriesLru') \in Nat,
         Cardinality(Trimming) + Cardinality(PutKeys) + Len(entriesLru')
           <= Cardinality(Trimming') + Cardinality(PutKeys') + Len(entriesLru)
  PROVE  CacheBounded'
<1>1. /\ Cardinality(Trimming) \in Nat /\ Cardinality(PutKeys) \in Nat
      /\ Cardinality(Trimming') \in Nat /\ Cardinality(PutKeys') \in Nat
  BY PutKeysFinite, PutKeysFiniteAfter, FS_CardinalityType
<1>2. Len(entriesLru) \in Nat /\ MaxEntries \in Nat
  BY LenProperties, ThumbsAssumption DEF ThumbsInv, ThumbsTypes
<1>3. Len(entriesLru) <= MaxEntries + Cardinality(Trimming) + Cardinality(PutKeys)
  BY DEF ThumbsInv, CacheBounded
<1>4. ASSUME NEW u \in Nat, NEW v \in Nat, NEW c \in Nat, NEW d \in Nat, NEW n \in Nat, NEW k \in Nat,
             NEW m \in Nat, u + v + k <= c + d + n, n <= m + u + v
      PROVE  k <= m + c + d
  BY <1>4
<1>5. Len(entriesLru') <= MaxEntries + Cardinality(Trimming') + Cardinality(PutKeys')
  BY <1>1, <1>2, <1>3, <1>4
<1> QED BY <1>5 DEF CacheBounded

LEMMA SurplusGrows ==
  ASSUME Trimming \subseteq Trimming', PutKeys \subseteq PutKeys'
  PROVE  /\ Cardinality(Trimming) <= Cardinality(Trimming')
         /\ Cardinality(PutKeys) <= Cardinality(PutKeys')
BY PutKeysFiniteAfter, OneMore

(* A step that neither puts nor trims, and keeps the keys that are held. *)
LEMMA QuietStep ==
  ASSUME ThumbsInv, TasksKept, entriesLru' \in Seq(Pictures(missed)), Len(entriesLru') = Len(entriesLru),
         \A q : Holds(q) => Holds(q)',
         \A t \in Task : task[t].at \in {"move", "count", "pop"} => task'[t] = task[t]
  PROVE  CacheBounded'
<1>1. Trimming \subseteq Trimming' BY DEF Trimming
<1>2. PutKeys \subseteq PutKeys'
  <2> SUFFICES ASSUME NEW k \in PutKeys PROVE k \in PutKeys' OBVIOUS
  <2>1. k \in Thumbnails /\ Holds(k)' BY DEF PutKeys
  <2>2. PICK t \in Putting : Key(t) = k BY DEF PutKeys
  <2>3. t \in Task /\ task'[t] = task[t] /\ t \in Putting' BY DEF Putting
  <2> QED BY <2>1, <2>2, <2>3 DEF PutKeys, Key
<1>3. /\ Len(entriesLru') \in Nat
      /\ Cardinality(Trimming) \in Nat /\ Cardinality(PutKeys) \in Nat
      /\ Cardinality(Trimming') \in Nat /\ Cardinality(PutKeys') \in Nat
  BY PutKeysFinite, PutKeysFiniteAfter, FS_CardinalityType, LenProperties
<1>4. /\ Cardinality(Trimming) <= Cardinality(Trimming')
      /\ Cardinality(PutKeys) <= Cardinality(PutKeys')
  BY <1>1, <1>2, SurplusGrows
<1> QED BY <1>3, <1>4, BoundKept

(* Of the tasks only t changes: where it is, and its picture. *)
Only(t, p) ==
  /\ \A u \in Task : u # t => task'[u] = task[u]
  /\ task'[t].at = p /\ task'[t].todo = task[t].todo

LEMMA OthersPut ==
  ASSUME NEW t \in Task, NEW p, Only(t, p)
  PROVE  /\ \A u \in Task : u # t => (u \in Putting <=> u \in Putting') /\ Key(u)' = Key(u)
                                     /\ (u \in Trimming <=> u \in Trimming')
         /\ Key(t)' = Key(t)
         /\ t \in Putting' <=> p = "move"
         /\ t \in Trimming' <=> p \in {"count", "pop"}
BY DEF Only, Putting, Trimming, Key

LEMMA PutBounded ==
  ASSUME ThumbsInv, NEW t \in Task, task[t].at = "put", Only(t, "move"),
         missed \subseteq missed', NEW image \in BOOLEAN, Told(Key(t), image, missed'),
         entriesLru' = Assign(Key(t), image)
  PROVE  CacheBounded' /\ entriesLru' \in Seq(Pictures(missed'))
<1>1. Key(t) \in Thumbnails /\ entriesLru \in Seq(Pictures(missed'))
  BY TaskRunning, MoreMissed DEF ThumbsInv, ThumbsTypes
<1>2. /\ entriesLru' \in Seq(Pictures(missed')) /\ Holds(Key(t))'
      /\ \A q : Holds(q) => Holds(q)'
      /\ Len(entriesLru') = Len(entriesLru) + (IF Holds(Key(t)) THEN 0 ELSE 1)
  <2>1. PICK k \in Thumbnails : k = Key(t) BY <1>1
  <2>3. entriesLru' = Assign(k, image) /\ [key |-> k, image |-> image] \in Pictures(missed')
    BY <2>1, <1>1 DEF Pictures
  <2>5. \A p \in Pictures(missed') : p = [key |-> p.key, image |-> p.image] BY DEF Pictures
  <2>2. /\ entriesLru' \in Seq(Pictures(missed')) /\ Holds(k)'
        /\ \A q : Holds(q) => Holds(q)'
        /\ Len(entriesLru') = Len(entriesLru) + (IF Holds(k) THEN 0 ELSE 1)
    BY <1>1, <2>3, <2>5, AssignedEntry, Zenon
  <2>4. Key(t)' = k BY <2>1, OthersPut
  <2> QED BY <2>1, <2>2, <2>4 DEF Holds
<1>3. t \notin Putting /\ t \notin Trimming BY DEF Putting, Trimming
<1>4. Trimming \subseteq Trimming' BY <1>3, OthersPut DEF Trimming
<1>5. PutKeys \subseteq PutKeys' /\ Key(t) \in PutKeys' /\ (~Holds(Key(t)) => Key(t) \notin PutKeys)
  <2>1. t \in Putting' /\ Key(t)' = Key(t) BY OthersPut
  <2>2. Key(t) \in PutKeys' BY <2>1, <1>1, <1>2 DEF PutKeys
  <2>3. ASSUME NEW k \in PutKeys PROVE k \in PutKeys'
    <3>1. PICK u \in Putting : Key(u) = k BY <2>3 DEF PutKeys
    <3>2. u \in Task /\ u # t /\ u \in Putting' /\ Key(u)' = k BY <3>1, <1>3, OthersPut DEF Putting
    <3> QED BY <2>3, <3>2, <1>2 DEF PutKeys
  <2> QED BY <2>2, <2>3 DEF PutKeys
<1>6. /\ Len(entriesLru') \in Nat /\ Len(entriesLru) \in Nat
      /\ Cardinality(Trimming) \in Nat /\ Cardinality(PutKeys) \in Nat
      /\ Cardinality(Trimming') \in Nat /\ Cardinality(PutKeys') \in Nat
  BY <1>1, <1>2, PutKeysFinite, PutKeysFiniteAfter, FS_CardinalityType, LenProperties
<1>7. /\ Cardinality(Trimming) <= Cardinality(Trimming')
      /\ Cardinality(PutKeys) <= Cardinality(PutKeys')
      /\ ~Holds(Key(t)) => Cardinality(PutKeys) + 1 <= Cardinality(PutKeys')
  BY <1>4, <1>5, PutKeysFiniteAfter, OneMore
<1>8. Cardinality(Trimming) + Cardinality(PutKeys) + Len(entriesLru')
        <= Cardinality(Trimming') + Cardinality(PutKeys') + Len(entriesLru)
  <2>1. CASE Holds(Key(t)) BY <1>2, <1>6, <1>7, <2>1
  <2>2. CASE ~Holds(Key(t)) BY <1>2, <1>6, <1>7, <2>2
  <2> QED BY <2>1, <2>2
<1>9. CacheBounded' BY <1>6, <1>8, BoundKept
<1> QED BY <1>2, <1>9

(* A key that was put is counted by its task from when it is moved. *)
LEMMA MoveBounded ==
  ASSUME ThumbsInv, NEW t \in Task, task[t].at = "move", NEW p, Only(t, p),
         \/ Holds(Key(t)) /\ entriesLru' = ToEnd(Key(t)) /\ p = "count"
         \/ ~Holds(Key(t)) /\ entriesLru' = entriesLru
  PROVE  CacheBounded' /\ entriesLru' \in Seq(Pictures(missed))
<1>1. entriesLru \in Seq(Pictures(missed)) BY DEF ThumbsInv, ThumbsTypes
<1>2. /\ entriesLru' \in Seq(Pictures(missed)) /\ Len(entriesLru') = Len(entriesLru)
      /\ \A q : Holds(q) => Holds(q)'
  BY <1>1, MovedEntry DEF Holds
<1>3. t \notin Trimming BY DEF Trimming
<1>4. Trimming \subseteq Trimming' /\ (p = "count" => t \in Trimming')
  BY <1>3, OthersPut DEF Trimming
<1>5. PutKeys \ {Key(t)} \subseteq PutKeys' /\ (~Holds(Key(t)) => PutKeys \subseteq PutKeys')
  <2>1. ASSUME NEW k \in PutKeys, k # Key(t) PROVE k \in PutKeys'
    <3>1. PICK u \in Putting : Key(u) = k BY <2>1 DEF PutKeys
    <3>2. u \in Task /\ u # t /\ u \in Putting' /\ Key(u)' = k BY <2>1, <3>1, OthersPut DEF Putting
    <3> QED BY <2>1, <3>2, <1>2 DEF PutKeys
  <2> QED BY <2>1 DEF PutKeys
<1>6. /\ Len(entriesLru') \in Nat /\ Len(entriesLru) \in Nat
      /\ Cardinality(Trimming) \in Nat /\ Cardinality(PutKeys) \in Nat
      /\ Cardinality(Trimming') \in Nat /\ Cardinality(PutKeys') \in Nat
  BY <1>1, <1>2, PutKeysFinite, PutKeysFiniteAfter, FS_CardinalityType, LenProperties
<1>7. CASE ~Holds(Key(t))
  <2>1. /\ Cardinality(Trimming) <= Cardinality(Trimming')
        /\ Cardinality(PutKeys) <= Cardinality(PutKeys')
    BY <1>4, <1>5, <1>7, SurplusGrows
  <2> QED BY <1>2, <1>6, <2>1, BoundKept
<1>8. CASE Holds(Key(t))
  <2>1. Cardinality(Trimming) + 1 <= Cardinality(Trimming')
    BY <1>3, <1>4, <1>8, PutKeysFiniteAfter, OneMore
  <2>2. Cardinality(PutKeys) <= Cardinality(PutKeys') + 1
    BY <1>5, PutKeysFinite, PutKeysFiniteAfter, OneLess
  <2> QED BY <1>2, <1>6, <2>1, <2>2, BoundKept
<1> QED BY <1>2, <1>7, <1>8

(* A task stops to count only when the cache is within its limit. *)
LEMMA CountBounded ==
  ASSUME ThumbsInv, NEW t \in Task, CountEntries(t)
  PROVE  CacheBounded'
<1>1. /\ entriesLru' = entriesLru /\ Len(entriesLru) \in Nat /\ MaxEntries \in Nat
      /\ Only(t, IF Len(entriesLru) > MaxEntries THEN "pop" ELSE "answered")
      /\ task[t].at = "count" /\ entriesLru \in Seq(Pictures(missed))
  BY ThumbsAssumption, LenProperties, TaskRunning DEF ThumbsInv, ThumbsTypes, CountEntries, Goes, Only, TaskRecords
<1>2. /\ Cardinality(Trimming') \in Nat /\ Cardinality(PutKeys') \in Nat
      /\ Cardinality(Trimming) \in Nat /\ Cardinality(PutKeys) \in Nat
  BY PutKeysFinite, PutKeysFiniteAfter, FS_CardinalityType
<1>3. CASE Len(entriesLru) > MaxEntries
  <2>1. Trimming \subseteq Trimming' BY <1>1, <1>3, OthersPut DEF Trimming
  <2>2. PutKeys \subseteq PutKeys' BY <1>1, <1>3, OthersPut DEF PutKeys, Putting, Holds
  <2>3. /\ Cardinality(Trimming) <= Cardinality(Trimming')
        /\ Cardinality(PutKeys) <= Cardinality(PutKeys')
    BY <2>1, <2>2, SurplusGrows
  <2> QED BY <1>1, <1>2, <2>3, BoundKept
<1>4. CASE ~(Len(entriesLru) > MaxEntries) BY <1>1, <1>2, <1>4 DEF CacheBounded
<1> QED BY <1>3, <1>4

LEMMA PopBounded ==
  ASSUME ThumbsInv, NEW t \in Task, PopOldest(t)
  PROVE  CacheBounded' /\ entriesLru' \in Seq(Pictures(missed))
<1>1. /\ task[t].at = "pop" /\ entriesLru \in Seq(Pictures(missed)) /\ MaxEntries \in Nat
      /\ Only(t, IF entriesLru = <<>> THEN "raised" ELSE "count")
  BY ThumbsAssumption, TaskRunning DEF ThumbsInv, ThumbsTypes, PopOldest, Goes, Only, TaskRecords
<1>2. /\ Cardinality(Trimming') \in Nat /\ Cardinality(PutKeys') \in Nat
      /\ Cardinality(Trimming) \in Nat /\ Cardinality(PutKeys) \in Nat
  BY PutKeysFinite, PutKeysFiniteAfter, FS_CardinalityType
<1>3. CASE entriesLru = <<>>
  <2>1. entriesLru' = <<>> /\ Len(<<>>) = 0 BY <1>1, <1>3 DEF PopOldest
  <2> QED BY <1>1, <1>2, <2>1, EmptySeq DEF CacheBounded
<1>4. CASE entriesLru # <<>>
  <2>1. /\ entriesLru' \in Seq(Pictures(missed)) /\ Len(entriesLru') = Len(entriesLru) - 1
        /\ \A q : Holds(q) => Holds(q)' \/ q = Head(entriesLru).key
    BY <1>1, <1>4, PoppedEntry DEF PopOldest
  <2>2. Trimming \subseteq Trimming' BY <1>1, <1>4, OthersPut DEF Trimming
  <2>3. PutKeys \ {Head(entriesLru).key} \subseteq PutKeys'
    <3>1. ASSUME NEW k \in PutKeys, k # Head(entriesLru).key PROVE k \in PutKeys'
      <4>1. PICK u \in Putting : Key(u) = k BY <3>1 DEF PutKeys
      <4>2. u \in Task /\ u # t /\ u \in Putting' /\ Key(u)' = k
        BY <1>1, <1>4, <4>1, OthersPut DEF Putting
      <4> QED BY <2>1, <3>1, <4>2 DEF PutKeys
    <3> QED BY <3>1
  <2>4. Cardinality(Trimming) <= Cardinality(Trimming') BY <2>2, PutKeysFiniteAfter, OneMore
  <2>5. Cardinality(PutKeys) <= Cardinality(PutKeys') + 1
    BY <2>3, PutKeysFinite, PutKeysFiniteAfter, OneLess
  <2>6. Len(entriesLru) \in Nat /\ Len(entriesLru') \in Nat BY <1>1, <2>1, LenProperties
  <2> QED BY <1>2, <2>1, <2>4, <2>5, <2>6, BoundKept
<1> QED BY <1>3, <1>4

(* What a task does on the way through a key. *)
LEMMA QuietTask ==
  ASSUME ThumbsInv, NEW t \in Task, task[t].at \in {"look", "touch", "read"}, TasksKept, newest' = newest,
         missed' = missed,
         entriesLru' = entriesLru \/ (Holds(Key(t)) /\ entriesLru' = ToEnd(Key(t))),
         \A u \in Task : u # t => task'[u] = task[u]
  PROVE  ThumbsInv'
<1>1. entriesLru \in Seq(Pictures(missed)) BY DEF ThumbsInv, ThumbsTypes
<1>2. /\ entriesLru' \in Seq(Pictures(missed)) /\ Len(entriesLru') = Len(entriesLru)
      /\ \A q : Holds(q) => Holds(q)'
  BY <1>1, MovedEntry DEF Holds
<1>3. CacheBounded' BY <1>2, QuietStep
<1> QED BY <1>2, <1>3 DEF ThumbsInv, ThumbsTypes, TasksKept

LEMMA GoesOnly ==
  ASSUME ThumbsInv, NEW t \in Task, NEW p, Goes(t, p)
  PROVE  (\A u \in Task : u # t => task'[u] = task[u])
BY DEF ThumbsInv, ThumbsTypes, Goes

LEMMA ThumbsInductive == ThumbsInv /\ [ThumbsNext]_thumbsVars => ThumbsInv'
<1> SUFFICES ASSUME ThumbsInv, [ThumbsNext]_thumbsVars PROVE ThumbsInv' OBVIOUS
<1>0. /\ entriesLru \in Seq(Pictures(missed)) /\ newest \in [Views -> Task \cup {"none"}]
      /\ task \in [Task -> TaskRecords]
  BY DEF ThumbsInv, ThumbsTypes
<1>1. ASSUME NEW t \in Task, Look(t) PROVE ThumbsInv'
  <2>1. PICK p \in {"touch", "put"} : Goes(t, p) BY <1>1 DEF Look
  <2>2. task[t].at = "look" /\ entriesLru' = entriesLru /\ newest' = newest /\ missed' = missed
    BY <1>1 DEF Look
  <2>3. TasksKept BY <2>1, <2>2, StaysOnKey DEF TaskSteps
  <2> QED BY <2>1, <2>2, <2>3, GoesOnly, QuietTask
<1>2. ASSUME NEW t \in Task, Touch(t) PROVE ThumbsInv'
  <2>1. PICK p \in {"read", "raised"} : Goes(t, p) BY <1>2 DEF Touch, Access
  <2>2. /\ task[t].at = "touch" /\ newest' = newest /\ missed' = missed
        /\ entriesLru' = entriesLru \/ (Holds(Key(t)) /\ entriesLru' = ToEnd(Key(t)))
    BY <1>2 DEF Touch, Access
  <2>3. TasksKept BY <2>1, <2>2, StaysOnKey DEF TaskSteps
  <2> QED BY <2>1, <2>2, <2>3, GoesOnly, QuietTask
<1>3. ASSUME NEW t \in Task, Read(t) PROVE ThumbsInv'
  <2> DEFINE p == IF Holds(Key(t)) THEN "answered" ELSE "raised"
             g == Holds(Key(t)) /\ ImageOf(Key(t))
  <2>1. /\ task[t].at = "read" /\ entriesLru' = entriesLru /\ newest' = newest /\ missed' = missed
        /\ task' = [task EXCEPT ![t].at = p, ![t].image = g]
    BY <1>3 DEF Read
  <2>6. PICK k : k = Key(t) OBVIOUS
  <2>7. Holds(k) => ImageOf(k) \in BOOLEAN /\ Told(k, ImageOf(k), missed) BY <1>0, ImageFound
  <2>2. p \in TaskSteps /\ g \in BOOLEAN /\ (p \in {"move", "count", "pop", "answered"} => Holds(Key(t)))
    BY <2>6, <2>7 DEF TaskSteps
  <2>3. Holds(Key(t)) => Told(Key(t), g, missed) BY <2>6, <2>7 DEF Told
  <2>4. \A u \in Task : u # t => task'[u] = task[u] BY <1>0, <2>1
  <2> HIDE DEF p, g
  <2>5. TasksKept BY <2>1, <2>2, <2>3, GetsPicture
  <2> QED BY <2>1, <2>4, <2>5, QuietTask
<1>4. ASSUME NEW t \in Task, Put(t) PROVE ThumbsInv'
  <2>1. PICK g \in {FALSE, Key(t) \in Readable} :
          /\ entriesLru' = Assign(Key(t), g)
          /\ task' = [task EXCEPT ![t].at = "move", ![t].image = g]
          /\ missed' = missed \cup ({Key(t)} \cap IF g THEN {} ELSE Readable)
    BY <1>4 DEF Put
  <2>2. task[t].at = "put" /\ newest' = newest /\ g \in BOOLEAN /\ missed \subseteq missed'
    <3>1. (Key(t) \in Readable) \in BOOLEAN OBVIOUS
    <3>2. g \in BOOLEAN BY <3>1, Zenon
    <3>3. task[t].at = "put" /\ newest' = newest BY <1>4 DEF Put
    <3> QED BY <2>1, <3>2, <3>3
  <2>3. Told(Key(t), g, missed')
    <3>1. CASE g BY <2>1, <3>1 DEF Told
    <3>2. CASE ~g BY <2>1, <3>2 DEF Told
    <3> QED BY <3>1, <3>2
  <2>4. Only(t, "move") BY <1>0, <2>1, <2>2, TaskRunning DEF Only, TaskRecords
  <2>5. CacheBounded' /\ entriesLru' \in Seq(Pictures(missed'))
    BY <2>1, <2>2, <2>3, <2>4, PutBounded
  <2>6. TasksKept BY <2>1, <2>2, <2>3, GetsPicture DEF TaskSteps
  <2> QED BY <1>0, <2>2, <2>5, <2>6 DEF ThumbsInv, ThumbsTypes, TasksKept
<1>5. ASSUME NEW t \in Task, MoveToEnd(t) PROVE ThumbsInv'
  <2>1. PICK p \in {"count", "raised"} :
          /\ Goes(t, p)
          /\ \/ Holds(Key(t)) /\ entriesLru' = ToEnd(Key(t)) /\ p = "count"
             \/ ~Holds(Key(t)) /\ entriesLru' = entriesLru
    BY <1>5 DEF MoveToEnd, Access
  <2>2. task[t].at = "move" /\ newest' = newest /\ missed' = missed BY <1>5 DEF MoveToEnd
  <2>3. Only(t, p) BY <1>0, <2>1, <2>2, TaskRunning DEF Only, TaskRecords, Goes
  <2>4. CacheBounded' /\ entriesLru' \in Seq(Pictures(missed)) BY <2>1, <2>2, <2>3, MoveBounded
  <2>5. TasksKept
    <3>1. Told(Key(t), task[t].image, missed) BY <2>2, TaskRunning DEF Faithful, Key
    <3> QED BY <2>1, <2>2, <3>1, StaysOnKey DEF TaskSteps
  <2> QED BY <1>0, <2>2, <2>4, <2>5 DEF ThumbsInv, ThumbsTypes, TasksKept
<1>6. ASSUME NEW t \in Task, CountEntries(t) PROVE ThumbsInv'
  <2>1. PICK p \in {"pop", "answered"} : Goes(t, p) BY <1>6 DEF CountEntries
  <2>2. task[t].at = "count" /\ newest' = newest /\ missed' = missed /\ entriesLru' = entriesLru
    BY <1>6 DEF CountEntries
  <2>3. Told(Key(t), task[t].image, missed) BY <2>2, TaskRunning DEF Faithful, Key
  <2>4. TasksKept BY <2>1, <2>2, <2>3, StaysOnKey DEF TaskSteps
  <2>5. CacheBounded' BY <1>6, CountBounded
  <2> QED BY <1>0, <2>2, <2>4, <2>5 DEF ThumbsInv, ThumbsTypes, TasksKept
<1>7. ASSUME NEW t \in Task, PopOldest(t) PROVE ThumbsInv'
  <2>1. PICK p \in {"count", "raised"} : Goes(t, p) BY <1>7 DEF PopOldest
  <2>2. task[t].at = "pop" /\ newest' = newest /\ missed' = missed BY <1>7 DEF PopOldest
  <2>3. Told(Key(t), task[t].image, missed) BY <2>2, TaskRunning DEF Faithful, Key
  <2>4. TasksKept BY <2>1, <2>2, <2>3, StaysOnKey DEF TaskSteps
  <2>5. CacheBounded' /\ entriesLru' \in Seq(Pictures(missed)) BY <1>7, PopBounded
  <2> QED BY <1>0, <2>2, <2>4, <2>5 DEF ThumbsInv, ThumbsTypes, TasksKept
<1>8. ASSUME NEW t \in Task, Answer(t) \/ Raise(t) PROVE ThumbsInv'
  <2>1. TasksKept /\ newest' = newest /\ missed' = missed /\ entriesLru' = entriesLru
    BY <1>8, Answered, Raised DEF Answer, Raise
  <2>2. task[t].at \in {"answered", "raised"} /\ \A u \in Task : u # t => task'[u] = task[u]
    BY <1>0, <1>8 DEF Answer, Raise
  <2>3. CacheBounded' BY <1>0, <2>1, <2>2, QuietStep DEF Holds
  <2> QED BY <1>0, <2>1, <2>3 DEF ThumbsInv, ThumbsTypes, TasksKept
<1>9. ASSUME NEW t \in Task, NEW v \in Views, NEW keys \in Wanted, StartLoad(v, keys, t) PROVE ThumbsInv'
  <2>1. /\ TasksKept /\ newest' \in [Views -> Task \cup {"none"}] /\ entriesLru' = entriesLru
        /\ missed' = missed
    BY <1>9, Started DEF StartLoad
  <2>2. task[t].at = "over" /\ \A u \in Task : u # t => task'[u] = task[u]
    BY <1>0, <1>9 DEF StartLoad
  <2>3. CacheBounded' BY <1>0, <2>1, <2>2, QuietStep DEF Holds
  <2> QED BY <1>0, <2>1, <2>3 DEF ThumbsInv, ThumbsTypes, TasksKept
<1>10. ASSUME NEW v \in Views, Supersede(v) PROVE ThumbsInv'
  <2>1. /\ TasksKept /\ newest' \in [Views -> Task \cup {"none"}] /\ entriesLru' = entriesLru
        /\ task' = task /\ missed' = missed
    BY <1>10, Superseded DEF Supersede
  <2>2. CacheBounded' BY <1>0, <2>1, QuietStep DEF Holds
  <2> QED BY <1>0, <2>1, <2>2 DEF ThumbsInv, ThumbsTypes, TasksKept
<1>11. CASE UNCHANGED thumbsVars
  BY <1>11 DEF thumbsVars, ThumbsInv, ThumbsTypes, Latest, CacheBounded, PutKeys, Putting, Trimming, Holds, Key
<1> QED BY <1>1, <1>2, <1>3, <1>4, <1>5, <1>6, <1>7, <1>8, <1>9, <1>10, <1>11 DEF ThumbsNext

LEMMA ThumbsAtStart == ThumbsInit => ThumbsInv
<1> SUFFICES ASSUME ThumbsInit PROVE ThumbsInv OBVIOUS
<1>1. NoTask \in TaskRecords /\ NoTask.at = "over" /\ Faithful(NoTask, missed)
  BY EmptySeq DEF NoTask, TaskRecords, Faithful
<1>2. task \in [Task -> TaskRecords] /\ \A t \in Task : task[t] = NoTask BY <1>1 DEF ThumbsInit
<1>3. entriesLru \in Seq(Pictures(missed)) /\ Len(entriesLru) = 0 BY EmptySeq DEF ThumbsInit
<1>4. CacheBounded BY <1>3, PutKeysFinite, FS_CardinalityType, ThumbsAssumption DEF CacheBounded
<1> QED BY <1>1, <1>2, <1>3, <1>4 DEF ThumbsInit, ThumbsInv, ThumbsTypes, Latest

(* When the last task of a view is over and lost nothing, each of its rows
   that can be shown has its picture; the cache has no more entries above
   its limit than there are tasks putting theirs, whatever the threads of
   the pool do in between. *)
THEOREM ThumbsShownAlways == ThumbsSpec => []ThumbsShown
<1>1. ThumbsInv => ThumbsShown
  <2> SUFFICES ASSUME ThumbsInv PROVE ThumbsShown OBVIOUS
  <2>1. ASSUME NEW v \in Views, newest[v] # "none", task[newest[v]].at = "over", ~task[newest[v]].lost
        PROVE  /\ (ToSet(task[newest[v]].keys) \cap Readable) \ missed \subseteq task[newest[v]].shown
               /\ task[newest[v]].shown \subseteq ToSet(task[newest[v]].keys) \cap Readable
    <3>1. newest[v] \in Task /\ task[newest[v]].todo = <<>> /\ Faithful(task[newest[v]], missed)
      BY <2>1 DEF ThumbsInv, Latest
    <3>2. ToSet(<<>>) = {} BY DEF ToSet
    <3> QED BY <3>1, <3>2 DEF Faithful
  <2>2. Len(entriesLru) <= MaxEntries + Cardinality({t \in Task : task[t].at \in {"move", "count", "pop"}})
    <3> DEFINE S == {t \in Task : task[t].at \in {"move", "count", "pop"}}
    <3>1. Putting \cap Trimming = {} /\ Putting \cup Trimming = S BY DEF Putting, Trimming
    <3>2. IsFiniteSet(S) /\ IsFiniteSet(Putting) /\ IsFiniteSet(Trimming)
          /\ Cardinality(PutKeys) <= Cardinality(Putting)
      BY PutKeysFinite, ThumbsAssumption, FS_Subset
    <3> HIDE DEF S
    <3>3. Cardinality(S) = Cardinality(Putting) + Cardinality(Trimming)
      <4>1. Cardinality(Putting \cap Trimming) = 0 BY <3>1, FS_EmptySet
      <4>2. Cardinality(Putting \cup Trimming)
              = Cardinality(Putting) + Cardinality(Trimming) - Cardinality(Putting \cap Trimming)
        BY <3>2, FS_Union
      <4>3. Cardinality(Putting) \in Nat /\ Cardinality(Trimming) \in Nat
        BY <3>2, FS_CardinalityType
      <4>4. Cardinality(S) = Cardinality(Putting) + Cardinality(Trimming) - 0
        BY <3>1, <4>1, <4>2, Zenon
      <4> QED BY <4>3, <4>4
    <3>4. /\ Cardinality(Putting) \in Nat /\ Cardinality(Trimming) \in Nat
          /\ Cardinality(PutKeys) \in Nat /\ Len(entriesLru) \in Nat /\ MaxEntries \in Nat
      BY <3>2, PutKeysFinite, FS_CardinalityType, LenProperties, ThumbsAssumption DEF ThumbsInv, ThumbsTypes
    <3> HIDE DEF S
    <3> QED BY <3>2, <3>3, <3>4 DEF ThumbsInv, CacheBounded, S
  <2> QED BY <2>1, <2>2 DEF ThumbsShown
<1> QED BY <1>1, ThumbsInductive, ThumbsAtStart, PTL DEF ThumbsSpec

------------------------------------------------------------------------------
(* The store and its coordinator. *)

(* A set of numbers that is not empty has a smallest member. *)
LEMMA SmallestNumber ==
  ASSUME NEW T \in SUBSET Nat, T # {}
  PROVE  \E m \in T : \A k \in T : m <= k
<1>1. IsWellFoundedOn({ss \in Nat \X Nat : ss[1] < ss[2]}, Nat)
  BY Zenon, NatLessThanWellFounded DEF OpToRel
<1>2. PICK m \in T : \A k \in T : <<k, m>> \notin {ss \in Nat \X Nat : ss[1] < ss[2]} BY <1>1, WFMin
<1>3. ASSUME NEW k \in T PROVE m <= k
  <2>1. k \in Nat /\ m \in Nat /\ ~(k < m) BY <1>2
  <2> QED BY <2>1
<1> QED BY <1>3

(* A sequence that is cut into pieces is what FlattenSeq makes of them. *)
LEMMA FlattenPieces ==
  ASSUME NEW R, NEW rows \in Seq(R), NEW seqs \in Seq(Seq(R)), Len(seqs) # 0,
         NEW cut \in [0..Len(seqs) -> 0..Len(rows)],
         cut[0] = 0, cut[Len(seqs)] = Len(rows),
         \A p \in 1..Len(seqs) : cut[p-1] <= cut[p] /\ seqs[p] = SubSeq(rows, cut[p-1] + 1, cut[p])
  PROVE  FlattenSeq(seqs) = rows
<1> DEFINE N == Len(seqs)
           So(i) == SubSeq(rows, 1, cut[i])
           Def(f) == f = [i \in 1..Len(seqs) |-> IF i = 1 THEN seqs[i] ELSE f[i-1] \o seqs[i]]
<1>0. N \in Nat \ {0} OBVIOUS
<1>1. So(N) = rows BY SubSeqFull
<1>2. seqs[1] = So(1)
  <2>1. 1 \in 1..N /\ cut[1-1] = 0 OBVIOUS
  <2>2. seqs[1] = SubSeq(rows, cut[1-1] + 1, cut[1]) BY <2>1
  <2> QED BY <2>1, <2>2
<1>3. ASSUME NEW i \in 1..N, i # 1 PROVE So(i) = So(i-1) \o seqs[i]
  <2>1. cut[i-1] \in 0..Len(rows) /\ cut[i] \in 0..Len(rows) /\ cut[i-1] <= cut[i]
    <3>1. i - 1 \in 0..N /\ i \in 0..N /\ i \in 1..N BY <1>3
    <3> QED BY <3>1
  <2>2. seqs[i] = SubSeq(rows, cut[i-1] + 1, cut[i]) OBVIOUS
  <2>3. 1 \in 1..Len(rows)+1 /\ cut[i-1] \in (1-1)..Len(rows) /\ cut[i] \in cut[i-1]..Len(rows)
    BY <2>1
  <2>4. SubSeq(rows, 1, cut[i-1]) \o SubSeq(rows, cut[i-1] + 1, cut[i]) = SubSeq(rows, 1, cut[i])
    BY <2>3, ConcatAdjacentSubSeq
  <2> QED BY <2>2, <2>4
<1> HIDE DEF So
<1>4. ASSUME NEW f, Def(f) PROVE \A i \in 1..N : f[i] = So(i)
  <2>1. \A i \in 1..N : f[i] = IF i = 1 THEN seqs[i] ELSE f[i-1] \o seqs[i]
    <3>1. f = [i \in 1..N |-> IF i = 1 THEN seqs[i] ELSE f[i-1] \o seqs[i]] BY <1>4
    <3> QED BY <3>1
  <2> DEFINE Wrong == {i \in 1..N : f[i] # So(i)}
  <2> SUFFICES ASSUME Wrong # {} PROVE FALSE OBVIOUS
  <2>2. PICK m \in Wrong : \A k \in Wrong : m <= k
    <3>1. Wrong \in SUBSET Nat OBVIOUS
    <3> HIDE DEF Wrong
    <3> QED BY <3>1, SmallestNumber
  <2>3. m \in 1..N /\ f[m] # So(m) OBVIOUS
  <2>4. m # 1 BY <1>2, <2>1, <2>3
  <2>5. m - 1 \in 1..N /\ ~(m <= m - 1) BY <2>3, <2>4
  <2>6. f[m-1] = So(m-1) BY <2>2, <2>5
  <2>7. f[m] = f[m-1] \o seqs[m] BY <2>1, <2>3, <2>4
  <2> QED BY <1>3, <2>3, <2>4, <2>6, <2>7
<1>5. Def([i \in 1..N |-> So(i)])
  <2> DEFINE g == [i \in 1..N |-> So(i)]
             h == [i \in 1..Len(seqs) |-> IF i = 1 THEN seqs[i] ELSE g[i-1] \o seqs[i]]
  <2>1. DOMAIN h = 1..N OBVIOUS
  <2>2. ASSUME NEW i \in 1..N PROVE g[i] = h[i]
    <3>1. CASE i = 1 BY <1>2, <3>1
    <3>2. CASE i # 1
      <4>1. i - 1 \in 1..N BY <3>2
      <4> QED BY <1>3, <3>2, <4>1
    <3> QED BY <3>1, <3>2
  <2>3. g = h BY <2>1, <2>2
  <2> QED BY <2>3
<1>6. PICK f : f = (CHOOSE g : Def(g)) OBVIOUS
<1>7. Def(f)
  <2> HIDE DEF Def
  <2> QED BY <1>5, <1>6
<1>8. FlattenSeq(seqs) = f[N]
  <2>1. Len(seqs) # 0 OBVIOUS
  <2> QED BY <1>6, <2>1 DEF FlattenSeq
<1>9. f[N] = So(N)
  <2>1. N \in 1..N OBVIOUS
  <2> HIDE DEF Def
  <2> QED BY <1>4, <1>7, <2>1
<1> QED BY <1>1, <1>8, <1>9

(* The pages are as many as the rows need. *)
LEMMA PagesEnough ==
  ASSUME NEW n \in Nat
  PROVE  /\ NumPages(n) \in Nat \ {0} /\ n <= NumPages(n) * PageSize
         /\ n > 0 => (NumPages(n) - 1) * PageSize < n
<1>1. PageSize \in Nat /\ PageSize > 0 BY AppStateAssumption
<1>2. CASE n = 0
  <2>1. NumPages(n) = 1 BY <1>2 DEF NumPages
  <2> QED BY <1>1, <1>2, <2>1
<1>3. CASE n > 0
  <2> DEFINE q == (n + PageSize - 1) \div PageSize
  <2>1. NumPages(n) = q BY <1>3 DEF NumPages
  <2>2. q \in Int /\ q * PageSize <= n + PageSize - 1 /\ n + PageSize - 1 < (q + 1) * PageSize
    BY <1>1, <1>3
  <2> HIDE DEF q
  <2>3. (q + 1) * PageSize = q * PageSize + PageSize /\ (q - 1) * PageSize = q * PageSize - PageSize
        /\ q * PageSize \in Int
    BY <1>1, <2>2
  <2>4. n <= q * PageSize /\ (q - 1) * PageSize < n BY <1>1, <2>2, <2>3
  <2>5. q > 0 BY <1>1, <1>3, <2>2, <2>4
  <2> QED BY <2>1, <2>2, <2>4, <2>5
<1> QED BY <1>2, <1>3

(* The store keeps its fields and loads rows of the history only; the
   selection was made since the groups last changed. *)
StoreFields == {"groups", "selected_files", "history_scan_rows"}

StoreInv ==
  /\ StoreFields \subseteq DOMAIN store
  /\ store.history_scan_rows \in Seq(HistoryRow)
  /\ SelectionCurrent

LEMMA RowsFound ==
  ASSUME StoreInv
  PROVE  \E R : SortedRows(store) \in Seq(R)
<1> DEFINE all  == store.history_scan_rows
           hits == {i \in DOMAIN all : Matches(all[i], store.history_filter)}
<1>1. all \in Seq(HistoryRow) /\ Len(all) \in Nat /\ DOMAIN all = 1..Len(all) BY DEF StoreInv
<1>2. IsFiniteSet(1..Len(all)) BY <1>1, FS_Interval
<1>3. IsFiniteSet(hits)
  <2>1. hits \subseteq 1..Len(all) BY <1>1
  <2> HIDE DEF all, hits
  <2> QED BY <1>2, <2>1, FS_Subset
<1>4. Cardinality(hits) \in Nat BY <1>3, FS_CardinalityType
<1>5. \E f : SortedRows(store) = [k \in 1..Cardinality(hits) |-> f[k]]
  <2> DEFINE key(i) == SortKey(all[i], store.history_sort_column)
             before(i, j) == \/ IF store.history_sort_asc THEN key(i) < key(j) ELSE key(i) > key(j)
                             \/ key(i) = key(j) /\ i < j
             order == SetToSortSeq(hits, before)
             f == [k \in 1..Cardinality(hits) |-> all[order[k]]]
  <2>1. SortedRows(store) = f BY DEF SortedRows
  <2>2. f = [k \in 1..Cardinality(hits) |-> f[k]] OBVIOUS
  <2> QED BY <2>1, <2>2
<1>6. PICK f : SortedRows(store) = [k \in 1..Cardinality(hits) |-> f[k]] BY <1>5
<1>7. [k \in 1..Cardinality(hits) |-> f[k]] \in Seq({f[k] : k \in 1..Cardinality(hits)})
  <2> HIDE DEF hits
  <2> QED BY <1>4
<1> QED BY <1>6, <1>7

LEMMA PagesAreComplete ==
  ASSUME StoreInv
  PROVE  PagesComplete
<1>1. PICK R : SortedRows(store) \in Seq(R) BY RowsFound
<1> DEFINE rows == SortedRows(store)
           n == Len(rows)
           N == NumPages(n)
           cut == [p \in 0..N |-> IF p * PageSize < n THEN p * PageSize ELSE n]
           seqs == [p \in 1..N |-> PageRows(store, p - 1)]
<1>2. /\ rows \in Seq(R) /\ n \in Nat /\ PageSize \in Nat /\ PageSize > 0
      /\ N \in Nat \ {0} /\ n <= N * PageSize /\ (n > 0 => (N - 1) * PageSize < n)
  <2> HIDE DEF N
  <2>1. rows \in Seq(R) /\ n \in Nat BY <1>1
  <2> HIDE DEF n
  <2>2. N \in Nat \ {0} /\ n <= N * PageSize /\ (n > 0 => (N - 1) * PageSize < n)
    BY <2>1, PagesEnough DEF N
  <2> QED BY <2>1, <2>2, AppStateAssumption
<1>3. ASSUME NEW p \in Nat
      PROVE  LET c == IF p > N - 1 THEN N - 1 ELSE p
                 stop == IF c * PageSize + PageSize < n THEN c * PageSize + PageSize ELSE n
             IN  PageRows(store, p) = SubSeq(rows, c * PageSize + 1, stop)
  BY DEF PageRows, ClampedPage
<1> HIDE DEF rows, N
<1>4. ASSUME NEW p \in 0..N PROVE p * PageSize \in Nat BY <1>2
<1>5. ASSUME NEW p \in 0..N, p < N PROVE n > 0 => p * PageSize < n
  <2>1. p * PageSize <= (N - 1) * PageSize BY <1>2, <1>5
  <2>2. p * PageSize \in Nat /\ (N-1) * PageSize \in Nat BY <1>2
  <2> QED BY <1>2, <2>1, <2>2
<1>6. cut \in [0..N -> 0..n] /\ cut[0] = 0 /\ cut[N] = n
  <2>1. ASSUME NEW p \in 0..N PROVE (IF p * PageSize < n THEN p * PageSize ELSE n) \in 0..n
    BY <1>2, <1>4
  <2>2. 0 * PageSize = 0 /\ 0 \in 0..N /\ N \in 0..N /\ N * PageSize \in Nat BY <1>2
  <2> QED BY <1>2, <2>1, <2>2
<1>7. ASSUME NEW p \in 1..N
      PROVE  cut[p-1] <= cut[p] /\ PageRows(store, p - 1) = SubSeq(rows, cut[p-1] + 1, cut[p])
  <2>1. p - 1 \in 0..N /\ p \in 0..N /\ p - 1 < N /\ p - 1 \in Nat /\ ~(p - 1 > N - 1) BY <1>2
  <2>2. p * PageSize = (p - 1) * PageSize + PageSize /\ (p - 1) * PageSize \in Nat /\ p * PageSize \in Nat
    BY <1>2, <1>4, <2>1
  <2>3. cut[p-1] = (p - 1) * PageSize
    <3>1. cut[p-1] = IF (p - 1) * PageSize < n THEN (p - 1) * PageSize ELSE n BY <2>1
    <3>2. CASE n > 0 BY <1>5, <2>1, <3>1, <3>2
    <3>3. CASE n = 0
      <4>1. N = 1 BY <3>3 DEF N, NumPages
      <4>2. p = 1 BY <4>1
      <4>3. (p - 1) * PageSize = 0 BY <1>2, <4>2
      <4> QED BY <3>1, <3>3, <4>3
    <3> QED BY <1>2, <3>2, <3>3
  <2>4. cut[p] = IF p * PageSize < n THEN p * PageSize ELSE n BY <2>1
  <2>5. PageRows(store, p - 1)
          = SubSeq(rows, (p - 1) * PageSize + 1,
                   IF (p - 1) * PageSize + PageSize < n THEN (p - 1) * PageSize + PageSize ELSE n)
    BY <1>3, <2>1
  <2>6. cut[p-1] \in 0..n BY <1>6, <2>1
  <2> HIDE DEF cut
  <2>7. cut[p] = IF (p - 1) * PageSize + PageSize < n THEN (p - 1) * PageSize + PageSize ELSE n
    BY <2>2, <2>4
  <2>8. cut[p-1] <= cut[p] BY <1>2, <2>2, <2>3, <2>4, <2>6
  <2> QED BY <2>3, <2>5, <2>7, <2>8
<1>8. seqs \in Seq(Seq(R)) /\ Len(seqs) = N
  <2>1. ASSUME NEW p \in 1..N PROVE PageRows(store, p - 1) \in Seq(R)
    <3>1. cut[p-1] \in 0..n /\ cut[p] \in 0..n
      <4>1. p - 1 \in 0..N /\ p \in 0..N BY <1>2
      <4> QED BY <1>6, <4>1
    <3> HIDE DEF cut
    <3>2. \A i \in cut[p-1] + 1 .. cut[p] : rows[i] \in R BY <1>2, <3>1
    <3>3. cut[p-1] + 1 \in Int /\ cut[p] \in Int BY <1>2, <3>1
    <3>4. SubSeq(rows, cut[p-1] + 1, cut[p]) \in Seq(R) BY <3>2, <3>3, SubSeqProperties
    <3> QED BY <1>7, <3>4
  <2>2. seqs \in [1..N -> Seq(R)] BY <2>1
  <2> HIDE DEF seqs
  <2> QED BY <1>2, <2>2
<1>9. FlattenSeq(seqs) = rows
  <2>1. \A p \in 1..N : cut[p-1] <= cut[p] /\ seqs[p] = SubSeq(rows, cut[p-1] + 1, cut[p]) BY <1>7
  <2>2. /\ cut \in [0..Len(seqs) -> 0..Len(rows)] /\ cut[0] = 0 /\ cut[Len(seqs)] = Len(rows)
        /\ \A p \in 1..Len(seqs) : cut[p-1] <= cut[p] /\ seqs[p] = SubSeq(rows, cut[p-1] + 1, cut[p])
    BY <1>6, <1>8, <2>1
  <2>3. rows \in Seq(R) /\ seqs \in Seq(Seq(R)) /\ Len(seqs) # 0 BY <1>2, <1>8
  <2> HIDE DEF cut, seqs, n
  <2> QED BY <2>2, <2>3, FlattenPieces, Zenon
<1>10. ASSUME rows # <<>>, NEW p \in 0..MaxPage PROVE PageRows(store, p) # <<>>
  <2> DEFINE c == IF p > N - 1 THEN N - 1 ELSE p
             stop == IF c * PageSize + PageSize < n THEN c * PageSize + PageSize ELSE n
  <2>1. p \in Nat BY StoreAssumption
  <2>2. c \in 0..N /\ c < N /\ c \in Nat BY <1>2, <2>1
  <2>3. PageRows(store, p) = SubSeq(rows, c * PageSize + 1, stop) BY <1>3, <2>1
  <2>4. n > 0 BY <1>2, <1>10, EmptySeq
  <2> HIDE DEF c
  <2>5. c * PageSize \in Nat /\ c * PageSize < n BY <1>4, <1>5, <2>2, <2>4
  <2>6. stop \in c * PageSize + 1 .. n BY <1>2, <2>5
  <2> HIDE DEF stop
  <2>7. \A i \in c * PageSize + 1 .. stop : rows[i] \in R BY <1>2, <2>5, <2>6
  <2>8. Len(SubSeq(rows, c * PageSize + 1, stop)) = stop - (c * PageSize + 1) + 1
    BY <1>2, <2>5, <2>6, <2>7, SubSeqProperties
  <2>9. stop - (c * PageSize + 1) + 1 # 0 BY <1>2, <2>5, <2>6
  <2>10. Len(<<>>) = 0 OBVIOUS
  <2> QED BY <2>3, <2>8, <2>9, <2>10, Zenon
<1> QED BY <1>9, <1>10 DEF PagesComplete, rows, N
(* What each reducer makes of the rows, the groups and the selection. *)
ResultActions == {"ResultsViewTextFilterChanged", "SetDryRun", "ResultsFilesRemoved", "GroupsPruned",
                  "ReviewViewFilterChanged", "WorkspaceUiPreferencesChanged"}

LEMMA UiReduced ==
  ASSUME NEW s, StoreFields \subseteq DOMAIN s, NEW act, act.type \in UiActions
  PROVE  /\ StoreFields \subseteq DOMAIN Reduce(s, act)
         /\ Reduce(s, act).history_scan_rows = s.history_scan_rows
         /\ Reduce(s, act).groups = s.groups
         /\ Reduce(s, act).selected_files = s.selected_files
<1>1. Reduce(s, act) = ReduceUi(s, act) BY DEF Reduce, UiActions, ScanActions, HistoryActions
<1> QED BY <1>1 DEF ReduceUi, UiActions, StoreFields

LEMMA HistoryReduced ==
  ASSUME NEW s, StoreFields \subseteq DOMAIN s, NEW act, act.type \in HistoryActions
  PROVE  /\ StoreFields \subseteq DOMAIN Reduce(s, act)
         /\ Reduce(s, act).history_scan_rows
              = IF act.type = "HistoryDataLoaded" THEN act.value ELSE s.history_scan_rows
         /\ Reduce(s, act).groups = s.groups
         /\ Reduce(s, act).selected_files = s.selected_files
<1>1. Reduce(s, act) = ReduceHistory(s, act) BY DEF Reduce, UiActions, ScanActions, HistoryActions
<1> QED BY <1>1 DEF ReduceHistory, HistoryActions, StoreFields

LEMMA ScanReduced ==
  ASSUME NEW s, StoreFields \subseteq DOMAIN s, NEW act, act.type \in ScanActions
  PROVE  /\ StoreFields \subseteq DOMAIN Reduce(s, act)
         /\ Reduce(s, act).history_scan_rows = s.history_scan_rows
         /\ Reduce(s, act).groups = IF act.type = "ScanCompleted" THEN act.groups ELSE s.groups
         /\ Reduce(s, act).selected_files
              = IF act.type = "FileSelectionChanged" THEN act.file_ids
                ELSE IF act.type \in {"FileSelectionCleared", "ScanCompleted"} THEN {}
                ELSE s.selected_files
<1>1. Reduce(s, act) = ReduceScan(s, act) BY DEF Reduce, UiActions, ScanActions, HistoryActions
<1> QED BY <1>1 DEF ReduceScan, ScanActions, StoreFields, ScanOver

LEMMA ResultsReduced ==
  ASSUME NEW s, StoreFields \subseteq DOMAIN s, NEW act, act.type \in ResultActions
  PROVE  /\ StoreFields \subseteq DOMAIN Reduce(s, act)
         /\ Reduce(s, act).history_scan_rows = s.history_scan_rows
         /\ \/ Reduce(s, act).selected_files = {}
            \/ Reduce(s, act).groups = s.groups /\ Reduce(s, act).selected_files = s.selected_files
<1>1. Reduce(s, act) = ReduceResults(s, act)
  BY DEF Reduce, UiActions, ScanActions, HistoryActions, ResultActions
<1> QED BY <1>1 DEF ReduceResults, ResultActions, StoreFields

(* All actions but those that load rows or change the selection. *)
PlainActions == UiActions \cup (HistoryActions \ {"HistoryDataLoaded"})
                \cup (ScanActions \ {"FileSelectionChanged"}) \cup ResultActions

LEMMA StoreKept ==
  ASSUME StoreInv, NEW act, dispatch(act), act.type \in PlainActions
  PROVE  StoreInv'
<1>1. store' = Reduce(store, act) /\ picked' = Picked(act) /\ StoreFields \subseteq DOMAIN store
      /\ store.history_scan_rows \in Seq(HistoryRow) /\ store.selected_files \subseteq picked
  BY DEF StoreInv, SelectionCurrent, dispatch
<1>2. /\ store'.history_scan_rows = store.history_scan_rows /\ StoreFields \subseteq DOMAIN store'
      /\ \/ store'.selected_files = {}
         \/ /\ store'.selected_files = store.selected_files /\ store'.groups = store.groups
            /\ act.type \notin {"FileSelectionChanged", "ScanCompleted"}
  <2>1. CASE act.type \in UiActions
    <3>1. act.type \notin {"FileSelectionChanged", "ScanCompleted"} BY <2>1 DEF UiActions
    <3> QED BY <1>1, <2>1, <3>1, UiReduced
  <2>2. CASE act.type \in HistoryActions \ {"HistoryDataLoaded"}
    <3>1. act.type \notin {"FileSelectionChanged", "ScanCompleted", "HistoryDataLoaded"}
      BY <2>2 DEF HistoryActions
    <3> QED BY <1>1, <2>2, <3>1, HistoryReduced
  <2>3. CASE act.type \in ScanActions \ {"FileSelectionChanged"} BY <1>1, <2>3, ScanReduced
  <2>4. CASE act.type \in ResultActions
    <3>1. act.type \notin {"FileSelectionChanged", "ScanCompleted"} BY <2>4 DEF ResultActions
    <3> QED BY <1>1, <2>4, <3>1, ResultsReduced
  <2> QED BY <2>1, <2>2, <2>3, <2>4 DEF PlainActions
<1>3. store'.selected_files = {} \/ picked' = picked BY <1>1, <1>2 DEF Picked
<1>4. store'.selected_files \subseteq picked' BY <1>1, <1>2, <1>3
<1> QED BY <1>1, <1>2, <1>4 DEF StoreInv, SelectionCurrent

LEMMA StoreInductive == StoreInv /\ [StoreNext]_storeVars => StoreInv'
<1> SUFFICES ASSUME StoreInv, [StoreNext]_storeVars PROVE StoreInv' OBVIOUS
<1>1. CASE history_data_loaded
  <2>1. PICK rows \in HistoryLoads : dispatch(Value("HistoryDataLoaded", rows))
    BY <1>1 DEF history_data_loaded
  <2>2. /\ Value("HistoryDataLoaded", rows).type = "HistoryDataLoaded"
        /\ Value("HistoryDataLoaded", rows).value = rows /\ rows \in Seq(HistoryRow)
    BY StoreAssumption DEF Value
  <2>3. "HistoryDataLoaded" \in HistoryActions BY DEF HistoryActions
  <2> QED BY <2>1, <2>2, <2>3, HistoryReduced DEF StoreInv, SelectionCurrent, dispatch, Picked
<1>2. CASE selection
  <2>1. CASE \E fs \in Selections : dispatch(SelectionChanged(fs))
    <3>1. PICK fs \in Selections : dispatch(SelectionChanged(fs)) BY <2>1
    <3>2. SelectionChanged(fs).type = "FileSelectionChanged" /\ SelectionChanged(fs).file_ids = fs
      BY DEF SelectionChanged
    <3>3. "FileSelectionChanged" \in ScanActions BY DEF ScanActions
    <3> QED BY <3>1, <3>2, <3>3, ScanReduced DEF StoreInv, SelectionCurrent, dispatch, Picked
  <2>2. CASE dispatch([type |-> "FileSelectionCleared"])
    <3>1. [type |-> "FileSelectionCleared"].type \in PlainActions BY DEF PlainActions, ScanActions
    <3> QED BY <2>2, <3>1, StoreKept
  <2> QED BY <1>2, <2>1, <2>2 DEF selection
<1> USE DEF PlainActions, UiActions, HistoryActions, ScanActions, ResultActions
<1>3. ASSUME NEW name \in PlainActions, NEW v, dispatch(Value(name, v)) PROVE StoreInv'
  BY <1>3, StoreKept DEF Value
<1>4. ASSUME NEW act, dispatch(act), act.type \in PlainActions PROVE StoreInv' BY <1>4, StoreKept
<1>5. CASE \/ history_set_filter \/ history_set_page \/ history_set_subtab
           \/ deletion_history_data_loaded \/ scan_started \/ report_scan_progress \/ scan_ended
           \/ review_open_group \/ review_set_filter
  BY <1>3, <1>5 DEF history_set_filter, history_set_page, history_set_subtab,
     deletion_history_data_loaded, scan_started, report_scan_progress, scan_ended,
     review_open_group, review_set_filter
<1>6. CASE history_set_sort \/ preferences
  <2>1. CASE history_set_sort BY <1>4, <2>1 DEF history_set_sort
  <2>2. CASE preferences BY <1>3, <1>4, <2>2 DEF preferences
  <2> QED BY <1>6, <2>1, <2>2
<1>8. CASE \/ set_active_tab \/ theme \/ scan_paused \/ scan_resumed \/ scan_completed
           \/ results_files_removed \/ results_groups_pruned
  <2>1. /\ \A k : SetActiveTab(k).type \in PlainActions /\ ThemeChanged(k).type \in PlainActions
        /\ \A gs, m : ScanCompleted(gs, m).type \in PlainActions
        /\ \A ps : FilesRemoved(ps).type \in PlainActions /\ GroupsPruned(ps).type \in PlainActions
        /\ [type |-> "ScanPaused"].type \in PlainActions /\ [type |-> "ScanResumed"].type \in PlainActions
    BY DEF SetActiveTab, ThemeChanged, ScanCompleted, FilesRemoved, GroupsPruned
  <2> HIDE DEF PlainActions
  <2> QED BY <1>4, <1>8, <2>1 DEF set_active_tab, theme, scan_paused, scan_resumed, scan_completed,
       results_files_removed, results_groups_pruned
<1>7. CASE UNCHANGED storeVars BY <1>7 DEF StoreInv, SelectionCurrent, storeVars
<1> QED BY <1>1, <1>2, <1>5, <1>6, <1>7, <1>8 DEF StoreNext, ViewsNext, CallsNext

LEMMA StoreAtStart == StoreInit => StoreInv
<1> SUFFICES ASSUME StoreInit PROVE StoreInv OBVIOUS
<1>1. /\ store.history_scan_rows = <<>> /\ store.selected_files = {}
      /\ {"groups", "selected_files", "history_scan_rows"} \subseteq DOMAIN store
  BY DEF StoreInit, create_initial_state
<1> QED BY <1>1, EmptySeq DEF StoreInv, StoreFields, SelectionCurrent

(* StoreConsistent: the pages of the history are its rows, each once,
   whatever is loaded, filtered and sorted (apply_scan_history_view), and
   what is selected was selected since the groups last changed
   (_reduce_scan, _reduce_results). *)
THEOREM StoreConsistentAlways == StoreSpec => []StoreConsistent
<1>1. StoreInv => StoreConsistent BY PagesAreComplete DEF StoreInv, StoreConsistent
<1> QED BY <1>1, StoreInductive, StoreAtStart, PTL DEF StoreSpec

------------------------------------------------------------------------------
(* The screens of the review: what is shown, with what a suspended task
   will add to it, is what the listing and the marks say. *)

(* A part of what the review shows: the types of its fields. *)
ScreenFields ==
  {"shown", "listing", "flags", "picked", "stack", "grid", "detail", "rows", "card", "slot",
   "gen", "tails", "id", "ref", "cmp", "swap", "layouts", "panels", "saved"}

SheetSet == [Gids -> Seq(SheetFiles)]
RowSet   == [group : Gids, files : Seq(SheetFiles), marked : SUBSET SheetFiles]
Layouts  == [Gids -> (Int \X Int \X BOOLEAN) \cup {NoLayout}]
Tails    == [gen : Nat, host : {"list", "grid"}, rest : Seq(Gids), of : SheetSet]

ScreenTypes(s) ==
  /\ DOMAIN s = ScreenFields
  /\ s.listing \in SheetSet
  /\ s.detail \in Gids \cup {NoGid} /\ s.id \in Gids \cup {NoGid}
  /\ s.ref \in Int /\ s.cmp \in Int /\ s.swap \in BOOLEAN /\ s.layouts \in Layouts
  /\ s.saved # <<>> => s.saved[2] \in Layouts
  /\ s.rows \in [{"list", "grid"} -> Seq(RowSet)]
  /\ s.gen \in Nat

(* No task is of a generation to come. *)
TasksBegun(s) == \A t \in s.tails : t \in Tails /\ t.gen <= s.gen

Live(s) == {t \in s.tails : t.gen = s.gen}
Host(s) == IF s.grid THEN "grid" ELSE "list"

(* The rows of a browse view, with those that its task will add. *)
Filling(s) ==
  \/ Live(s) = {} /\ s.rows[Host(s)] = RowsFor(s, Visible(s))
  \/ \E t \in Live(s) : /\ Live(s) = {t} /\ t.host = Host(s) /\ t.of = s.listing
                        /\ s.rows[Host(s)] \o RowsFor(s, t.rest) = RowsFor(s, Visible(s))

BrowseRight(s) ==
  IF s.detail # NoGid THEN s.slot = "detail" /\ s.card = BuildRow(s, s.detail, FilesOf(s, s.detail))
  ELSE Visible(s) # <<>> => s.slot = Host(s) /\ Filling(s)

InspectRight(s) ==
  LET n == Len(FilesOf(s, s.id))
  IN  n >= 1 => /\ {s.ref, s.cmp} \subseteq 0..(n - 1)
                /\ n >= 2 => s.ref # s.cmp
                /\ s.panels = Pair(s)

ScreenRight(s) ==
  /\ Screen(s) = "browse" => BrowseRight(s)
  /\ Screen(s) = "inspect" => InspectRight(s)

ScreensInv == /\ ScreenTypes(rv) /\ TasksBegun(rv)
              /\ rv.shown => ScreenRight(rv)

(* Ordered lists the members of a finite set in a total order, each once. *)
LEMMA OrderedLists ==
  ASSUME NEW S, IsFiniteSet(S), NEW R,
         \A x \in S : <<x, x>> \notin R,
         \A x, y \in S : x # y => <<x, y>> \in R \/ <<y, x>> \in R,
         \A x, y, z \in S : <<x, y>> \in R /\ <<y, z>> \in R => <<x, z>> \in R
  PROVE  /\ Ordered(S, R) \in Seq(S)
         /\ Len(Ordered(S, R)) = Cardinality(S)
         /\ \A x \in S : \E k \in 1..Cardinality(S) : Ordered(S, R)[k] = x
         /\ \A j, k \in 1..Cardinality(S) :
               j < k => <<Ordered(S, R)[j], Ordered(S, R)[k]>> \in R
<1> DEFINE n == Cardinality(S)
           below(x) == {y \in S : <<y, x>> \in R}
           rank == [x \in S |-> Cardinality(below(x))]
<1>1. n \in Nat BY FS_CardinalityType
<1>2. ASSUME NEW x \in S
      PROVE  IsFiniteSet(below(x)) /\ rank[x] \in 0..(n-1) /\ n > 0
  <2>1. below(x) \subseteq S \ {x} OBVIOUS
  <2>2. IsFiniteSet(S \ {x}) /\ Cardinality(S \ {x}) = n - 1 BY FS_RemoveElement
  <2> HIDE DEF below
  <2>3. IsFiniteSet(below(x)) /\ Cardinality(below(x)) <= n - 1 BY <2>1, <2>2, FS_Subset
  <2>4. Cardinality(below(x)) \in Nat BY <2>3, FS_CardinalityType
  <2> QED BY <1>1, <2>3, <2>4
<1>3. ASSUME NEW x \in S, NEW y \in S, <<x, y>> \in R PROVE rank[x] < rank[y]
  <2>1. below(x) \cup {x} \subseteq below(y) /\ x \notin below(x) BY <1>3
  <2>2. IsFiniteSet(below(x)) /\ IsFiniteSet(below(y)) /\ rank[x] \in Nat /\ rank[y] \in Nat
    BY <1>1, <1>2
  <2> HIDE DEF below
  <2>3. Cardinality(below(x) \cup {x}) = Cardinality(below(x)) + 1 BY <2>1, <2>2, FS_AddElement
  <2>4. Cardinality(below(x) \cup {x}) <= Cardinality(below(y)) BY <2>1, <2>2, FS_Subset
  <2>5. rank[x] = Cardinality(below(x)) /\ rank[y] = Cardinality(below(y)) OBVIOUS
  <2> HIDE DEF rank
  <2> QED BY <2>2, <2>3, <2>4, <2>5
<1>4. rank \in Injection(S, 0..(n-1))
  <2>1. rank \in [S -> 0..(n-1)] BY <1>2
  <2>2. \A x \in S : rank[x] \in Int BY <1>1, <1>2
  <2> HIDE DEF rank
  <2>3. ASSUME NEW x \in S, NEW y \in S, rank[x] = rank[y] PROVE x = y
    <3>1. ~(rank[x] < rank[y]) /\ ~(rank[y] < rank[x]) BY <2>2, <2>3
    <3> QED BY <1>3, <3>1
  <2> QED BY <2>1, <2>3 DEF Injection, IsInjective
<1>5. ASSUME NEW k \in 1..n PROVE \E x \in S : rank[x] = k - 1
  <2>1. IsFiniteSet(0..(n-1)) /\ Cardinality(0..(n-1)) = n
    <3>1. 0 \in Int /\ n - 1 \in Int /\ 0 <= n - 1 BY <1>1
    <3>2. Cardinality(0..(n-1)) = (n - 1) - 0 + 1 /\ IsFiniteSet(0..(n-1)) BY <3>1, FS_Interval
    <3> QED BY <1>1, <3>2
  <2> HIDE DEF rank, n
  <2>2. rank \in Surjection(S, 0..(n-1)) BY <1>4, <2>1, FS_Injection DEF n
  <2>3. k - 1 \in 0..(n-1) BY <1>1
  <2> QED BY <2>2, <2>3 DEF Surjection
<1> DEFINE pick(k) == CHOOSE x \in S : Cardinality(below(x)) = k - 1
           o == [k \in 1..n |-> pick(k)]
<1>6. Ordered(S, R) = o BY DEF Ordered
<1>7. ASSUME NEW k \in 1..n PROVE pick(k) \in S /\ rank[pick(k)] = k - 1
  <2>1. \E x \in S : Cardinality(below(x)) = k - 1 BY <1>5
  <2> HIDE DEF below
  <2>2. pick(k) \in S /\ Cardinality(below(pick(k))) = k - 1 BY <2>1
  <2> QED BY <2>2
<1> HIDE DEF pick
<1>8. o \in [1..n -> S] /\ \A k \in 1..n : o[k] \in S /\ rank[o[k]] = k - 1
  <2> HIDE DEF n, rank
  <2>1. \A k \in 1..n : pick(k) \in S /\ rank[pick(k)] = k - 1 BY <1>7
  <2> QED BY <2>1
<1> HIDE DEF o, n, rank
<1>9. ASSUME NEW x \in S PROVE \E k \in 1..n : o[k] = x
  <2>1. rank[x] \in 0..(n-1) /\ rank[x] + 1 \in 1..n
    <3>1. rank[x] \in 0..(n-1) BY <1>2
    <3>2. \A r \in 0..(n-1) : r + 1 \in 1..n BY <1>1
    <3> QED BY <3>1, <3>2
  <2>2. o[rank[x] + 1] \in S /\ rank[o[rank[x] + 1]] = rank[x] BY <1>8, <2>1
  <2>3. o[rank[x] + 1] = x BY <1>4, <2>2 DEF Injection, IsInjective
  <2> QED BY <2>1, <2>3
<1>10. ASSUME NEW j \in 1..n, NEW k \in 1..n, j < k PROVE <<o[j], o[k]>> \in R
  <2>1. o[j] \in S /\ rank[o[j]] = j - 1 /\ o[k] \in S /\ rank[o[k]] = k - 1 BY <1>8
  <2>2. o[j] # o[k] /\ ~(rank[o[k]] < rank[o[j]]) BY <1>1, <1>10, <2>1
  <2> QED BY <1>3, <2>1, <2>2
<1> QED BY <1>1, <1>6, <1>8, <1>9, <1>10 DEF n

(* The groups of a listing, the largest first, are groups. *)
LEMMA LargestLists ==
  ASSUME NEW l \in SheetSet
  PROVE  Largest(l) \in Seq(Gids)
<1> DEFINE gs == {g \in Gids : l[g] # <<>>}
           R == {p \in Gids \X Gids : \/ Len(l[p[1]]) > Len(l[p[2]])
                                      \/ Len(l[p[1]]) = Len(l[p[2]]) /\ p[1] < p[2]}
<1>1. \A g \in Gids : Len(l[g]) \in Nat BY DEF SheetSet
<1>2. MaxGid \in Nat BY ScreensAssumption
<1>3. IsFiniteSet(gs)
  <2>1. IsFiniteSet(Gids) BY <1>2, FS_Interval DEF Gids
  <2> QED BY <2>1, FS_Subset
<1>4. \A x, y \in Gids : <<x, y>> \in R <=> \/ Len(l[x]) > Len(l[y])
                                            \/ Len(l[x]) = Len(l[y]) /\ x < y
  OBVIOUS
<1>5. Gids \subseteq Int /\ gs \subseteq Gids BY <1>2 DEF Gids
<1> HIDE DEF R, gs
<1>6. \A x \in gs : <<x, x>> \notin R BY <1>1, <1>4, <1>5
<1>7. \A x, y \in gs : x # y => <<x, y>> \in R \/ <<y, x>> \in R BY <1>1, <1>4, <1>5
<1>8. \A x, y, z \in gs : <<x, y>> \in R /\ <<y, z>> \in R => <<x, z>> \in R BY <1>1, <1>4, <1>5
<1>9. Ordered(gs, R) \in Seq(gs) BY <1>3, <1>6, <1>7, <1>8, OrderedLists
<1>10. Largest(l) = Ordered(gs, R) BY DEF Largest, gs, R
<1> QED BY <1>5, <1>9, <1>10, SeqMonotonic

(* What an apply leaves of a group are files of the listing. *)
LEMMA WithoutKeeps ==
  ASSUME NEW files \in Seq(SheetFiles), NEW gone
  PROVE  Without(files, gone) \in Seq(SheetFiles)
<1> DEFINE left == {i \in DOMAIN files : files[i] \notin gone}
           R == {p \in left \X left : p[1] < p[2]}
           at == Ordered(left, R)
<1>1. left \subseteq 1..Len(files) /\ Len(files) \in Nat /\ left \subseteq Int OBVIOUS
<1>2. IsFiniteSet(left)
  <2>1. IsFiniteSet(1..Len(files)) BY <1>1, FS_Interval
  <2> HIDE DEF left
  <2> QED BY <1>1, <2>1, FS_Subset
<1>3. \A i \in left : files[i] \in SheetFiles OBVIOUS
<1>4. Without(files, gone) = IF Cardinality(left) < 2 THEN <<>> ELSE [k \in DOMAIN at |-> files[at[k]]]
  BY DEF Without
<1> HIDE DEF left
<1>5. \A x, y \in left : <<x, y>> \in R <=> x < y OBVIOUS
<1>6. at \in Seq(left)
  <2> HIDE DEF R
  <2>1. \A x \in left : <<x, x>> \notin R BY <1>1, <1>5
  <2>2. \A x, y \in left : x # y => <<x, y>> \in R \/ <<y, x>> \in R BY <1>1, <1>5
  <2>3. \A x, y, z \in left : <<x, y>> \in R /\ <<y, z>> \in R => <<x, z>> \in R BY <1>1, <1>5
  <2> QED BY <1>2, <2>1, <2>2, <2>3, OrderedLists
<1> HIDE DEF at
<1>7. [k \in DOMAIN at |-> files[at[k]]] \in Seq(SheetFiles) BY <1>3, <1>6
<1> QED BY <1>4, <1>7, EmptySeq

(* The rows that are made for a list of groups. *)
LEMMA RowBuilt ==
  ASSUME NEW s, NEW g \in Gids, NEW files \in Seq(SheetFiles)
  PROVE  BuildRow(s, g, files) \in RowSet
<1>1. ToSet(files) \cap s.flags \subseteq SheetFiles BY DEF ToSet
<1> QED BY <1>1 DEF BuildRow, RowSet

LEMMA RowsBuilt ==
  ASSUME NEW s, s.listing \in SheetSet, NEW gs \in Seq(Gids)
  PROVE  /\ RowsFor(s, gs) \in Seq(RowSet)
         /\ Len(RowsFor(s, gs)) = Len(gs)
         /\ \A i \in 1..Len(gs) : RowsFor(s, gs)[i] = BuildRow(s, gs[i], s.listing[gs[i]])
<1>1. \A i \in 1..Len(gs) : FilesOf(s, gs[i]) = s.listing[gs[i]]
  BY ScreensAssumption DEF FilesOf, NoGid, Gids
<1>2. \A i \in 1..Len(gs) : gs[i] \in Gids /\ s.listing[gs[i]] \in Seq(SheetFiles) BY DEF SheetSet
<1>3. RowsFor(s, gs) = [i \in 1..Len(gs) |-> BuildRow(s, gs[i], s.listing[gs[i]])]
  BY <1>1 DEF RowsFor
<1>4. \A i \in 1..Len(gs) : BuildRow(s, gs[i], s.listing[gs[i]]) \in RowSet BY <1>2, RowBuilt
<1> QED BY <1>3, <1>4

(* Rows for a list are rows for its front and its rest. *)
LEMMA RowsSplit ==
  ASSUME NEW s, s.listing \in SheetSet, NEW gs \in Seq(Gids), NEW n \in 0..Len(gs)
  PROVE  /\ SubSeq(gs, 1, n) \in Seq(Gids) /\ SubSeq(gs, n + 1, Len(gs)) \in Seq(Gids)
         /\ Len(SubSeq(gs, n + 1, Len(gs))) = Len(gs) - n
         /\ RowsFor(s, SubSeq(gs, 1, n)) \o RowsFor(s, SubSeq(gs, n + 1, Len(gs))) = RowsFor(s, gs)
<1> DEFINE front == SubSeq(gs, 1, n)
           rest  == SubSeq(gs, n + 1, Len(gs))
           before == RowsFor(s, front)
           after == RowsFor(s, rest)
           c == RowsFor(s, gs)
<1>0. Len(gs) \in Nat /\ n \in Nat /\ n <= Len(gs) OBVIOUS
<1>1. /\ front \in Seq(Gids) /\ Len(front) = n
      /\ \A i \in 1..n : front[i] = gs[i]
  OBVIOUS
<1>2. /\ rest \in Seq(Gids) /\ Len(rest) = Len(gs) - n
      /\ \A i \in 1..Len(gs) - n : rest[i] = gs[n + i]
  OBVIOUS
<1> HIDE DEF front, rest
<1>3. /\ before \in Seq(RowSet) /\ Len(before) = n
      /\ \A i \in 1..n : before[i] = BuildRow(s, front[i], s.listing[front[i]])
  BY <1>1, RowsBuilt
<1>4. /\ after \in Seq(RowSet) /\ Len(after) = Len(gs) - n
      /\ \A i \in 1..Len(gs) - n : after[i] = BuildRow(s, rest[i], s.listing[rest[i]])
  BY <1>2, RowsBuilt
<1>5. /\ c \in Seq(RowSet) /\ Len(c) = Len(gs)
      /\ \A i \in 1..Len(gs) : c[i] = BuildRow(s, gs[i], s.listing[gs[i]])
  BY RowsBuilt
<1> HIDE DEF before, after, c
<1>6. before \o after \in Seq(RowSet) /\ Len(before \o after) = Len(gs)
  <2>1. before \o after \in Seq(RowSet) /\ Len(before \o after) = Len(before) + Len(after)
    BY <1>3, <1>4, ConcatProperties
  <2> QED BY <1>0, <1>3, <1>4, <2>1
<1>7. ASSUME NEW i \in 1..Len(gs) PROVE (before \o after)[i] = c[i]
  <2>1. CASE i <= n
    <3>1. i \in 1..n BY <2>1
    <3>2. (before \o after)[i] = before[i] BY <1>3, <1>4, <3>1, <1>0, ConcatProperties
    <3> QED BY <1>1, <1>3, <1>5, <3>1, <3>2
  <2>2. CASE i > n
    <3>1. PICK j \in 1..Len(gs) - n : j = i - n /\ n + j = i BY <1>0, <2>2
    <3>2. (before \o after)[i] = after[j] BY <1>0, <1>3, <1>4, <2>2, <3>1, ConcatProperties
    <3>3. rest[j] = gs[i] BY <1>2, <3>1
    <3>4. after[j] = BuildRow(s, rest[j], s.listing[rest[j]]) BY <1>4, <3>1
    <3>5. c[i] = BuildRow(s, gs[i], s.listing[gs[i]]) BY <1>5
    <3> QED BY <3>2, <3>3, <3>4, <3>5, Zenon
  <2>3. i <= n \/ i > n BY <1>0
  <2> QED BY <2>1, <2>2, <2>3, Zenon
<1>8. before \o after = c BY <1>5, <1>6, <1>7, SeqEqual
<1> QED BY <1>1, <1>2, <1>8 DEF before, after, c, front, rest

(* Rows tell of the listing and the marks only. *)
LEMMA RowsAlike ==
  ASSUME NEW s, NEW t, t.listing = s.listing, t.flags = s.flags, NEW gs
  PROVE  /\ RowsFor(t, gs) = RowsFor(s, gs) /\ Visible(t) = Visible(s)
         /\ \A g, files : BuildRow(t, g, files) = BuildRow(s, g, files)
         /\ \A g : FilesOf(t, g) = FilesOf(s, g)
<1>1. \A g, files : BuildRow(t, g, files) = BuildRow(s, g, files) BY DEF BuildRow
<1>2. \A g : FilesOf(t, g) = FilesOf(s, g) BY DEF FilesOf
<1>3. \A i \in DOMAIN gs : BuildRow(t, gs[i], FilesOf(t, gs[i])) = BuildRow(s, gs[i], FilesOf(s, gs[i]))
  BY <1>1, <1>2
<1>4. RowsFor(t, gs) = RowsFor(s, gs) BY <1>3 DEF RowsFor
<1> QED BY <1>1, <1>2, <1>4 DEF Visible

LEMMA VisibleLists ==
  ASSUME NEW s, s.listing \in SheetSet
  PROVE  Visible(s) \in Seq(Gids)
BY LargestLists DEF Visible

(* What a new list shows, with what its task will add. *)
ListStarted(s, f, host) ==
  /\ f = [s EXCEPT !.gen = f.gen, !.rows = f.rows, !.tails = f.tails]
  /\ f.gen \in Nat
  /\ f.rows \in [{"list", "grid"} -> Seq(RowSet)]
  /\ \A t \in f.tails : t \in Tails /\ t.gen <= f.gen
  /\ \/ Live(f) = {} /\ f.rows[host] = RowsFor(s, Visible(s))
     \/ \E t \in Tails :
          /\ Live(f) = {t} /\ t.host = host /\ t.of = s.listing
          /\ f.rows[host] \o RowsFor(s, t.rest) = RowsFor(s, Visible(s))

(* render() starts a right list, whatever tasks are suspended. *)
LEMMA FilledRight ==
  ASSUME NEW s, ScreenTypes(s), TasksBegun(s), NEW host \in {"list", "grid"}
  PROVE  ListStarted(s, Filled(s, host, Visible(s)), host)
<1> DEFINE gs == Visible(s)
           now == IF Len(gs) <= Threshold THEN Len(gs) ELSE FirstRows
           new == [gen |-> s.gen + 1, host |-> host, rest |-> SubSeq(gs, now + 1, Len(gs)),
                   of |-> s.listing]
           rows == [s.rows EXCEPT ![host] = RowsFor(s, SubSeq(gs, 1, now))]
           tails == IF now = Len(gs) THEN s.tails ELSE s.tails \cup {new}
           f == Filled(s, host, Visible(s))
<1>1. /\ s.listing \in SheetSet /\ s.gen \in Nat /\ DOMAIN s = ScreenFields
      /\ s.rows \in [{"list", "grid"} -> Seq(RowSet)]
  BY DEF ScreenTypes
<1>2. gs \in Seq(Gids) /\ Len(gs) \in Nat BY <1>1, VisibleLists
<1>3. now \in 0..Len(gs) BY <1>2, ScreensAssumption
<1>4. f = [s EXCEPT !.gen = s.gen + 1, !.rows = rows, !.tails = tails]
  BY <1>1 DEF Filled, ScreenFields
<1> HIDE DEF gs, now, f
<1>5. /\ SubSeq(gs, 1, now) \in Seq(Gids) /\ SubSeq(gs, now + 1, Len(gs)) \in Seq(Gids)
      /\ RowsFor(s, SubSeq(gs, 1, now)) \o RowsFor(s, SubSeq(gs, now + 1, Len(gs))) = RowsFor(s, gs)
  BY <1>1, <1>2, <1>3, RowsSplit
<1>6. RowsFor(s, SubSeq(gs, 1, now)) \in Seq(RowSet) BY <1>1, <1>5, RowsBuilt
<1>7. rows \in [{"list", "grid"} -> Seq(RowSet)] /\ rows[host] = RowsFor(s, SubSeq(gs, 1, now))
  BY <1>1, <1>6
<1>8. new \in Tails /\ new.gen = s.gen + 1 /\ new.host = host /\ new.of = s.listing
      /\ new.rest = SubSeq(gs, now + 1, Len(gs))
  <2>1. s.gen + 1 \in Nat BY <1>1
  <2>2. SubSeq(gs, now + 1, Len(gs)) \in Seq(Gids) /\ s.listing \in SheetSet BY <1>1, <1>5
  <2> QED BY <2>1, <2>2, Zenon DEF Tails
<1> HIDE DEF new, rows
<1>9. \A t \in s.tails : t \in Tails /\ t.gen \in Nat /\ t.gen <= s.gen BY DEF TasksBegun, Tails
<1>10. \A t \in tails : t \in Tails /\ t.gen <= s.gen + 1 BY <1>1, <1>8, <1>9
<1>11. \/ {t \in tails : t.gen = s.gen + 1} = {} /\ now = Len(gs)
       \/ {t \in tails : t.gen = s.gen + 1} = {new}
  <2>1. \A t \in s.tails : t.gen # s.gen + 1 BY <1>1, <1>9
  <2> QED BY <1>8, <2>1
<1>12. now = Len(gs) => rows[host] = RowsFor(s, gs) BY <1>2, <1>7, SubSeqFull
<1> HIDE DEF tails
<1>13. f.gen = s.gen + 1 /\ f.rows = rows /\ f.tails = tails BY <1>1, <1>4 DEF ScreenFields
<1>14. f = [s EXCEPT !.gen = f.gen, !.rows = f.rows, !.tails = f.tails] BY <1>4, <1>13
<1>15. rows[host] \o RowsFor(s, new.rest) = RowsFor(s, gs) BY <1>5, <1>7, <1>8
<1>16. \/ {t \in f.tails : t.gen = f.gen} = {} /\ f.rows[host] = RowsFor(s, gs)
       \/ \E t \in Tails :
            /\ {u \in f.tails : u.gen = f.gen} = {t} /\ t.host = host /\ t.of = s.listing
            /\ f.rows[host] \o RowsFor(s, t.rest) = RowsFor(s, gs)
  BY <1>8, <1>11, <1>12, <1>13, <1>15
<1>17. /\ f.gen \in Nat /\ f.rows \in [{"list", "grid"} -> Seq(RowSet)]
       /\ \A t \in f.tails : t \in Tails /\ t.gen <= f.gen
  BY <1>1, <1>7, <1>10, <1>13
<1> QED BY <1>14, <1>16, <1>17, Zenon DEF f, gs, ListStarted, Live

(* A refreshed browse view is up to date, and nothing but its rows changed. *)
RefreshKeeps == {"shown", "listing", "flags", "picked", "stack", "grid", "detail", "id", "ref", "cmp",
         "swap", "layouts", "panels", "saved"}

LEMMA EmptyRows == NoRows \in [{"list", "grid"} -> Seq(RowSet)]
<1>1. NoRows = [k \in {"list", "grid"} |-> <<>>] BY DEF NoRows
<1> QED BY <1>1, EmptySeq

LEMMA RefreshedRight ==
  ASSUME NEW s, ScreenTypes(s), TasksBegun(s)
  PROVE  LET r == Refreshed(s)
         IN  /\ ScreenTypes(r) /\ TasksBegun(r) /\ BrowseRight(r)
             /\ \A k \in RefreshKeeps : r[k] = s[k]
<1> DEFINE r == Refreshed(s)
           gs == Visible(s)
           host == IF s.grid THEN "grid" ELSE "list"
           s0 == [s EXCEPT !.rows = NoRows]
           f == Filled(s0, host, gs)
<1>1. /\ DOMAIN s = ScreenFields
      /\ s.listing \in SheetSet
  BY DEF ScreenTypes
<1>2. /\ ScreenTypes(s0) /\ TasksBegun(s0) /\ s0.rows = NoRows
      /\ s0.listing = s.listing /\ s0.flags = s.flags
  BY EmptyRows DEF ScreenTypes, TasksBegun, ScreenFields
<1>3. CASE s.detail # NoGid
  <2>1. r = [s EXCEPT !.rows = NoRows, !.slot = "detail", !.card = BuildRow(s, s.detail, FilesOf(s, s.detail))]
    BY <1>3 DEF Refreshed
  <2>2. /\ DOMAIN r = ScreenFields /\ \A k \in ScreenFields \ {"rows", "slot", "card"} : r[k] = s[k]
        /\ r.rows = NoRows /\ r.slot = "detail" /\ r.card = BuildRow(s, s.detail, FilesOf(s, s.detail))
    BY <1>1, <2>1 DEF ScreenFields
  <2> HIDE DEF r
  <2>3. ScreenTypes(r) /\ TasksBegun(r) /\ \A k \in RefreshKeeps : r[k] = s[k]
    BY <2>2, EmptyRows DEF ScreenTypes, TasksBegun, ScreenFields, RefreshKeeps
  <2>4. r.detail = s.detail /\ r.listing = s.listing /\ r.flags = s.flags BY <2>2 DEF ScreenFields
  <2>5. BrowseRight(r) BY <1>3, <2>2, <2>4, RowsAlike DEF BrowseRight
  <2> QED BY <2>3, <2>5 DEF r
<1>4. CASE s.detail = NoGid /\ gs = <<>>
  <2>1. r = [s EXCEPT !.rows = NoRows, !.slot = "list"] BY <1>4 DEF Refreshed
  <2>2. /\ DOMAIN r = ScreenFields /\ \A k \in ScreenFields \ {"rows", "slot", "card"} : r[k] = s[k]
        /\ r.rows = NoRows
    BY <1>1, <2>1 DEF ScreenFields
  <2> HIDE DEF r
  <2>3. ScreenTypes(r) /\ TasksBegun(r) /\ \A k \in RefreshKeeps : r[k] = s[k]
    BY <2>2, EmptyRows DEF ScreenTypes, TasksBegun, ScreenFields, RefreshKeeps
  <2>4. r.detail = s.detail /\ r.listing = s.listing /\ r.flags = s.flags BY <2>2 DEF ScreenFields
  <2>5. Visible(r) = Visible(s) BY <2>4 DEF Visible
  <2>6. BrowseRight(r) BY <1>4, <2>4, <2>5 DEF BrowseRight
  <2> QED BY <2>3, <2>6 DEF r
<1>5. CASE s.detail = NoGid /\ gs # <<>>
  <2>1. r = [f EXCEPT !.slot = host] BY <1>5 DEF Refreshed
  <2>2. Visible(s0) = gs BY <1>2 DEF Visible
  <2>3. host \in {"list", "grid"} OBVIOUS
  <2> HIDE DEF s0, f, gs, host
  <2>4. f = Filled(s0, host, Visible(s0)) BY <2>2 DEF f
  <2>5. ListStarted(s0, f, host) BY <1>2, <2>3, <2>4, FilledRight
  <2>6. /\ DOMAIN s0 = ScreenFields /\ \A k \in ScreenFields \ {"rows"} : s0[k] = s[k]
    BY <1>1 DEF s0, ScreenFields
  <2>7. /\ DOMAIN r = ScreenFields
        /\ \A k \in ScreenFields \ {"gen", "rows", "tails", "slot"} : r[k] = s[k]
        /\ r.gen = f.gen /\ r.rows = f.rows /\ r.tails = f.tails /\ r.slot = host
    <3>1. /\ DOMAIN f = ScreenFields
          /\ \A k \in ScreenFields \ {"gen", "rows", "tails"} : f[k] = s0[k]
      BY <2>5, <2>6 DEF ListStarted
    <3> HIDE DEF r
    <3> QED BY <2>1, <2>6, <3>1 DEF ScreenFields
  <2> HIDE DEF r
  <2>8. ScreenTypes(r) /\ TasksBegun(r) /\ \A k \in RefreshKeeps : r[k] = s[k]
    BY <2>5, <2>7 DEF ListStarted, ScreenTypes, TasksBegun, ScreenFields, RefreshKeeps
  <2>9. /\ r.listing = s.listing /\ r.flags = s.flags /\ r.grid = s.grid /\ r.detail = s.detail
        /\ s0.listing = s.listing /\ s0.flags = s.flags
    BY <1>2, <2>7 DEF ScreenFields
  <2>10. \A l : RowsFor(r, l) = RowsFor(s0, l) BY <2>9, RowsAlike
  <2>11. Visible(r) = Visible(s0) BY <2>9 DEF Visible
  <2>12. Host(r) = host BY <2>9 DEF Host, host
  <2>13. Filling(r)
    <3>1. Live(r) = Live(f) BY <2>7 DEF Live
    <3>2. CASE Live(f) = {} /\ f.rows[host] = RowsFor(s0, Visible(s0))
      BY <2>7, <2>10, <2>11, <2>12, <3>1, <3>2 DEF Filling
    <3>3. ASSUME NEW t \in Tails, Live(f) = {t}, t.host = host, t.of = s0.listing,
                 f.rows[host] \o RowsFor(s0, t.rest) = RowsFor(s0, Visible(s0))
          PROVE  Filling(r)
      <4>1. t \in Live(r) /\ Live(r) = {t} /\ t.host = Host(r) /\ t.of = r.listing
        BY <2>9, <2>12, <3>1, <3>3
      <4>2. r.rows[Host(r)] \o RowsFor(r, t.rest) = RowsFor(r, Visible(r))
        BY <2>7, <2>10, <2>11, <2>12, <3>3
      <4> QED BY <4>1, <4>2 DEF Filling
    <3> QED BY <2>5, <3>2, <3>3 DEF ListStarted
  <2>14. BrowseRight(r) BY <1>5, <2>7, <2>9, <2>12, <2>13 DEF BrowseRight
  <2> QED BY <2>8, <2>14 DEF r
<1> QED BY <1>3, <1>4, <1>5

(* normalize_inspect_ref_cmp() *)
LEMMA NormalizedRight ==
  ASSUME NEW n \in Nat \ {0}, NEW i \in Int, NEW j \in Int
  PROVE  LET p == Normalized(n, <<i, j>>)
         IN  /\ p[1] \in 0..(n - 1) /\ p[2] \in 0..(n - 1)
             /\ n >= 2 => p[1] # p[2]
<1>1. \A k \in Int : Clamp(n, k) \in 0..(n - 1) BY DEF Clamp
<1>2. CASE n <= 1 BY <1>2 DEF Normalized
<1>3. CASE n > 1
  <2> DEFINE r == Clamp(n, i)
             c == Clamp(n, j)
             p == Normalized(n, <<i, j>>)
  <2>1. r \in 0..(n - 1) /\ c \in 0..(n - 1) BY <1>1
  <2>2. p = <<r, IF c = r THEN (r + 1) % n ELSE c>> BY <1>3 DEF Normalized
  <2> HIDE DEF r, c, p
  <2>3. (r + 1) % n \in 0..(n - 1) /\ (r + 1) % n # r
    <3>1. CASE r + 1 < n
      <4>1. (r + 1) % n = r + 1 BY <2>1, <3>1
      <4> QED BY <2>1, <3>1, <4>1
    <3>2. CASE r + 1 = n
      <4>1. (r + 1) % n = 0 BY <1>3, <2>1, <3>2
      <4> QED BY <1>3, <2>1, <3>2, <4>1
    <3> QED BY <2>1, <3>1, <3>2
  <2>4. p[1] = r /\ p[2] = IF c = r THEN (r + 1) % n ELSE c BY <2>2
  <2> QED BY <2>1, <2>3, <2>4 DEF p
<1> QED BY <1>2, <1>3

LEMMA SteppedInt ==
  ASSUME NEW n \in Nat, NEW r \in Int, NEW c \in Int, NEW by \in Int
  PROVE  Stepped(n, r, c, by) \in Int
BY DEF Stepped

LEMMA SmallestInside ==
  ASSUME NEW I \in SUBSET Nat, I # {}
  PROVE  Min(I) \in I
BY SmallestNumber DEF Min

(* The inspect screen after it was built: its indices and panels are right. *)
Unshown == {"shown", "listing", "flags", "picked", "stack", "grid", "detail", "rows", "card", "slot",
            "gen", "tails", "id", "swap", "saved"}

LEMMA ComparedRight ==
  ASSUME NEW s, ScreenTypes(s)
  PROVE  LET r == Compared(s)
         IN  /\ ScreenTypes(r) /\ InspectRight(r)
             /\ \A k \in Unshown : r[k] = s[k]
<1> DEFINE files == FilesOf(s, s.id)
           n     == Len(files)
           pair  == Normalized(n, <<s.ref, s.cmp>>)
           free  == SelectInSeq(files, LAMBDA f : f \notin s.flags) - 1
           moved == s.id \in s.picked /\ files[pair[1] + 1] \in s.flags /\ free >= 0
           new   == IF moved THEN Normalized(n, <<free, Stepped(n, free, free, 1)>>) ELSE pair
           p == Repaired(s)
           r == Compared(s)
<1>1. /\ DOMAIN s = ScreenFields /\ s.listing \in SheetSet /\ s.id \in Gids \cup {NoGid}
      /\ s.ref \in Int /\ s.cmp \in Int /\ s.swap \in BOOLEAN /\ s.layouts \in Layouts
  BY DEF ScreenTypes
<1>2. files \in Seq(SheetFiles) BY <1>1, EmptySeq DEF FilesOf, SheetSet
<1>3. r = [p EXCEPT !.panels = IF FilesOf(p, p.id) = <<>> THEN <<>> ELSE Pair(p)] BY DEF Compared
<1>4. CASE files = <<>>
  <2>1. p = s BY <1>4 DEF Repaired
  <2>2. r = [s EXCEPT !.panels = <<>>] BY <1>3, <1>4, <2>1
  <2>3. /\ DOMAIN r = ScreenFields /\ \A k \in ScreenFields \ {"panels"} : r[k] = s[k] BY <1>1, <2>2
  <2> HIDE DEF r
  <2>4. ScreenTypes(r) /\ \A k \in Unshown : r[k] = s[k]
    BY <2>3 DEF ScreenTypes, ScreenFields, Unshown
  <2>5. FilesOf(r, r.id) = <<>> BY <1>4, <2>3 DEF FilesOf, ScreenFields
  <2>6. Len(<<>>) = 0 OBVIOUS
  <2>7. InspectRight(r) BY <2>5, <2>6 DEF InspectRight
  <2> QED BY <2>4, <2>7 DEF r
<1>5. CASE files # <<>>
  <2>1. n \in Nat \ {0} BY <1>2, <1>5, EmptySeq
  <2>2. s.id \in Gids BY <1>1, <1>5 DEF FilesOf
  <2>3. p = [s EXCEPT !.ref = new[1], !.cmp = new[2], !.layouts[s.id] = <<new[1], new[2], s.swap>>]
    BY <1>5 DEF Repaired
  <2>4. free \in Int
    <3> DEFINE I == {i \in 1..Len(files) : files[i] \notin s.flags}
    <3>1. free = (IF I # {} THEN Min(I) ELSE 0) - 1 BY DEF SelectInSeq
    <3>2. I \in SUBSET Nat BY <1>2
    <3> HIDE DEF I, free
    <3>3. (IF I # {} THEN Min(I) ELSE 0) \in Int
      <4>1. CASE I # {}
        <5>1. Min(I) \in I BY <3>2, <4>1, SmallestInside
        <5>2. Min(I) \in Nat BY <3>2, <5>1
        <5> QED BY <4>1, <5>2
      <4>2. CASE I = {} BY <4>2
      <4> QED BY <4>1, <4>2
    <3> QED BY <3>1, <3>3
  <2> HIDE DEF files, n, pair, free, moved, new, p
  <2>5. /\ new[1] \in 0..(n - 1) /\ new[2] \in 0..(n - 1)
        /\ n >= 2 => new[1] # new[2]
    <3>1. CASE moved
      <4>1. Stepped(n, free, free, 1) \in Int BY <2>1, <2>4, SteppedInt
      <4>2. new = Normalized(n, <<free, Stepped(n, free, free, 1)>>) BY <3>1 DEF new
      <4> QED BY <2>1, <2>4, <4>1, <4>2, NormalizedRight
    <3>2. CASE ~moved BY <1>1, <2>1, <3>2, NormalizedRight DEF new, pair
    <3> QED BY <3>1, <3>2
  <2> DEFINE l == <<new[1], new[2], s.swap>>
  <2>6. l \in Int \X Int \X BOOLEAN BY <1>1, <2>1, <2>5
  <2>7. /\ DOMAIN p = ScreenFields /\ p.ref = new[1] /\ p.cmp = new[2]
        /\ p.layouts = [s.layouts EXCEPT ![s.id] = l]
        /\ \A k \in ScreenFields \ {"ref", "cmp", "layouts"} : p[k] = s[k]
    BY <1>1, <2>3 DEF ScreenFields
  <2> HIDE DEF l
  <2>8. /\ DOMAIN r = ScreenFields /\ \A k \in ScreenFields \ {"panels"} : r[k] = p[k]
        /\ r.panels = IF FilesOf(p, p.id) = <<>> THEN <<>> ELSE Pair(p)
    BY <1>3, <2>7 DEF ScreenFields
  <2> HIDE DEF r
  <2>9. r.layouts \in Layouts BY <1>1, <2>2, <2>6, <2>7, <2>8 DEF Layouts, ScreenFields
  <2>10. /\ r.ref = new[1] /\ r.cmp = new[2] /\ r.id = s.id /\ r.swap = s.swap
         /\ r.listing = s.listing /\ p.listing = s.listing /\ p.id = s.id /\ p.swap = s.swap
         /\ p.ref = new[1] /\ p.cmp = new[2]
    BY <2>7, <2>8 DEF ScreenFields
  <2>11. \A k \in Unshown : r[k] = s[k] BY <2>7, <2>8 DEF Unshown, ScreenFields
  <2>12. ScreenTypes(r)
    <3>1. r.ref \in Int /\ r.cmp \in Int BY <2>1, <2>5, <2>10
    <3> QED BY <1>1, <2>8, <2>9, <2>10, <2>11, <3>1 DEF ScreenTypes, Unshown
  <2>13. FilesOf(r, r.id) = files /\ FilesOf(p, p.id) = files BY <2>10 DEF FilesOf, files
  <2>14. r.panels = Pair(r)
    <3>1. Sides(r) = Sides(p) BY <2>10 DEF Sides
    <3>2. Pair(r) = Pair(p) BY <2>13, <3>1 DEF Pair
    <3> QED BY <1>5, <2>8, <2>13, <3>2
  <2>15. InspectRight(r) BY <2>1, <2>5, <2>10, <2>13, <2>14 DEF InspectRight, n
  <2> QED BY <2>11, <2>12, <2>15 DEF r
<1> QED BY <1>4, <1>5

(* A screen that was just built is right, whatever it was built from. *)
LEMMA RenderedRight ==
  ASSUME NEW s, ScreenTypes(s), TasksBegun(s)
  PROVE  LET r == Rendered(s)
         IN  ScreenTypes(r) /\ TasksBegun(r) /\ ScreenRight(r) /\ Screen(r) = Screen(s)
<1> DEFINE t == IF Screen(s) = "browse" THEN s ELSE [s EXCEPT !.detail = NoGid]
           r == Rendered(s)
<1>1. DOMAIN s = ScreenFields BY DEF ScreenTypes
<1>2. /\ ScreenTypes(t) /\ TasksBegun(t) /\ DOMAIN t = ScreenFields /\ t.stack = s.stack
  <2>1. CASE Screen(s) = "browse" BY <1>1, <2>1
  <2>2. CASE Screen(s) # "browse"
    <3>1. t = [s EXCEPT !.detail = NoGid] BY <2>2
    <3>2. /\ DOMAIN t = ScreenFields /\ t.detail = NoGid
          /\ \A k \in ScreenFields \ {"detail"} : t[k] = s[k]
      BY <1>1, <3>1 DEF ScreenFields
    <3> HIDE DEF t
    <3> QED BY <3>2 DEF ScreenTypes, TasksBegun, ScreenFields
  <2> QED BY <2>1, <2>2
<1>3. CASE Screen(s) = "browse"
  <2> DEFINE u == [t EXCEPT !.gen = 0, !.tails = {}, !.rows = NoRows]
  <2>1. r = Refreshed(u) BY <1>3 DEF Rendered
  <2>2. /\ DOMAIN u = ScreenFields /\ u.gen = 0 /\ u.tails = {} /\ u.rows = NoRows
        /\ \A k \in ScreenFields \ {"gen", "tails", "rows"} : u[k] = t[k]
    BY <1>2 DEF ScreenFields
  <2> HIDE DEF u, t
  <2>3. ScreenTypes(u) /\ TasksBegun(u)
    BY <1>2, <2>2, EmptyRows DEF ScreenTypes, TasksBegun, ScreenFields
  <2>4. ScreenTypes(r) /\ TasksBegun(r) /\ BrowseRight(r) /\ \A k \in RefreshKeeps : r[k] = u[k]
    BY <2>1, <2>3, RefreshedRight
  <2>5. r.stack = s.stack BY <1>2, <2>2, <2>4 DEF RefreshKeeps, ScreenFields
  <2>6. Screen(r) = Screen(s) BY <2>5 DEF Screen
  <2> QED BY <1>3, <2>4, <2>6 DEF ScreenRight
<1>4. CASE Screen(s) = "inspect"
  <2>1. r = Compared(t) BY <1>4 DEF Rendered
  <2> HIDE DEF t
  <2>2. ScreenTypes(r) /\ InspectRight(r) /\ \A k \in Unshown : r[k] = t[k]
    BY <1>2, <2>1, ComparedRight
  <2>3. r.stack = s.stack /\ r.tails = t.tails /\ r.gen = t.gen BY <1>2, <2>2 DEF Unshown
  <2>4. Screen(r) = Screen(s) /\ TasksBegun(r) BY <1>2, <2>3 DEF Screen, TasksBegun
  <2> QED BY <1>4, <2>2, <2>4 DEF ScreenRight
<1>5. CASE Screen(s) \notin {"browse", "inspect"}
  <2>1. r = t BY <1>5 DEF Rendered
  <2>2. Screen(r) = Screen(s) BY <1>2, <2>1 DEF Screen
  <2> QED BY <1>2, <1>5, <2>1, <2>2 DEF ScreenRight
<1> QED BY <1>3, <1>4, <1>5

(* What the review always is, and what it is too when it is shown. *)
Typed(s) == ScreenTypes(s) /\ TasksBegun(s)
Right(s) == Typed(s) /\ ScreenRight(s)

(* The next rows of a task are the rows of its listing. *)
LEMMA RowsAdded ==
  ASSUME NEW s, s.listing \in SheetSet, NEW t \in Tails, NEW n \in 0..Len(t.rest)
  PROVE  LET add == [i \in 1..n |-> BuildRow(s, t.rest[i], t.of[t.rest[i]])]
         IN  /\ add \in Seq(RowSet)
             /\ t.of = s.listing => add = RowsFor(s, SubSeq(t.rest, 1, n))
<1> DEFINE add == [i \in 1..n |-> BuildRow(s, t.rest[i], t.of[t.rest[i]])]
           front == SubSeq(t.rest, 1, n)
<1>1. t.rest \in Seq(Gids) /\ t.of \in SheetSet /\ n \in Nat BY DEF Tails
<1>2. \A i \in 1..n : t.rest[i] \in Gids /\ t.of[t.rest[i]] \in Seq(SheetFiles) BY <1>1 DEF SheetSet
<1>3. \A i \in 1..n : BuildRow(s, t.rest[i], t.of[t.rest[i]]) \in RowSet BY <1>2, RowBuilt
<1>4. add \in Seq(RowSet) BY <1>1, <1>3
<1>5. front \in Seq(Gids) /\ Len(front) = n /\ \A i \in 1..n : front[i] = t.rest[i] BY <1>1
<1> HIDE DEF front
<1>6. ASSUME t.of = s.listing PROVE add = RowsFor(s, front)
  <2>1. \A i \in 1..n : FilesOf(s, front[i]) = t.of[t.rest[i]] /\ front[i] = t.rest[i]
    BY <1>2, <1>5, <1>6, ScreensAssumption DEF FilesOf, NoGid, Gids
  <2>2. DOMAIN front = 1..n BY <1>5
  <2>3. RowsFor(s, front) = [i \in 1..n |-> BuildRow(s, front[i], FilesOf(s, front[i]))]
    BY <2>2 DEF RowsFor
  <2>4. \A i \in 1..n : BuildRow(s, front[i], FilesOf(s, front[i])) = BuildRow(s, t.rest[i], t.of[t.rest[i]])
    BY <2>1
  <2> QED BY <2>3, <2>4
<1> QED BY <1>4, <1>6 DEF front

(* A list that is being filled stays right when its task goes on. *)
LEMMA ResumedRight ==
  ASSUME NEW s, Typed(s), NEW t \in s.tails
  PROVE  /\ Typed(Resumed(s, t)) /\ Resumed(s, t).shown = s.shown
         /\ ScreenRight(s) => ScreenRight(Resumed(s, t))
<1> DEFINE n    == IF Len(t.rest) < PerTick THEN Len(t.rest) ELSE PerTick
           left == SubSeq(t.rest, n + 1, Len(t.rest))
           add  == [i \in 1..n |-> BuildRow(s, t.rest[i], t.of[t.rest[i]])]
           rows == [s.rows EXCEPT ![t.host] = s.rows[t.host] \o add]
           more == IF left = <<>> THEN {} ELSE {[t EXCEPT !.rest = left]}
           r    == Resumed(s, t)
<1>1. /\ DOMAIN s = ScreenFields /\ s.listing \in SheetSet /\ s.gen \in Nat
      /\ s.rows \in [{"list", "grid"} -> Seq(RowSet)]
      /\ \A u \in s.tails : u \in Tails /\ u.gen <= s.gen
      /\ t \in Tails /\ t.gen <= s.gen
  BY DEF Typed, ScreenTypes, TasksBegun
<1>2. t.rest \in Seq(Gids) /\ Len(t.rest) \in Nat /\ t.host \in {"list", "grid"} /\ t.of \in SheetSet
      /\ t.gen \in Nat
  BY <1>1 DEF Tails
<1>3. n \in 0..Len(t.rest) BY <1>2, ScreensAssumption
<1>4. add \in Seq(RowSet) /\ (t.of = s.listing => add = RowsFor(s, SubSeq(t.rest, 1, n)))
  <2> HIDE DEF n
  <2> QED BY <1>1, <1>3, RowsAdded
<1>5. /\ left \in Seq(Gids) /\ SubSeq(t.rest, 1, n) \in Seq(Gids)
      /\ RowsFor(s, SubSeq(t.rest, 1, n)) \o RowsFor(s, left) = RowsFor(s, t.rest)
  <2> HIDE DEF n
  <2> QED BY <1>1, <1>2, <1>3, RowsSplit
<1>6. \/ t.gen # s.gen /\ r = [s EXCEPT !.tails = s.tails \ {t}]
      \/ t.gen = s.gen /\ r = [s EXCEPT !.rows = rows, !.tails = (s.tails \ {t}) \cup more]
  BY <1>1 DEF Resumed, ScreenFields
<1>7. \A u \in more : /\ left # <<>> /\ u = [t EXCEPT !.rest = left] /\ u \in Tails
                      /\ u.rest = left /\ u.host = t.host /\ u.gen = t.gen /\ u.of = t.of
  BY <1>1, <1>5 DEF Tails
<1>8. more = {} => left = <<>> OBVIOUS
<1>9. \A u, v \in more : u = v OBVIOUS
<1> HIDE DEF n, left, add, more, r
<1>10. rows \in [{"list", "grid"} -> Seq(RowSet)] /\ rows[t.host] = s.rows[t.host] \o add
  <2>1. s.rows[t.host] \o add \in Seq(RowSet) BY <1>1, <1>2, <1>4, ConcatProperties
  <2> QED BY <1>1, <1>2, <2>1
<1> HIDE DEF rows
<1>11. /\ DOMAIN r = ScreenFields /\ \A k \in ScreenFields \ {"rows", "tails"} : r[k] = s[k]
       /\ \/ t.gen # s.gen /\ r.rows = s.rows /\ r.tails = s.tails \ {t}
          \/ t.gen = s.gen /\ r.rows = rows /\ r.tails = (s.tails \ {t}) \cup more
  BY <1>1, <1>6 DEF ScreenFields
<1>12. /\ r.gen = s.gen /\ r.listing = s.listing /\ r.flags = s.flags /\ r.grid = s.grid
       /\ r.detail = s.detail /\ r.shown = s.shown /\ r.stack = s.stack /\ r.slot = s.slot
       /\ r.card = s.card /\ r.id = s.id /\ r.ref = s.ref /\ r.cmp = s.cmp /\ r.swap = s.swap
       /\ r.panels = s.panels /\ r.layouts = s.layouts /\ r.saved = s.saved
  BY <1>11 DEF ScreenFields
<1>13. Typed(r)
  <2>1. \A u \in r.tails : u \in Tails /\ u.gen <= r.gen BY <1>1, <1>7, <1>11, <1>12
  <2>2. r.rows \in [{"list", "grid"} -> Seq(RowSet)] BY <1>1, <1>10, <1>11
  <2>3. ScreenTypes(r) BY <1>11, <1>12, <2>2 DEF Typed, ScreenTypes
  <2> QED BY <2>1, <2>3 DEF Typed, TasksBegun
<1>14. /\ Visible(r) = Visible(s) /\ \A l : RowsFor(r, l) = RowsFor(s, l)
       /\ \A g, files : BuildRow(r, g, files) = BuildRow(s, g, files)
       /\ \A g : FilesOf(r, g) = FilesOf(s, g)
  BY <1>12, RowsAlike
<1>15. Host(r) = Host(s) /\ Screen(r) = Screen(s) BY <1>12 DEF Host, Screen
<1>16. InspectRight(s) => InspectRight(r)
  <2>1. Sides(r) = Sides(s) BY <1>12 DEF Sides
  <2>2. Pair(r) = Pair(s) BY <1>12, <1>14, <2>1 DEF Pair
  <2> QED BY <1>12, <1>14, <2>2 DEF InspectRight
<1>17. ASSUME Filling(s) PROVE Filling(r)
  <2>1. CASE t.gen # s.gen
    <3>1. r.rows = s.rows /\ Live(r) = Live(s) BY <1>11, <1>12, <2>1 DEF Live
    <3> QED BY <1>12, <1>14, <1>15, <1>17, <3>1 DEF Filling
  <2>2. CASE t.gen = s.gen
    <3>1. t \in Live(s) BY <2>2 DEF Live
    <3>2. /\ Live(s) = {t} /\ t.host = Host(s) /\ t.of = s.listing
          /\ s.rows[Host(s)] \o RowsFor(s, t.rest) = RowsFor(s, Visible(s))
      BY <1>17, <3>1 DEF Filling
    <3>3. Live(r) = more
      <4>1. \A u \in more : u.gen = s.gen BY <1>7, <2>2
      <4> QED BY <1>11, <1>12, <2>2, <3>2, <4>1 DEF Live
    <3>4. r.rows[Host(s)] = s.rows[Host(s)] \o RowsFor(s, SubSeq(t.rest, 1, n))
      BY <1>4, <1>10, <1>11, <2>2, <3>2
    <3>5. r.rows[Host(s)] \o RowsFor(s, left) = RowsFor(s, Visible(s))
      <4> DEFINE before == s.rows[Host(s)]
                 after == RowsFor(s, SubSeq(t.rest, 1, n))
                 c == RowsFor(s, left)
      <4>1. before \in Seq(RowSet) BY <1>1 DEF Host
      <4>2. after \in Seq(RowSet) /\ c \in Seq(RowSet) BY <1>1, <1>5, RowsBuilt
      <4>3. after \o c = RowsFor(s, t.rest) BY <1>5
      <4> HIDE DEF before, after, c
      <4>4. (before \o after) \o c = before \o (after \o c) BY <4>1, <4>2, ConcatAssociative
      <4> QED BY <3>2, <3>4, <4>3, <4>4 DEF before, after, c
    <3>6. CASE more = {}
      <4>1. left = <<>> BY <1>8, <3>6
      <4>2. RowsFor(s, left) = <<>> BY <4>1 DEF RowsFor
      <4>3. r.rows[Host(s)] \in Seq(RowSet) BY <1>13 DEF Typed, ScreenTypes, Host
      <4>4. r.rows[Host(s)] \o <<>> = r.rows[Host(s)] BY <4>3, ConcatEmptySeq
      <4>5. r.rows[Host(s)] = RowsFor(s, Visible(s)) BY <3>5, <4>2, <4>4
      <4> QED BY <1>14, <1>15, <3>3, <3>6, <4>5 DEF Filling
    <3>7. CASE more # {}
      <4>1. PICK u \in more : TRUE BY <3>7
      <4>2. Live(r) = {u} BY <1>9, <3>3, <4>1
      <4>3. u.host = Host(r) /\ u.of = r.listing /\ u.rest = left BY <1>7, <1>12, <1>15, <3>2, <4>1
      <4>4. r.rows[Host(r)] \o RowsFor(r, u.rest) = RowsFor(r, Visible(r))
        BY <1>14, <1>15, <3>5, <4>3
      <4> QED BY <4>2, <4>3, <4>4 DEF Filling
    <3> QED BY <3>6, <3>7
  <2> QED BY <2>1, <2>2
<1>18. BrowseRight(s) => BrowseRight(r) BY <1>12, <1>14, <1>15, <1>17 DEF BrowseRight
<1> QED BY <1>12, <1>13, <1>15, <1>16, <1>18 DEF ScreenRight, r

(* Parts that a handler may change without a task or a row. *)
LEMMA Changed ==
  ASSUME NEW s, Typed(s), NEW t, DOMAIN t = ScreenFields,
         t.rows = s.rows, t.gen = s.gen, t.tails = s.tails,
         t.listing \in SheetSet, t.detail \in Gids \cup {NoGid}, t.id \in Gids \cup {NoGid},
         t.ref \in Int, t.cmp \in Int, t.swap \in BOOLEAN, t.layouts \in Layouts,
         t.saved # <<>> => t.saved[2] \in Layouts
  PROVE  Typed(t)
BY DEF Typed, ScreenTypes, TasksBegun

LEMMA FieldsTyped ==
  ASSUME NEW s, Typed(s)
  PROVE  /\ DOMAIN s = ScreenFields
         /\ s.listing \in SheetSet /\ s.detail \in Gids \cup {NoGid} /\ s.id \in Gids \cup {NoGid}
         /\ s.ref \in Int /\ s.cmp \in Int /\ s.swap \in BOOLEAN /\ s.layouts \in Layouts
         /\ s.saved # <<>> => s.saved[2] \in Layouts
BY DEF Typed, ScreenTypes

LEMMA ShownAnew ==
  ASSUME NEW s, Typed(s)
  PROVE  Right(Rendered(s)) /\ Screen(Rendered(s)) = Screen(s)
BY RenderedRight DEF Typed, Right

LEMMA RefreshedShown ==
  ASSUME NEW s, Typed(s), Screen(s) = "browse"
  PROVE  Right(Refreshed(s))
<1> DEFINE r == Refreshed(s)
<1>1. ScreenTypes(r) /\ TasksBegun(r) /\ BrowseRight(r) /\ \A k \in RefreshKeeps : r[k] = s[k]
  BY RefreshedRight DEF Typed
<1> HIDE DEF r
<1>2. Screen(r) = "browse" BY <1>1 DEF Screen, RefreshKeeps
<1>3. Right(r) BY <1>1, <1>2 DEF Right, Typed, ScreenRight
<1> QED BY <1>3 DEF r

(* A screen other than the browse screen does not tell of the marks. *)
LEMMA Marked ==
  ASSUME NEW s, Typed(s), NEW m, m \in Marks(s)
  PROVE  /\ Typed(m) /\ Screen(m) = Screen(s) /\ m.shown = s.shown
         /\ m.listing = s.listing /\ m.id = s.id
         /\ Screen(s) # "browse" /\ ScreenRight(s) => ScreenRight(m)
<1>1. PICK fs \in SUBSET Markable, gs \in SUBSET Gids : m = Edited(s, fs, gs) BY DEF Marks
<1>2. DOMAIN m = ScreenFields /\ \A k \in ScreenFields \ {"flags", "picked"} : m[k] = s[k]
  BY <1>1, FieldsTyped DEF Edited
<1>3. /\ m.rows = s.rows /\ m.gen = s.gen /\ m.tails = s.tails
      /\ m.listing = s.listing /\ m.detail = s.detail /\ m.id = s.id
      /\ m.ref = s.ref /\ m.cmp = s.cmp /\ m.swap = s.swap /\ m.layouts = s.layouts
      /\ m.saved = s.saved /\ m.shown = s.shown /\ m.stack = s.stack /\ m.panels = s.panels
  BY <1>2 DEF ScreenFields
<1>4. Typed(m) BY <1>2, <1>3, FieldsTyped, Changed
<1>5. Screen(m) = Screen(s) BY <1>3 DEF Screen
<1>6. InspectRight(s) => InspectRight(m)
  <2>1. \A g : FilesOf(m, g) = FilesOf(s, g) BY <1>3 DEF FilesOf
  <2>2. Sides(m) = Sides(s) BY <1>3 DEF Sides
  <2>3. Pair(m) = Pair(s) BY <1>3, <2>1, <2>2 DEF Pair
  <2> QED BY <1>3, <2>1, <2>3 DEF InspectRight
<1> QED BY <1>3, <1>4, <1>5, <1>6 DEF ScreenRight

LEMMA RefreshedIfSeenRight ==
  ASSUME NEW s, Typed(s), Screen(s) # "browse" => ScreenRight(s)
  PROVE  Right(RefreshedIfSeen(s))
BY RefreshedShown DEF RefreshedIfSeen, Right

LEMMA Restacked ==
  ASSUME NEW s, Typed(s), NEW st
  PROVE  Typed([s EXCEPT !.stack = st])
<1> DEFINE t == [s EXCEPT !.stack = st]
<1>1. DOMAIN t = ScreenFields /\ \A k \in ScreenFields \ {"stack"} : t[k] = s[k] BY FieldsTyped
<1> HIDE DEF t
<1>2. Typed(t) BY <1>1, FieldsTyped, Changed DEF ScreenFields
<1> QED BY <1>2 DEF t

LEMMA NormalizedInts ==
  ASSUME NEW n \in Nat, NEW p, p[1] \in Int, p[2] \in Int
  PROVE  Normalized(n, p)[1] \in Int /\ Normalized(n, p)[2] \in Int
<1>1. CASE n <= 1 BY <1>1 DEF Normalized
<1>2. CASE n > 1
  <2>1. Normalized(n, p) = Normalized(n, <<p[1], p[2]>>) BY DEF Normalized
  <2>2. n \in Nat \ {0} BY <1>2
  <2>3. LET q == Normalized(n, <<p[1], p[2]>>) IN q[1] \in 0..(n-1) /\ q[2] \in 0..(n-1)
    BY <2>2, NormalizedRight
  <2>4. 0..(n-1) \subseteq Int OBVIOUS
  <2> QED BY <2>1, <2>3, <2>4
<1> QED BY <1>1, <1>2

LEMMA FilesListed ==
  ASSUME NEW s, s.listing \in SheetSet, NEW g \in Gids \cup {NoGid}
  PROVE  FilesOf(s, g) \in Seq(SheetFiles)
BY EmptySeq DEF FilesOf, SheetSet

LEMMA LayoutTyped ==
  ASSUME NEW s, Typed(s), NEW g \in Gids
  PROVE  Typed(WithLayout(s, g))
<1> DEFINE n    == Len(FilesOf(s, g))
           l    == IF s.layouts[g] = NoLayout THEN <<0, IF n > 1 THEN 1 ELSE 0, FALSE>>
                   ELSE s.layouts[g]
           pair == Normalized(n, l)
           t    == WithLayout(s, g)
<1>1. FilesOf(s, g) \in Seq(SheetFiles) BY FieldsTyped, FilesListed
<1>2. n \in Nat BY <1>1
<1>3. l[1] \in Int /\ l[2] \in Int /\ l[3] \in BOOLEAN
  <2>1. CASE s.layouts[g] = NoLayout BY <2>1
  <2>2. CASE s.layouts[g] # NoLayout
    <3>1. s.layouts[g] \in Int \X Int \X BOOLEAN BY <2>2, FieldsTyped DEF Layouts
    <3> QED BY <2>2, <3>1
  <2> QED BY <2>1, <2>2
<1>4. t = [s EXCEPT !.id = g, !.ref = pair[1], !.cmp = pair[2], !.swap = l[3]] BY DEF WithLayout
<1> HIDE DEF n, l, t
<1>5. pair[1] \in Int /\ pair[2] \in Int BY <1>2, <1>3, NormalizedInts
<1> HIDE DEF pair
<1>6. /\ DOMAIN t = ScreenFields /\ t.id = g /\ t.ref = pair[1] /\ t.cmp = pair[2] /\ t.swap = l[3]
      /\ \A k \in ScreenFields \ {"id", "ref", "cmp", "swap"} : t[k] = s[k]
  BY <1>4, FieldsTyped DEF ScreenFields
<1>7. /\ t.rows = s.rows /\ t.gen = s.gen /\ t.tails = s.tails
      /\ t.listing = s.listing /\ t.detail = s.detail /\ t.layouts = s.layouts /\ t.saved = s.saved
  BY <1>6 DEF ScreenFields
<1>8. Typed(t) BY <1>3, <1>5, <1>6, <1>7, FieldsTyped, Changed
<1> QED BY <1>8 DEF t

LEMMA BesideRight ==
  ASSUME NEW s, Right(s), NEW by \in Int
  PROVE  Right(Beside(s, by))
<1> DEFINE gs == Visible(s)
           I  == {i \in 1..Len(gs) : gs[i] = s.id}
           at == IF s.id \in ToSet(gs) THEN SelectInSeq(gs, LAMBDA g : g = s.id) ELSE 1
           to == IF at + by < 1 THEN 1 ELSE IF at + by > Len(gs) THEN Len(gs) ELSE at + by
<1>1. Typed(s) BY DEF Right
<1>2. gs \in Seq(Gids) BY <1>1, FieldsTyped, VisibleLists
<1>3. CASE gs = <<>> \/ s.id = NoGid
  <2>1. Beside(s, by) = s BY <1>3 DEF Beside
  <2> QED BY <2>1
<1>4. CASE ~(gs = <<>> \/ s.id = NoGid)
  <2>1. Beside(s, by) = Rendered(WithLayout(s, gs[to])) BY <1>4 DEF Beside
  <2>2. at \in Int
    <3>1. at = IF s.id \in ToSet(gs) THEN IF I # {} THEN Min(I) ELSE 0 ELSE 1 BY DEF SelectInSeq
    <3>2. I \in SUBSET Nat BY <1>2
    <3> HIDE DEF I, at
    <3>3. I # {} => Min(I) \in Nat BY <3>2, SmallestInside
    <3> QED BY <3>1, <3>3
  <2> HIDE DEF at
  <2>3. Len(gs) \in Nat /\ Len(gs) >= 1 BY <1>2, <1>4, EmptySeq
  <2>4. to \in 1..Len(gs) BY <2>2, <2>3
  <2> HIDE DEF to, gs
  <2>5. gs[to] \in Gids BY <1>2, <2>4
  <2>6. Typed(WithLayout(s, gs[to])) BY <1>1, <2>5, LayoutTyped
  <2> QED BY <2>1, <2>6, ShownAnew
<1> QED BY <1>3, <1>4

LEMMA NavigatedRight ==
  ASSUME NEW s, Typed(s), NEW screen
  PROVE  Right(Navigated(s, screen))
<1>1. Typed(IF screen = Screen(s) THEN s ELSE [s EXCEPT !.stack = Append(@, screen)]) BY Restacked
<1> QED BY <1>1, ShownAnew DEF Navigated

LEMMA BackedRight ==
  ASSUME NEW s, Right(s)
  PROVE  Right(Backed(s))
<1>1. Typed(s) /\ Typed([s EXCEPT !.stack = Front(@)]) BY Restacked DEF Right
<1> QED BY <1>1, ShownAnew DEF Backed

(* What is to be shown of a step: what it leaves is right if it is seen. *)
LEMMA RightStep ==
  ASSUME Right(rv)'
  PROVE  ScreensInv'
BY DEF Right, Typed, ScreensInv

LEMMA TypedNow == ScreensInv => Typed(rv)
BY DEF ScreensInv, Typed

LEMMA RightSeen == ScreensInv /\ rv.shown => Right(rv)
BY DEF ScreensInv, Typed, Right

(* The screens that are opened and left. *)
LEMMA StepsOfBrowse ==
  ASSUME ScreensInv,
         \/ StartReview \/ Back \/ CloseDetail \/ ViewMode \/ EditMarks
         \/ \E g \in Gids : OpenDetail(g) \/ OpenInspect(g)
         \/ \E screen \in {"overview", "browse"} : Jump(screen)
  PROVE  Right(rv)'
<1>0. Typed(rv) /\ DOMAIN rv = ScreenFields BY TypedNow, FieldsTyped
<1>1. CASE StartReview BY <1>0, <1>1, NavigatedRight DEF StartReview, Handler
<1>2. CASE Back
  <2>1. Right(rv) /\ rv' = Backed(rv) BY <1>2, RightSeen DEF Back, Handler
  <2> QED BY <2>1, BackedRight
<1>3. ASSUME NEW t, Screen(t) = Screen(rv), Screen(rv) = "browse", rv' = Refreshed(t), Typed(t)
      PROVE  Right(rv)'
  BY <1>3, RefreshedShown
<1>4. ASSUME NEW d \in Gids \cup {NoGid}, Screen(rv) = "browse",
             rv' = Refreshed([rv EXCEPT !.detail = d])
      PROVE  Right(rv)'
  <2> DEFINE t == [rv EXCEPT !.detail = d]
  <2>1. /\ DOMAIN t = ScreenFields /\ t.detail = d
        /\ \A k \in ScreenFields \ {"detail"} : t[k] = rv[k]
    BY <1>0 DEF ScreenFields
  <2>2. rv' = Refreshed(t) BY <1>4
  <2> HIDE DEF t
  <2>3. Typed(t) BY <1>0, <2>1, FieldsTyped, Changed DEF ScreenFields
  <2>4. Screen(t) = Screen(rv) BY <2>1 DEF Screen, ScreenFields
  <2> QED BY <1>3, <1>4, <2>2, <2>3, <2>4
<1>5. CASE CloseDetail BY <1>4, <1>5 DEF CloseDetail, Handler, Seen
<1>6. ASSUME NEW g \in Gids, OpenDetail(g) PROVE Right(rv)'
  BY <1>4, <1>6 DEF OpenDetail, Handler, Seen
<1>7. CASE ViewMode
  <2>1. PICK on \in BOOLEAN : rv' = Refreshed([rv EXCEPT !.grid = on]) BY <1>7 DEF ViewMode, Handler
  <2> DEFINE t == [rv EXCEPT !.grid = on]
  <2>2. DOMAIN t = ScreenFields /\ \A k \in ScreenFields \ {"grid"} : t[k] = rv[k] BY <1>0
  <2>3. rv' = Refreshed(t) /\ Screen(rv) = "browse" BY <1>7, <2>1 DEF ViewMode, Seen
  <2> HIDE DEF t
  <2>4. Typed(t) BY <1>0, <2>2, FieldsTyped, Changed DEF ScreenFields
  <2>5. Screen(t) = Screen(rv) BY <2>2 DEF Screen, ScreenFields
  <2> QED BY <1>3, <2>3, <2>4, <2>5
<1>8. CASE EditMarks
  <2>1. PICK s \in Marks(rv) : rv' = RefreshedIfSeen(s) BY <1>8 DEF EditMarks, Handler
  <2>2. ScreenRight(rv) BY <1>8 DEF EditMarks, ScreensInv
  <2>3. Typed(s) /\ (Screen(s) # "browse" => ScreenRight(s)) BY <1>0, <2>2, Marked
  <2> QED BY <2>1, <2>3, RefreshedIfSeenRight
<1>9. ASSUME NEW g \in Gids, OpenInspect(g) PROVE Right(rv)'
  <2>1. Typed(WithLayout(rv, g)) BY <1>0, LayoutTyped
  <2>2. rv' = Navigated(WithLayout(rv, g), "inspect") BY <1>9 DEF OpenInspect, Handler
  <2> QED BY <2>1, <2>2, NavigatedRight
<1>10. ASSUME NEW screen, Jump(screen) PROVE Right(rv)'
  <2> DEFINE st == SubSeq(rv.stack, 1, SelectLastInSeq(rv.stack, LAMBDA x : x = screen))
  <2>1. rv' = Rendered([rv EXCEPT !.stack = st]) BY <1>10 DEF Jump, Handler
  <2> HIDE DEF st
  <2>2. Typed([rv EXCEPT !.stack = st]) BY <1>0, Restacked
  <2> QED BY <2>1, <2>2, ShownAnew
<1> QED BY <1>1, <1>2, <1>5, <1>6, <1>7, <1>8, <1>9, <1>10

(* The inspect screen. *)
LEMMA ArrangedRight ==
  ASSUME Typed(rv), NEW r \in Int, NEW c \in Int, Arranged(r, c)
  PROVE  Right(rv)'
<1> DEFINE n    == Len(FilesOf(rv, rv.id))
           pair == Normalized(n, <<r, c>>)
           t    == [rv EXCEPT !.ref = pair[1], !.cmp = pair[2]]
<1>1. rv' = Rendered(t) BY DEF Arranged, Handler
<1>2. n \in Nat
  <2>1. FilesOf(rv, rv.id) \in Seq(SheetFiles) BY FieldsTyped, FilesListed
  <2> QED BY <2>1
<1> HIDE DEF n
<1>3. pair[1] \in Int /\ pair[2] \in Int BY <1>2, NormalizedInts
<1> HIDE DEF pair
<1>4. /\ DOMAIN t = ScreenFields /\ t.ref = pair[1] /\ t.cmp = pair[2]
      /\ \A k \in ScreenFields \ {"ref", "cmp"} : t[k] = rv[k]
  BY FieldsTyped DEF ScreenFields
<1> HIDE DEF t
<1>5. Typed(t) BY <1>3, <1>4, FieldsTyped, Changed DEF ScreenFields
<1> QED BY <1>1, <1>5, ShownAnew

LEMMA StepsOfInspect ==
  ASSUME ScreensInv,
         \/ \E by \in {-1, 1} : OtherSet(by) \/ StepCompare(by)
         \/ \E i \in 0..2 : StripTap(i) \/ MakeReference(i)
         \/ SwapPanels \/ PinCompare \/ MarkAndNext \/ KeepBoth \/ DeleteAll
  PROVE  Right(rv)'
<1>0. Typed(rv) /\ DOMAIN rv = ScreenFields /\ rv.ref \in Int /\ rv.cmp \in Int /\ rv.swap \in BOOLEAN
  BY TypedNow, FieldsTyped
<1> DEFINE n == Len(FilesOf(rv, rv.id))
<1>1. n \in Nat
  <2>1. FilesOf(rv, rv.id) \in Seq(SheetFiles) BY <1>0, FieldsTyped, FilesListed
  <2> QED BY <2>1
<1>2. ASSUME NEW by \in {-1, 1}, OtherSet(by) PROVE Right(rv)'
  <2>1. Right(rv) /\ rv' = Beside(rv, by) /\ by \in Int
    BY <1>2, RightSeen DEF OtherSet, Handler, Seen
  <2> QED BY <2>1, BesideRight
<1>3. ASSUME NEW by \in {-1, 1}, StepCompare(by) PROVE Right(rv)'
  <2>1. Arranged(rv.ref, Stepped(n, rv.ref, rv.cmp, by)) /\ by \in Int BY <1>3 DEF StepCompare
  <2> HIDE DEF n
  <2>2. Stepped(n, rv.ref, rv.cmp, by) \in Int BY <1>0, <1>1, <2>1, SteppedInt
  <2> QED BY <1>0, <2>1, <2>2, ArrangedRight
<1>4. ASSUME NEW i \in 0..2, StripTap(i) PROVE Right(rv)'
  <2>1. Arranged(rv.ref, i) /\ i \in Int BY <1>4 DEF StripTap
  <2> QED BY <1>0, <2>1, ArrangedRight
<1>5. ASSUME NEW i \in 0..2, MakeReference(i) PROVE Right(rv)'
  <2> DEFINE c == IF rv.cmp # i THEN rv.cmp ELSE IF rv.ref # i THEN rv.ref ELSE (i + 1) % n
  <2>1. Arranged(i, c) /\ n >= 2 BY <1>5 DEF MakeReference
  <2>2. c \in Int
    <3> HIDE DEF n
    <3>1. (i + 1) % n \in Int BY <1>1, <2>1
    <3> QED BY <1>0, <3>1
  <2> HIDE DEF c
  <2>3. i \in Int OBVIOUS
  <2> QED BY <1>0, <2>1, <2>2, <2>3, ArrangedRight
<1>6. CASE SwapPanels
  <2> DEFINE t == [rv EXCEPT !.swap = ~@]
  <2>1. rv' = Rendered(t) BY <1>6 DEF SwapPanels, Handler
  <2>2. /\ DOMAIN t = ScreenFields /\ t.swap \in BOOLEAN
        /\ \A k \in ScreenFields \ {"swap"} : t[k] = rv[k]
    BY <1>0 DEF ScreenFields
  <2> HIDE DEF t
  <2>3. Typed(t) BY <1>0, <2>2, FieldsTyped, Changed DEF ScreenFields
  <2> QED BY <2>1, <2>3, ShownAnew
<1>7. CASE PinCompare
  <2>1. Arranged(rv.cmp, Stepped(n, rv.cmp, rv.cmp, 1)) BY <1>7 DEF PinCompare
  <2> HIDE DEF n
  <2>2. Stepped(n, rv.cmp, rv.cmp, 1) \in Int BY <1>0, <1>1, SteppedInt
  <2> QED BY <1>0, <2>1, <2>2, ArrangedRight
<1>8. ASSUME NEW s \in Marks(rv), Inspecting PROVE Right(s)
  <2>1. ScreenRight(rv) /\ Screen(rv) # "browse" BY <1>8 DEF Inspecting, Seen, ScreensInv
  <2> QED BY <1>0, <2>1, Marked DEF Right
<1>9. CASE MarkAndNext
  <2>1. PICK s \in Marks(rv) : rv' = Beside(s, 1) BY <1>9 DEF MarkAndNext, Handler
  <2>2. Right(s) BY <1>8, <1>9 DEF MarkAndNext
  <2> QED BY <2>1, <2>2, BesideRight
<1>10. CASE KeepBoth
  <2> DEFINE t == [rv EXCEPT !.picked = @ \cup {rv.id}]
  <2>1. rv' = Rendered(t) BY <1>10 DEF KeepBoth, Handler
  <2>2. DOMAIN t = ScreenFields /\ \A k \in ScreenFields \ {"picked"} : t[k] = rv[k] BY <1>0
  <2> HIDE DEF t
  <2>3. Typed(t) BY <1>0, <2>2, FieldsTyped, Changed DEF ScreenFields
  <2> QED BY <2>1, <2>3, ShownAnew
<1>11. CASE DeleteAll
  <2>1. PICK s \in Marks(rv) : rv' = s BY <1>11 DEF DeleteAll, Handler
  <2>2. Right(s) BY <1>8, <1>11 DEF DeleteAll
  <2> QED BY <2>1, <2>2
<1> QED BY <1>2, <1>3, <1>4, <1>5, <1>6, <1>7, <1>9, <1>10, <1>11

(* The steps around the review. *)
LEMMA SheetTyped ==
  ASSUME NEW sheet \in Sheets \cup {NoSheet}
  PROVE  sheet \in SheetSet
<1>1. NoSheet \in SheetSet BY EmptySeq DEF NoSheet, SheetSet
<1> QED BY <1>1, SheetsAssumption DEF SheetSet

LEMMA ShowRight ==
  ASSUME ScreensInv, NEW sheet \in Sheets \cup {NoSheet}, Show(sheet)
  PROVE  Right(rv)'
<1>1. PICK m \in Marks(rv) :
        LET s == WithSession([m EXCEPT !.shown = TRUE, !.picked = rv.picked,
                                       !.listing = IF sheet = NoSheet THEN @ ELSE sheet])
        IN  rv' = Rendered(IF s.listing # NoSheet /\ Screen(s) = "overview"
                           THEN [s EXCEPT !.stack = <<"overview", "browse">>] ELSE s)
  BY DEF Show, Handler
<1> DEFINE u == [m EXCEPT !.shown = TRUE, !.picked = rv.picked,
                          !.listing = IF sheet = NoSheet THEN @ ELSE sheet]
           s == WithSession(u)
<1>2. Typed(m) /\ DOMAIN m = ScreenFields BY TypedNow, Marked, FieldsTyped
<1>3. Typed(u)
  <2>1. /\ DOMAIN u = ScreenFields /\ u.listing \in {m.listing, sheet}
        /\ \A k \in ScreenFields \ {"shown", "picked", "listing"} : u[k] = m[k]
    BY <1>2 DEF ScreenFields
  <2> HIDE DEF u
  <2>2. u.listing \in SheetSet BY <1>2, <2>1, FieldsTyped, SheetTyped
  <2> QED BY <1>2, <2>1, <2>2, FieldsTyped, Changed DEF ScreenFields
<1>4. Typed(s)
  <2> HIDE DEF u
  <2>1. CASE u.saved = <<>> BY <1>3, <2>1 DEF WithSession
  <2>2. CASE u.saved # <<>>
    <3>1. PICK st : s = [u EXCEPT !.layouts = u.saved[2], !.detail = NoGid, !.stack = st]
      BY <2>2 DEF WithSession
    <3>2. u.saved[2] \in Layouts /\ DOMAIN u = ScreenFields BY <1>3, <2>2, FieldsTyped
    <3>3. /\ DOMAIN s = ScreenFields /\ s.layouts = u.saved[2] /\ s.detail = NoGid
          /\ \A k \in ScreenFields \ {"layouts", "detail", "stack"} : s[k] = u[k]
      BY <3>1, <3>2 DEF ScreenFields
    <3> HIDE DEF s
    <3> QED BY <1>3, <3>2, <3>3, FieldsTyped, Changed DEF ScreenFields
  <2> QED BY <2>1, <2>2
<1> HIDE DEF s
<1>5. PICK t : /\ rv' = Rendered(t)
               /\ t = s \/ t = [s EXCEPT !.stack = <<"overview", "browse">>]
  BY <1>1 DEF s
<1>6. Typed(t) BY <1>4, <1>5, Restacked
<1> QED BY <1>5, <1>6, ShownAnew

LEMMA ListingTyped ==
  ASSUME NEW s, Typed(s), NEW l \in SheetSet
  PROVE  Typed([s EXCEPT !.listing = l])
<1> DEFINE t == [s EXCEPT !.listing = l]
<1>1. DOMAIN t = ScreenFields /\ t.listing = l /\ \A k \in ScreenFields \ {"listing"} : t[k] = s[k]
  BY FieldsTyped DEF ScreenFields
<1> HIDE DEF t
<1>2. Typed(t) BY <1>1, FieldsTyped, Changed DEF ScreenFields
<1> QED BY <1>2 DEF t

LEMMA LoadRight ==
  ASSUME ScreensInv, NEW sheet \in Sheets \cup {NoSheet}, LoadResults(sheet)
  PROVE  ScreensInv'
<1> DEFINE s == [rv EXCEPT !.listing = sheet]
<1>1. Typed(s) /\ s.shown = rv.shown
  <2>1. Typed(s) BY TypedNow, SheetTyped, ListingTyped
  <2>2. s.shown = rv.shown BY TypedNow, FieldsTyped DEF ScreenFields
  <2> QED BY <2>1, <2>2
<1>2. rv' = IF rv.shown THEN Rendered(s) ELSE s BY DEF LoadResults, Handler
<1> HIDE DEF s
<1>3. CASE rv.shown BY <1>1, <1>2, <1>3, ShownAnew, RightStep
<1>4. CASE ~rv.shown BY <1>1, <1>2, <1>4 DEF ScreensInv, Typed
<1> QED BY <1>3, <1>4

LEMMA ApplyRight ==
  ASSUME ScreensInv, ApplyDeletes
  PROVE  Right(rv)'
<1>1. PICK gone \in SUBSET rv.flags \ {{}} :
        LET after == [g \in Gids |-> Without(rv.listing[g], gone)]
        IN  rv' = Rendered([rv EXCEPT !.listing = after, !.flags = @ \ gone,
                                      !.picked = {g \in @ : after[g] # <<>>}])
  BY DEF ApplyDeletes, Handler
<1> DEFINE after == [g \in Gids |-> Without(rv.listing[g], gone)]
           t == [rv EXCEPT !.listing = after, !.flags = @ \ gone,
                           !.picked = {g \in @ : after[g] # <<>>}]
<1>2. Typed(rv) /\ rv.listing \in SheetSet /\ DOMAIN rv = ScreenFields BY TypedNow, FieldsTyped
<1>3. after \in SheetSet BY <1>2, WithoutKeeps DEF SheetSet
<1>4. rv' = Rendered(t) BY <1>1
<1> HIDE DEF after
<1>5. /\ DOMAIN t = ScreenFields /\ t.listing = after
      /\ \A k \in ScreenFields \ {"listing", "flags", "picked"} : t[k] = rv[k]
  BY <1>2 DEF ScreenFields
<1> HIDE DEF t
<1>6. Typed(t) BY <1>2, <1>3, <1>5, FieldsTyped, Changed DEF ScreenFields
<1> QED BY <1>4, <1>6, ShownAnew

LEMMA UndoRight ==
  ASSUME ScreensInv, NEW sheet \in Sheets, UndoDeletes(sheet)
  PROVE  Right(rv)'
<1>1. PICK s \in Marks(rv) : rv' = RefreshedIfSeen(Rendered([s EXCEPT !.listing = sheet]))
  BY DEF UndoDeletes, Handler
<1>2. Typed([s EXCEPT !.listing = sheet])
  <2>1. Typed(s) BY TypedNow, Marked
  <2> QED BY <2>1, SheetTyped, ListingTyped
<1>3. Right(Rendered([s EXCEPT !.listing = sheet])) BY <1>2, ShownAnew
<1> QED BY <1>1, <1>3, RefreshedIfSeenRight DEF Right

LEMMA FinishRight ==
  ASSUME ScreensInv, FinishApply
  PROVE  Right(rv)'
<1> DEFINE st == IF rv.listing = NoSheet THEN <<"overview">> ELSE <<"overview", "browse">>
           t  == [rv EXCEPT !.detail = NoGid, !.stack = st]
<1>1. rv' = Rendered(t) BY DEF FinishApply, Handler
<1> HIDE DEF st
<1>2. Typed(rv) BY TypedNow
<1>3. /\ DOMAIN t = ScreenFields /\ t.detail = NoGid
      /\ \A k \in ScreenFields \ {"detail", "stack"} : t[k] = rv[k]
  BY <1>2, FieldsTyped DEF ScreenFields
<1> HIDE DEF t
<1>4. Typed(t) BY <1>2, <1>3, FieldsTyped, Changed DEF ScreenFields
<1> QED BY <1>1, <1>4, ShownAnew

LEMMA SaveRight ==
  ASSUME ScreensInv, SaveScreens
  PROVE  ScreensInv'
<1> DEFINE r == [rv EXCEPT !.saved = <<Screen(rv), rv.layouts>>]
<1>1. rv' = r BY DEF SaveScreens, Handler
<1>2. Typed(rv) /\ ScreenRight(rv) /\ rv.layouts \in Layouts /\ DOMAIN rv = ScreenFields
  BY TypedNow, FieldsTyped DEF SaveScreens, ScreensInv
<1>3. /\ DOMAIN r = ScreenFields /\ r.saved[2] = rv.layouts
      /\ \A k \in ScreenFields \ {"saved"} : r[k] = rv[k]
  BY <1>2 DEF ScreenFields
<1> HIDE DEF r
<1>4. Typed(r) BY <1>2, <1>3, FieldsTyped, Changed DEF ScreenFields
<1>5. /\ r.listing = rv.listing /\ r.flags = rv.flags /\ r.grid = rv.grid /\ r.detail = rv.detail
      /\ r.stack = rv.stack /\ r.slot = rv.slot /\ r.card = rv.card /\ r.rows = rv.rows
      /\ r.gen = rv.gen /\ r.tails = rv.tails /\ r.id = rv.id /\ r.ref = rv.ref
      /\ r.cmp = rv.cmp /\ r.swap = rv.swap /\ r.panels = rv.panels
  BY <1>3 DEF ScreenFields
<1>6. /\ Visible(r) = Visible(rv) /\ \A l : RowsFor(r, l) = RowsFor(rv, l)
      /\ \A g, files : BuildRow(r, g, files) = BuildRow(rv, g, files)
      /\ \A g : FilesOf(r, g) = FilesOf(rv, g)
  BY <1>5, RowsAlike
<1>7. Host(r) = Host(rv) /\ Screen(r) = Screen(rv) /\ Live(r) = Live(rv) /\ Sides(r) = Sides(rv)
  BY <1>5 DEF Host, Screen, Live, Sides
<1>8. Pair(r) = Pair(rv) BY <1>5, <1>6, <1>7 DEF Pair
<1>9. InspectRight(rv) => InspectRight(r) BY <1>5, <1>6, <1>8 DEF InspectRight
<1>10. Filling(rv) => Filling(r) BY <1>5, <1>6, <1>7 DEF Filling
<1>11. BrowseRight(rv) => BrowseRight(r) BY <1>5, <1>6, <1>7, <1>10 DEF BrowseRight
<1>12. ScreenRight(r) BY <1>2, <1>7, <1>9, <1>11 DEF ScreenRight
<1> QED BY <1>1, <1>4, <1>12, RightStep DEF Right

LEMMA ScreensAtStart == ScreensInit => ScreensInv
<1> SUFFICES ASSUME ScreensInit PROVE ScreensInv OBVIOUS
<1>1. ~rv.shown /\ DOMAIN rv = ScreenFields BY DEF ScreensInit, ScreenFields
<1>2. /\ rv.listing = NoSheet /\ rv.detail = NoGid /\ rv.id = NoGid /\ rv.ref = 0 /\ rv.cmp = 1
      /\ rv.swap = FALSE /\ rv.layouts = [g \in Gids |-> NoLayout] /\ rv.saved = <<>>
      /\ rv.rows = NoRows /\ rv.gen = 0 /\ rv.tails = {}
  BY DEF ScreensInit
<1>3. rv.listing \in SheetSet /\ rv.layouts \in Layouts BY <1>2, SheetTyped DEF Layouts
<1>4. ScreenTypes(rv)
  <2>1. rv.ref \in Int /\ rv.cmp \in Int /\ rv.swap \in BOOLEAN /\ rv.gen \in Nat
    <3>1. rv.ref = 0 /\ rv.cmp = 1 /\ rv.swap = FALSE /\ rv.gen = 0 BY <1>2
    <3>2. 0 \in Int /\ 1 \in Int /\ 0 \in Nat /\ FALSE \in BOOLEAN OBVIOUS
    <3> QED BY <3>1, <3>2, Zenon
  <2>2. rv.rows \in [{"list", "grid"} -> Seq(RowSet)] BY <1>2, EmptyRows
  <2> QED BY <1>1, <1>2, <1>3, <2>1, <2>2, Zenon DEF ScreenTypes
<1>5. TasksBegun(rv) BY <1>2 DEF TasksBegun
<1> QED BY <1>1, <1>4, <1>5 DEF ScreensInv

LEMMA ScreensInductive == ScreensInv /\ [ScreensNext]_screensVars => ScreensInv'
<1> SUFFICES ASSUME ScreensInv, [ScreensNext]_screensVars PROVE ScreensInv' OBVIOUS
<1>1. CASE Resume
  <2>1. PICK t \in rv.tails : rv' = Resumed(rv, t) BY <1>1 DEF Resume
  <2>2. Typed(rv) /\ (rv.shown => ScreenRight(rv)) BY TypedNow DEF ScreensInv
  <2> QED BY <2>1, <2>2, ResumedRight DEF ScreensInv, Typed
<1>2. CASE \/ StartReview \/ Back \/ CloseDetail \/ ViewMode \/ EditMarks
           \/ \E g \in Gids : OpenDetail(g) \/ OpenInspect(g)
           \/ \E screen \in {"overview", "browse"} : Jump(screen)
  BY <1>2, StepsOfBrowse, RightStep
<1>3. CASE \/ \E by \in {-1, 1} : OtherSet(by) \/ StepCompare(by)
           \/ \E i \in 0..2 : StripTap(i) \/ MakeReference(i)
           \/ SwapPanels \/ PinCompare \/ MarkAndNext \/ KeepBoth \/ DeleteAll
  BY <1>3, StepsOfInspect, RightStep
<1>4. ASSUME NEW sheet \in Sheets \cup {NoSheet}, Show(sheet) PROVE ScreensInv'
  BY <1>4, ShowRight, RightStep
<1>5. ASSUME NEW sheet \in Sheets \cup {NoSheet}, LoadResults(sheet) PROVE ScreensInv'
  BY <1>5, LoadRight
<1>6. ASSUME NEW sheet \in Sheets, UndoDeletes(sheet) PROVE ScreensInv'
  BY <1>6, UndoRight, RightStep
<1>7. CASE Leave
  <2> DEFINE t == [rv EXCEPT !.shown = FALSE]
  <2>1. rv' = t /\ Typed(rv) BY <1>7, TypedNow DEF Leave, Handler
  <2>2. DOMAIN t = ScreenFields /\ ~t.shown /\ \A k \in ScreenFields \ {"shown"} : t[k] = rv[k]
    BY <2>1, FieldsTyped DEF ScreenFields
  <2> HIDE DEF t
  <2>3. Typed(t) BY <2>1, <2>2, FieldsTyped, Changed DEF ScreenFields
  <2> QED BY <2>1, <2>2, <2>3 DEF ScreensInv, Typed
<1>8. CASE ApplyTheme BY <1>8, TypedNow, ShownAnew, RightStep DEF ApplyTheme, Handler
<1>9. CASE ApplyDeletes BY <1>9, ApplyRight, RightStep
<1>10. CASE FinishApply BY <1>10, FinishRight, RightStep
<1>11. CASE SaveScreens BY <1>11, SaveRight
<1>12. CASE UNCHANGED screensVars
  <2>1. rv' = rv BY <1>12 DEF screensVars
  <2> QED BY <2>1 DEF ScreensInv
<1> QED BY <1>1, <1>2, <1>3, <1>4, <1>5, <1>6, <1>7, <1>8, <1>9, <1>10, <1>11, <1>12 DEF ScreensNext

(* What the inductive invariant is for. *)
LEMMA ScreensRight == ScreensInv => ScreensCurrent
<1> SUFFICES ASSUME ScreensInv PROVE ScreensCurrent OBVIOUS
<1>1. RowsCurrent
  <2> SUFFICES ASSUME Seen("browse") PROVE RowsCurrent BY DEF RowsCurrent
  <2>1. BrowseRight(rv) BY DEF ScreensInv, ScreenRight, Seen
  <2> QED BY <2>1 DEF RowsCurrent, BrowseRight, Filling, Live, Host
<1>2. PanelsCurrent
  <2> SUFFICES ASSUME Seen("inspect") PROVE PanelsCurrent BY DEF PanelsCurrent
  <2>1. InspectRight(rv) BY DEF ScreensInv, ScreenRight, Seen
  <2> QED BY <2>1 DEF PanelsCurrent, InspectRight
<1> QED BY <1>1, <1>2 DEF ScreensCurrent

(* Whatever marks, view mode, group, listing or saved session changes while
   tasks are suspended, the rows on the screen with those to come, the
   details and the two panels are those of the listing and the marks
   (browse.py:100-167, chunked_view.py:240-295, inspect.py). *)
THEOREM ScreensCurrentAlways == ScreensSpec => []ScreensCurrent
<1>1. ScreensSpec => []ScreensInv BY ScreensAtStart, ScreensInductive, PTL DEF ScreensSpec
<1> QED BY <1>1, ScreensRight, PTL

------------------------------------------------------------------------------
(* The grouping engines.  The union-find: what joining two records and
   compressing a path do to its classes. *)

(* What the trees of the union-find hang by: a node that is no root has a
   smaller rank than its parent.                                            *)
Forests(n) == {f \in [parent : [1..n -> 1..n], rank : [1..n -> Nat]] :
                  \A x \in 1..n : f.parent[x] # x => f.rank[x] < f.rank[f.parent[x]]}

(* A function with finitely many values in Nat has a bound. *)
LEMMA Bounded ==
  ASSUME NEW n \in Nat, NEW f \in [1..n -> Nat]
  PROVE  \E B \in Nat : \A x \in 1..n : f[x] <= B
<1> DEFINE Wrong == {k \in 0..n : ~\E B \in Nat : \A x \in 1..k : f[x] <= B}
<1>0. n \in 0..n OBVIOUS
<1> SUFFICES ASSUME Wrong # {} PROVE FALSE BY <1>0
<1>1. PICK k \in Wrong : \A l \in Wrong : k <= l
  <2>1. Wrong \in SUBSET Nat OBVIOUS
  <2> HIDE DEF Wrong
  <2> QED BY <2>1, SmallestNumber
<1>2. k \in 0..n /\ ~\E B \in Nat : \A x \in 1..k : f[x] <= B OBVIOUS
<1>3. k # 0
  <2>1. \A x \in 1..0 : f[x] <= 0 OBVIOUS
  <2> QED BY <1>2, <2>1
<1>4. k - 1 \in 0..n /\ ~(k <= k - 1) BY <1>2, <1>3
<1>5. PICK B \in Nat : \A x \in 1..(k-1) : f[x] <= B BY <1>1, <1>4
<1>6. k \in 1..n /\ f[k] \in Nat
  <2>1. k \in 1..n BY <1>2, <1>3
  <2> QED BY <2>1
<1>7. PICK C \in Nat : B <= C /\ f[k] <= C
  <2>1. CASE B <= f[k] BY <1>6, <2>1
  <2>2. CASE ~(B <= f[k]) BY <1>6, <2>2
  <2> QED BY <2>1, <2>2
<1>8. \A x \in 1..k : f[x] <= C
  <2> TAKE x \in 1..k
  <2>1. CASE x = k BY <1>7, <2>1
  <2>2. CASE x # k
    <3>1. x \in 1..(k-1) /\ x \in 1..n BY <1>2, <2>2
    <3>2. f[x] <= B /\ f[x] \in Nat BY <1>5, <3>1
    <3> QED BY <1>7, <3>2
  <2> QED BY <2>1, <2>2
<1> QED BY <1>2, <1>8

(* Numbers up to B, one for each of D. *)
Ranks(D, B) == [D -> 0..B]

(* What holds of a member when it holds of those of greater rank holds of
   all, if the ranks have a bound. *)
LEMMA ByRank ==
  ASSUME NEW K, NEW B \in Nat, NEW rank \in Ranks(K, B), NEW S,
         \A x \in K : (\A y \in K : rank[x] < rank[y] => y \in S) => x \in S
  PROVE  \A x \in K : x \in S
<1> USE DEF Ranks
<1> DEFINE Wrong == {B - rank[x] : x \in {z \in K : z \notin S}}
<1> SUFFICES ASSUME NEW w \in K, w \notin S PROVE FALSE OBVIOUS
<1>2. Wrong \in SUBSET Nat /\ Wrong # {}
  <2>1. ASSUME NEW x \in K PROVE B - rank[x] \in Nat
    <3>1. rank[x] \in 0..B OBVIOUS
    <3> QED BY <3>1
  <2>2. B - rank[w] \in Wrong OBVIOUS
  <2>3. ASSUME NEW k \in Wrong PROVE k \in Nat
    <3>1. PICK x \in {z \in K : z \notin S} : k = B - rank[x] OBVIOUS
    <3> QED BY <2>1, <3>1
  <2> HIDE DEF Wrong
  <2> QED BY <2>2, <2>3
<1>3. PICK m \in Wrong : \A l \in Wrong : m <= l
  <2> HIDE DEF Wrong
  <2> QED BY <1>2, SmallestNumber
<1>4. PICK x \in K : x \notin S /\ m = B - rank[x] OBVIOUS
<1>5. PICK y \in K : rank[x] < rank[y] /\ y \notin S BY <1>4
<1>6. B - rank[y] \in Wrong BY <1>5
<1>7. m <= B - rank[y] BY <1>3, <1>6
<1>8. rank[x] \in 0..B /\ rank[y] \in 0..B OBVIOUS
<1> QED BY <1>4, <1>5, <1>7, <1>8

(* The recursive function that climbs until next stands still. *)
Climbs(top, K, next) == top = [y \in K |-> IF next[y] = y THEN y ELSE top[next[y]]]

(* There is such a function when every step raises a bounded rank. *)
LEMMA ClimbExists ==
  ASSUME NEW K, NEW B \in Nat, NEW next \in [K -> K], NEW rank \in Ranks(K, B),
         \A x \in K : next[x] # x => rank[x] < rank[next[x]]
  PROVE  \E top : Climbs(top, K, next)
<1> DEFINE Closed(C) == \A x \in C : next[x] \in C
           Summits(y) == {z \in K : next[z] = z /\ \A C \in SUBSET K : y \in C /\ Closed(C) => z \in C}
<1>2. ASSUME NEW y \in K, next[y] = y PROVE Summits(y) = {y}
  <2>1. {y} \in SUBSET K /\ Closed({y}) BY <1>2
  <2>2. y \in Summits(y) BY <1>2
  <2>3. \A z \in Summits(y) : z = y BY <2>1
  <2> QED BY <2>2, <2>3
<1>3. ASSUME NEW y \in K, next[y] # y PROVE Summits(y) = Summits(next[y])
  <2>1. ASSUME NEW z \in Summits(y) PROVE z \in Summits(next[y])
    <3>1. z \in K /\ next[z] = z OBVIOUS
    <3>2. ASSUME NEW C \in SUBSET K, next[y] \in C, Closed(C) PROVE z \in C
      <4>1. C \cup {y} \in SUBSET K /\ Closed(C \cup {y}) BY <3>2
      <4>2. z \in C \cup {y} BY <4>1
      <4> QED BY <1>3, <3>1, <4>2
    <3> QED BY <3>1, <3>2
  <2>2. ASSUME NEW z \in Summits(next[y]) PROVE z \in Summits(y)
    <3>1. z \in K /\ next[z] = z OBVIOUS
    <3>2. ASSUME NEW C \in SUBSET K, y \in C, Closed(C) PROVE z \in C
      <4>1. next[y] \in C BY <3>2
      <4> QED BY <3>2, <4>1
    <3> QED BY <3>1, <3>2
  <2> QED BY <2>1, <2>2
<1>4. \A y \in K : Summits(y) # {}
  <2> DEFINE S == {y \in K : Summits(y) # {}}
  <2>1. ASSUME NEW x \in K, \A y \in K : rank[x] < rank[y] => y \in S PROVE x \in S
    <3> HIDE DEF Summits
    <3>1. CASE next[x] = x BY <1>2, <3>1
    <3>2. CASE next[x] # x
      <4>1. next[x] \in S BY <2>1, <3>2
      <4>2. Summits(x) = Summits(next[x]) BY <1>3, <3>2
      <4> QED BY <4>1, <4>2
    <3> QED BY <3>1, <3>2
  <2> HIDE DEF S
  <2>2. \A x \in K : x \in S BY <2>1, ByRank
  <2> QED BY <2>2 DEF S
<1> DEFINE top == [y \in K |-> CHOOSE z : z \in Summits(y)]
           h == [y \in K |-> IF next[y] = y THEN y ELSE top[next[y]]]
<1>5. ASSUME NEW y \in K PROVE top[y] = h[y]
  <2> HIDE DEF Summits
  <2>1. CASE next[y] = y BY <1>2, <2>1
  <2>2. CASE next[y] # y BY <1>3, <2>2
  <2> QED BY <2>1, <2>2
<1>6. top = h BY <1>5
<1> QED BY <1>6 DEF Climbs

(* The ranks of a forest have a bound. *)
LEMMA RanksBounded ==
  ASSUME NEW n \in Nat, NEW f \in Forests(n)
  PROVE  \E B \in Nat : f.rank \in Ranks(1..n, B)
<1>1. f.rank \in [1..n -> Nat] BY DEF Forests
<1>2. PICK B \in Nat : \A x \in 1..n : f.rank[x] <= B BY <1>1, Bounded
<1>3. \A x \in 1..n : f.rank[x] \in 0..B BY <1>1, <1>2
<1> QED BY <1>1, <1>3 DEF Ranks

(* Root is the function that follows the parents to the top. *)
LEMMA RootDefined ==
  ASSUME NEW n \in Nat, NEW f \in Forests(n)
  PROVE  \E r \in [1..n -> 1..n] :
            /\ \A y \in 1..n : Root(f.parent, y) = r[y]
            /\ \A y \in 1..n : r[y] = IF f.parent[y] = y THEN y ELSE r[f.parent[y]]
<1> DEFINE p == f.parent
           D == 1..n
           Def(g) == g = [y \in DOMAIN p |-> IF p[y] = y THEN y ELSE g[p[y]]]
<1>0. PICK B \in Nat : f.rank \in Ranks(D, B) BY RanksBounded
<1>1. p \in [D -> D] /\ \A x \in D : p[x] # x => f.rank[x] < f.rank[p[x]] BY DEF Forests
<1> HIDE DEF p, D
<1>5. \E g : Def(g)
  <2>1. \E g : Climbs(g, D, p) BY <1>0, <1>1, ClimbExists
  <2>2. DOMAIN p = D BY <1>1
  <2> QED BY <2>1, <2>2, Zenon DEF Climbs
<1>6. PICK r : r = (CHOOSE g : Def(g)) OBVIOUS
<1>7. Def(r)
  <2> HIDE DEF Def
  <2> QED BY <1>5, <1>6
<1>8. \A y : Root(p, y) = r[y] BY <1>6 DEF Root
<1>9. DOMAIN r = D /\ \A y \in D : r[y] = IF p[y] = y THEN y ELSE r[p[y]]
  <2>1. r = [y \in D |-> IF p[y] = y THEN y ELSE r[p[y]]] BY <1>1, <1>7
  <2> HIDE DEF Def
  <2> QED BY <2>1
<1>10. r \in [D -> D]
  <2> DEFINE S == {y \in D : r[y] \in D}
  <2>1. ASSUME NEW x \in D, \A y \in D : f.rank[x] < f.rank[y] => y \in S PROVE x \in S
    <3>1. CASE p[x] = x BY <1>9, <3>1
    <3>2. CASE p[x] # x
      <4>1. p[x] \in S BY <1>1, <2>1, <3>2
      <4>2. r[x] = r[p[x]] BY <1>9, <3>2
      <4> QED BY <4>1, <4>2
    <3> QED BY <3>1, <3>2
  <2> HIDE DEF S
  <2>3. \A x \in D : x \in S BY <1>0, <2>1, ByRank
  <2>4. \A x \in D : r[x] \in D BY <2>3 DEF S, D
  <2>5. r = [y \in D |-> r[y]] BY <1>1, <1>7
  <2> QED BY <2>4, <2>5
<1> HIDE DEF Def
<1> QED BY <1>8, <1>9, <1>10 DEF D, p

(* A root hangs from itself and has a rank above that of all below it. *)
LEMMA RootIsTop ==
  ASSUME NEW n \in Nat, NEW f \in Forests(n), NEW y \in 1..n
  PROVE  /\ Root(f.parent, y) \in 1..n
         /\ f.parent[Root(f.parent, y)] = Root(f.parent, y)
         /\ f.rank[y] <= f.rank[Root(f.parent, y)]
         /\ f.parent[y] # y => f.rank[y] < f.rank[Root(f.parent, y)]
         /\ Root(f.parent, y) = IF f.parent[y] = y THEN y ELSE Root(f.parent, f.parent[y])
<1> DEFINE p == f.parent
           D == 1..n
<1>1. p \in [D -> D] /\ f.rank \in [D -> Nat] /\ \A x \in D : p[x] # x => f.rank[x] < f.rank[p[x]]
  BY DEF Forests
<1>2. PICK r \in [D -> D] :
            /\ \A z \in D : Root(p, z) = r[z]
            /\ \A z \in D : r[z] = IF p[z] = z THEN z ELSE r[p[z]]
  BY RootDefined
<1>6. y \in D OBVIOUS
<1> HIDE DEF p, D
<1> DEFINE S == {z \in D : /\ p[r[z]] = r[z] /\ f.rank[z] <= f.rank[r[z]]
                           /\ p[z] # z => f.rank[z] < f.rank[r[z]]}
<1>3. ASSUME NEW x \in D, \A z \in D : f.rank[x] < f.rank[z] => z \in S PROVE x \in S
  <2>0. x \in D /\ D = 1..n /\ p[x] \in D /\ f.rank[x] \in Nat /\ f.rank[p[x]] \in Nat /\ r[x] \in D
    BY <1>1, <1>2 DEF D
  <2>1. CASE p[x] = x
    <3>1. r[x] = x BY <1>2, <2>0, <2>1
    <3> QED BY <2>0, <2>1, <3>1
  <2>2. CASE p[x] # x
    <3>1. p[x] \in S /\ f.rank[x] < f.rank[p[x]] BY <1>1, <1>3, <2>0, <2>2
    <3>2. r[x] = r[p[x]] BY <1>2, <2>0, <2>2
    <3>3. p[r[x]] = r[x] /\ f.rank[p[x]] <= f.rank[r[x]] /\ f.rank[r[x]] \in Nat
      BY <1>1, <2>0, <3>1, <3>2
    <3>4. f.rank[x] < f.rank[r[x]]
      <4>1. f.rank[x] < f.rank[p[x]] /\ f.rank[p[x]] <= f.rank[r[x]] BY <3>1, <3>3
      <4>2. f.rank[x] \in Nat /\ f.rank[p[x]] \in Nat /\ f.rank[r[x]] \in Nat BY <2>0, <3>3
      <4> QED BY <4>1, <4>2
    <3> QED BY <2>0, <3>3, <3>4
  <2> QED BY <2>1, <2>2
<1> HIDE DEF S
<1>4. PICK B \in Nat : f.rank \in Ranks(D, B) BY RanksBounded DEF D
<1>5. y \in S BY <1>3, <1>4, <1>6, ByRank
<1>7. Root(p, y) = r[y] /\ r[y] \in D /\ Root(p, p[y]) = r[p[y]] BY <1>1, <1>2, <1>6
<1>8. r[y] = IF p[y] = y THEN y ELSE r[p[y]] BY <1>2, <1>6
<1> QED BY <1>5, <1>7, <1>8 DEF S, D, p

(* A map that takes each node where it takes the parent, and a root to
   itself, gives the roots. *)
LEMMA RootUnique ==
  ASSUME NEW n \in Nat, NEW f \in Forests(n), NEW g,
         \A y \in 1..n : g[y] = IF f.parent[y] = y THEN y ELSE g[f.parent[y]]
  PROVE  \A y \in 1..n : Root(f.parent, y) = g[y]
<1> DEFINE S == {y \in 1..n : Root(f.parent, y) = g[y]}
<1>1. /\ f.parent \in [1..n -> 1..n] /\ f.rank \in [1..n -> Nat]
      /\ \A x \in 1..n : f.parent[x] # x => f.rank[x] < f.rank[f.parent[x]]
  BY DEF Forests
<1>2. ASSUME NEW x \in 1..n, \A z \in 1..n : f.rank[x] < f.rank[z] => z \in S PROVE x \in S
  <2>1. CASE f.parent[x] = x BY <2>1, RootIsTop
  <2>2. CASE f.parent[x] # x
    <3>1. f.parent[x] \in S
      <4>1. f.parent[x] \in 1..n /\ f.rank[x] < f.rank[f.parent[x]] BY <1>1, <2>2
      <4> HIDE DEF S
      <4> QED BY <1>2, <4>1
    <3>2. Root(f.parent, x) = Root(f.parent, f.parent[x]) BY <2>2, RootIsTop
    <3>3. g[x] = g[f.parent[x]] BY <2>2
    <3> QED BY <3>1, <3>2, <3>3
  <2> QED BY <2>1, <2>2
<1> HIDE DEF S
<1>3. \A x \in 1..n : x \in S
  <2> DEFINE D == 1..n
  <2>1. PICK B \in Nat : f.rank \in Ranks(D, B) BY RanksBounded
  <2>2. \A x \in D : (\A z \in D : f.rank[x] < f.rank[z] => z \in S) => x \in S BY <1>2
  <2> HIDE DEF D
  <2>3. \A x \in D : x \in S BY <2>1, <2>2, ByRank
  <2> QED BY <2>3 DEF D
<1> QED BY <1>3 DEF S

(* What is on the way from x up is below x's root, and is no root. *)
LEMMA AncestorsBelow ==
  ASSUME NEW n \in Nat, NEW f \in Forests(n), NEW x \in 1..n
  PROVE  \A z \in Ancestors(f.parent, x) :
            z \in 1..n /\ f.parent[z] # z /\ Root(f.parent, z) = Root(f.parent, x)
<1> DEFINE p == f.parent
           D == 1..n
           Closed(C) == \A y \in C : p[y] \in C
           way == [y \in D |-> {z \in D : p[z] # z /\ \A C \in SUBSET D : y \in C /\ Closed(C) => z \in C}]
           Def(g) == g = [y \in DOMAIN p |-> IF p[y] = y THEN {} ELSE {y} \cup g[p[y]]]
<1>1. p \in [D -> D] /\ f.rank \in [D -> Nat] /\ \A y \in D : p[y] # y => f.rank[y] < f.rank[p[y]]
  BY DEF Forests
<1> HIDE DEF p, D
<1>2. ASSUME NEW y \in D, p[y] = y PROVE way[y] = {}
  <2>1. {y} \in SUBSET D /\ y \in {y} /\ Closed({y}) BY <1>2
  <2>2. ASSUME NEW z \in way[y] PROVE FALSE
    <3>1. p[z] # z /\ z \in {y} BY <2>1
    <3> QED BY <1>2, <3>1
  <2> QED BY <2>2
<1>3. ASSUME NEW y \in D, p[y] # y PROVE way[y] = {y} \cup way[p[y]]
  <2>0. p[y] \in D BY <1>1
  <2>1. ASSUME NEW z \in way[y], z # y PROVE z \in way[p[y]]
    <3>1. z \in D /\ p[z] # z OBVIOUS
    <3>2. ASSUME NEW C \in SUBSET D, p[y] \in C, Closed(C) PROVE z \in C
      <4>1. C \cup {y} \in SUBSET D /\ y \in C \cup {y} /\ Closed(C \cup {y}) BY <3>2
      <4>2. z \in C \cup {y} BY <4>1
      <4> QED BY <2>1, <4>2
    <3> QED BY <2>0, <3>1, <3>2
  <2>2. ASSUME NEW z \in way[p[y]] PROVE z \in way[y]
    <3>1. z \in D /\ p[z] # z BY <2>0
    <3>2. ASSUME NEW C \in SUBSET D, y \in C, Closed(C) PROVE z \in C
      <4>1. p[y] \in C BY <3>2
      <4> QED BY <2>0, <3>2, <4>1
    <3> QED BY <3>1, <3>2
  <2>3. y \in way[y] BY <1>3
  <2> HIDE DEF way
  <2> QED BY <2>1, <2>2, <2>3
<1>4. Def(way)
  <2> DEFINE h == [y \in DOMAIN p |-> IF p[y] = y THEN {} ELSE {y} \cup way[p[y]]]
  <2>1. DOMAIN p = D /\ DOMAIN way = D BY <1>1
  <2>2. way = [y \in D |-> way[y]] OBVIOUS
  <2> HIDE DEF way
  <2>3. ASSUME NEW y \in D PROVE way[y] = h[y] BY <1>2, <1>3, <2>1
  <2>4. way = h BY <2>1, <2>2, <2>3
  <2> QED BY <2>4
<1> HIDE DEF way
<1>5. PICK on : on = (CHOOSE g : Def(g)) OBVIOUS
<1>6. Def(on)
  <2> HIDE DEF Def
  <2> QED BY <1>4, <1>5
<1>7. Ancestors(p, x) = on[x] BY <1>5 DEF Ancestors
<1>8. \A y \in D : on[y] = IF p[y] = y THEN {} ELSE {y} \cup on[p[y]]
  <2>1. on = [y \in D |-> IF p[y] = y THEN {} ELSE {y} \cup on[p[y]]] BY <1>1, <1>6
  <2> HIDE DEF Def
  <2> QED BY <2>1
<1> HIDE DEF Def
<1> DEFINE Below(y) == {z \in D : p[z] # z /\ Root(p, z) = Root(p, y)}
           S == {y \in D : on[y] \subseteq Below(y)}
<1>9. ASSUME NEW y \in D, \A z \in D : f.rank[y] < f.rank[z] => z \in S PROVE y \in S
  <2>0. y \in D /\ D = 1..n /\ p[y] \in D BY <1>1 DEF D
  <2>1. CASE p[y] = y BY <1>8, <2>0, <2>1
  <2>2. CASE p[y] # y
    <3>1. p[y] \in S BY <1>1, <1>9, <2>0, <2>2
    <3>2. Root(p, y) = Root(p, p[y]) BY <2>0, <2>2, RootIsTop DEF p
    <3>3. on[y] = {y} \cup on[p[y]] BY <1>8, <2>0, <2>2
    <3> QED BY <2>0, <2>2, <3>1, <3>2, <3>3
  <2> QED BY <2>1, <2>2
<1> HIDE DEF S
<1>10. PICK B \in Nat : f.rank \in Ranks(D, B) BY RanksBounded DEF D
<1>11. x \in S
  <2>1. x \in D BY DEF D
  <2>2. \A z \in D : z \in S BY <1>9, <1>10, ByRank
  <2> QED BY <2>1, <2>2
<1> QED BY <1>7, <1>11 DEF S, D, p

(* find() leaves the forest in order and every root where it was. *)
LEMMA FoundKeeps ==
  ASSUME NEW n \in Nat, NEW f \in Forests(n), NEW x \in 1..n
  PROVE  /\ Found(f, x) \in Forests(n)
         /\ Found(f, x).rank = f.rank
         /\ \A y \in 1..n : Root(Found(f, x).parent, y) = Root(f.parent, y)
<1> DEFINE p == f.parent
           way == Ancestors(p, x)
           top == Root(p, x)
           q == [y \in DOMAIN p |-> IF y \in way THEN top ELSE p[y]]
           r == [y \in 1..n |-> Root(p, y)]
<1>1. p \in [1..n -> 1..n] /\ f.rank \in [1..n -> Nat] /\ \A y \in 1..n : p[y] # y => f.rank[y] < f.rank[p[y]]
  BY DEF Forests
<1>2. \A z \in way : z \in 1..n /\ p[z] # z /\ Root(p, z) = top BY AncestorsBelow
<1>3. top \in 1..n BY RootIsTop
<1>4. \A y \in 1..n : y \in way => f.rank[y] < f.rank[top]
  <2> SUFFICES ASSUME NEW y \in 1..n, y \in way PROVE f.rank[y] < f.rank[top] OBVIOUS
  <2>1. p[y] # y /\ Root(p, y) = top BY <1>2
  <2>2. f.rank[y] < f.rank[Root(p, y)] BY <2>1, RootIsTop
  <2> QED BY <2>1, <2>2
<1>5. /\ \A y \in 1..n : r[y] \in 1..n /\ r[y] = Root(p, y)
      /\ \A y \in 1..n : r[y] = IF p[y] = y THEN y ELSE r[p[y]]
      /\ \A y \in 1..n : y \in way => r[y] = top
      /\ r[top] = top
  <2>1. ASSUME NEW y \in 1..n PROVE r[y] \in 1..n /\ r[y] = Root(p, y) BY RootIsTop
  <2>2. ASSUME NEW y \in 1..n PROVE r[y] = IF p[y] = y THEN y ELSE r[p[y]]
    <3>1. p[y] \in 1..n BY <1>1
    <3>2. Root(p, y) = IF p[y] = y THEN y ELSE Root(p, p[y]) BY RootIsTop
    <3> QED BY <3>1, <3>2
  <2>3. ASSUME NEW y \in 1..n, y \in way PROVE r[y] = top BY <1>2, <2>3
  <2>4. r[top] = top
    <3>1. p[top] = top BY RootIsTop
    <3> QED BY <1>3, <2>2, <3>1
  <2> QED BY <2>1, <2>2, <2>3, <2>4
<1>6. Found(f, x) = [f EXCEPT !.parent = q] BY Zenon DEF Found
<1> HIDE DEF way, top, p
<1>7. q \in [1..n -> 1..n] /\ \A y \in 1..n : q[y] = IF y \in way THEN top ELSE p[y] BY <1>1, <1>3
<1> HIDE DEF q, r
<1>8. Found(f, x).parent = q /\ Found(f, x).rank = f.rank BY <1>6 DEF Forests
<1>9. Found(f, x) \in Forests(n)
  <2>1. Found(f, x) \in [parent : [1..n -> 1..n], rank : [1..n -> Nat]]
    BY <1>1, <1>6, <1>7 DEF Forests
  <2>2. ASSUME NEW y \in 1..n, q[y] # y PROVE f.rank[y] < f.rank[q[y]] BY <1>1, <1>4, <1>7, <2>2
  <2> QED BY <1>8, <2>1, <2>2 DEF Forests
<1>10. ASSUME NEW y \in 1..n PROVE r[y] = IF q[y] = y THEN y ELSE r[q[y]]
  <2>1. CASE y \in way
    <3>1. top # y
      <4>1. f.rank[y] < f.rank[top] /\ f.rank[y] \in Nat BY <1>1, <1>4, <2>1
      <4> QED BY <4>1
    <3>2. q[y] = top /\ r[y] = top BY <1>5, <1>7, <2>1
    <3> QED BY <1>5, <3>1, <3>2
  <2>2. CASE y \notin way BY <1>5, <1>7, <2>2
  <2> QED BY <2>1, <2>2
<1>11. \A y \in 1..n : Root(Found(f, x).parent, y) = r[y]
  <2>1. \A y \in 1..n : r[y] = IF Found(f, x).parent[y] = y THEN y ELSE r[Found(f, x).parent[y]]
    BY <1>8, <1>10
  <2> QED BY <1>9, <2>1, RootUnique
<1> QED BY <1>5, <1>8, <1>9, <1>11 DEF p

(* What hangs, over whatever way, from the root of i. *)
ClassOf(f, n, i) == {j \in 1..n : Root(f.parent, j) = Root(f.parent, i)}

(* No class falls into two parts that no pair of E joins. *)
Connected(f, n, E) ==
    \A i \in 1..n : \A T \in SUBSET ClassOf(f, n, i) :
        T # {} /\ T # ClassOf(f, n, i) =>
            \E u \in T, v \in ClassOf(f, n, i) \ T : <<u, v>> \in E

(* union() makes one class of two, and leaves the others alone. *)
LEMMA JoinedMerges ==
  ASSUME NEW n \in Nat, NEW f \in Forests(n), NEW x \in 1..n, NEW y \in 1..n
  PROVE  /\ Joined(f, x, y) \in Forests(n)
         /\ \E top \in {Root(f.parent, x), Root(f.parent, y)} : \A z \in 1..n :
               Root(Joined(f, x, y).parent, z) =
                  IF Root(f.parent, z) \in {Root(f.parent, x), Root(f.parent, y)}
                  THEN top ELSE Root(f.parent, z)
<1> DEFINE s == Found(Found(f, x), y)
           rx == Root(s.parent, x)
           ry == Root(s.parent, y)
           J == Joined(f, x, y)
           r == [z \in 1..n |-> Root(s.parent, z)]
<1>1. s \in Forests(n) /\ \A z \in 1..n : Root(s.parent, z) = Root(f.parent, z)
  <2>1. Found(f, x) \in Forests(n) /\ \A z \in 1..n : Root(Found(f, x).parent, z) = Root(f.parent, z)
    BY FoundKeeps
  <2>2. s \in Forests(n) /\ \A z \in 1..n : Root(s.parent, z) = Root(Found(f, x).parent, z)
    BY <2>1, FoundKeeps
  <2> QED BY <2>1, <2>2
<1>2. J = IF rx = ry THEN s
          ELSE IF s.rank[rx] < s.rank[ry]
          THEN [s EXCEPT !.parent[rx] = ry]
          ELSE [s EXCEPT !.parent[ry] = rx,
                         !.rank[rx] = IF s.rank[rx] = s.rank[ry] THEN @ + 1 ELSE @]
  BY Zenon DEF Joined
<1> HIDE DEF s, J
<1>3. /\ s.parent \in [1..n -> 1..n] /\ s.rank \in [1..n -> Nat]
      /\ s = [parent |-> s.parent, rank |-> s.rank]
      /\ \A z \in 1..n : s.parent[z] # z => s.rank[z] < s.rank[s.parent[z]]
  BY <1>1 DEF Forests
<1>4. /\ rx \in 1..n /\ ry \in 1..n
      /\ s.parent[rx] = rx /\ s.parent[ry] = ry
      /\ \A z \in 1..n : r[z] = Root(s.parent, z) /\ r[z] \in 1..n
      /\ \A z \in 1..n : r[z] = IF s.parent[z] = z THEN z ELSE r[s.parent[z]]
  <2>1. ASSUME NEW z \in 1..n PROVE r[z] = Root(s.parent, z) /\ r[z] \in 1..n BY <1>1, RootIsTop
  <2>2. ASSUME NEW z \in 1..n PROVE r[z] = IF s.parent[z] = z THEN z ELSE r[s.parent[z]]
    <3>1. s.parent[z] \in 1..n BY <1>3
    <3>2. Root(s.parent, z) = IF s.parent[z] = z THEN z ELSE Root(s.parent, s.parent[z])
      BY <1>1, RootIsTop
    <3> QED BY <3>1, <3>2
  <2>3. rx \in 1..n /\ ry \in 1..n /\ s.parent[rx] = rx /\ s.parent[ry] = ry BY <1>1, RootIsTop
  <2> QED BY <2>1, <2>2, <2>3
<1>5. Root(f.parent, x) = rx /\ Root(f.parent, y) = ry /\ \A z \in 1..n : Root(f.parent, z) = r[z]
  BY <1>1, <1>4
<1> HIDE DEF rx, ry, r
<1>6. CASE rx = ry
  <2>1. J = s BY <1>2, <1>6
  <2> QED BY <1>1, <1>4, <1>5, <1>6, <2>1 DEF J
<1>7. ASSUME NEW lo \in {rx, ry}, NEW hi \in {rx, ry}, lo # hi, NEW ranks \in [1..n -> Nat],
             J = [parent |-> [s.parent EXCEPT ![lo] = hi], rank |-> ranks],
             \A z \in 1..n : z # hi => ranks[z] = s.rank[z],
             s.rank[hi] <= ranks[hi], ranks[lo] < ranks[hi]
      PROVE  /\ J \in Forests(n)
             /\ \A z \in 1..n : Root(J.parent, z) = IF r[z] \in {rx, ry} THEN hi ELSE r[z]
  <2> DEFINE q == [s.parent EXCEPT ![lo] = hi]
             g == [z \in 1..n |-> IF r[z] \in {rx, ry} THEN hi ELSE r[z]]
  <2>0. lo \in 1..n /\ hi \in 1..n /\ s.parent[lo] = lo /\ s.parent[hi] = hi BY <1>4, <1>7
  <2>1. q \in [1..n -> 1..n] /\ q[lo] = hi /\ \A z \in 1..n : z # lo => q[z] = s.parent[z]
    BY <1>3, <2>0
  <2>2. J.parent = q /\ J.rank = ranks BY <1>7
  <2> HIDE DEF q
  <2>3. J \in Forests(n)
    <3>1. J \in [parent : [1..n -> 1..n], rank : [1..n -> Nat]] BY <1>7, <2>1 DEF q
    <3>2. ASSUME NEW z \in 1..n, q[z] # z PROVE ranks[z] < ranks[q[z]]
      <4>1. CASE z = lo BY <1>7, <2>1, <4>1
      <4>2. CASE z # lo
        <5>1. q[z] = s.parent[z] /\ s.parent[z] \in 1..n BY <1>3, <2>1, <4>2
        <5>2. s.rank[z] < s.rank[s.parent[z]] BY <1>3, <3>2, <5>1
        <5>3. z # hi BY <2>0, <3>2, <5>1
        <5>4. ranks[z] = s.rank[z] BY <1>7, <5>3
        <5>5. s.rank[s.parent[z]] <= ranks[s.parent[z]]
          <6>1. CASE s.parent[z] = hi BY <1>7, <6>1
          <6>2. CASE s.parent[z] # hi
            <7>1. ranks[s.parent[z]] = s.rank[s.parent[z]] /\ ranks[s.parent[z]] \in Nat
              BY <1>7, <5>1, <6>2
            <7> QED BY <7>1
          <6> QED BY <6>1, <6>2
        <5>6. ranks[z] \in Nat /\ s.rank[s.parent[z]] \in Nat /\ ranks[s.parent[z]] \in Nat
          BY <1>3, <1>7, <5>1
        <5> QED BY <5>1, <5>2, <5>4, <5>5, <5>6
      <4> QED BY <4>1, <4>2
    <3> QED BY <2>2, <3>1, <3>2 DEF Forests
  <2>4. ASSUME NEW z \in 1..n PROVE g[z] = IF q[z] = z THEN z ELSE g[q[z]]
    <3>1. CASE z = lo
      <4>1. r[lo] = lo /\ r[hi] = hi BY <1>4, <2>0
      <4> QED BY <1>7, <2>0, <2>1, <3>1, <4>1
    <3>2. CASE z # lo
      <4>1. q[z] = s.parent[z] /\ s.parent[z] \in 1..n BY <1>3, <2>1, <3>2
      <4>2. CASE q[z] = z
        <5>1. r[z] = z BY <1>4, <4>1, <4>2
        <5>2. r[z] \in {rx, ry} => z = hi BY <1>7, <3>2, <5>1
        <5> QED BY <4>2, <5>1, <5>2
      <4>3. CASE q[z] # z
        <5>1. r[z] = r[q[z]] BY <1>4, <4>1, <4>3
        <5> QED BY <4>1, <4>3, <5>1
      <4> QED BY <4>2, <4>3
    <3> QED BY <3>1, <3>2
  <2>5. \A z \in 1..n : Root(J.parent, z) = g[z]
    <3> HIDE DEF g
    <3>1. \A z \in 1..n : g[z] = IF J.parent[z] = z THEN z ELSE g[J.parent[z]] BY <2>2, <2>4
    <3>2. ASSUME NEW h \in Forests(n), NEW gg,
                 \A z \in 1..n : gg[z] = IF h.parent[z] = z THEN z ELSE gg[h.parent[z]]
          PROVE  \A z \in 1..n : Root(h.parent, z) = gg[z]
      BY <3>2, RootUnique
    <3>3. J \in Forests(n) => \A z \in 1..n : Root(J.parent, z) = g[z] BY <3>1, <3>2
    <3> QED BY <2>3, <3>3
  <2> QED BY <2>3, <2>5
<1>8. CASE rx # ry /\ s.rank[rx] < s.rank[ry]
  <2>1. J = [parent |-> [s.parent EXCEPT ![rx] = ry], rank |-> s.rank]
    <3>1. J = [s EXCEPT !.parent[rx] = ry] BY <1>2, <1>8
    <3> QED BY <1>3, <3>1
  <2>2. s.rank[ry] <= s.rank[ry] BY <1>3, <1>4
  <2>3. /\ J \in Forests(n)
        /\ \A z \in 1..n : Root(J.parent, z) = IF r[z] \in {rx, ry} THEN ry ELSE r[z]
    BY <1>3, <1>7, <1>8, <2>1, <2>2
  <2> QED BY <1>4, <1>5, <2>3 DEF J
<1>9. CASE rx # ry /\ ~(s.rank[rx] < s.rank[ry])
  <2> DEFINE ranks == [s.rank EXCEPT ![rx] = IF s.rank[rx] = s.rank[ry] THEN @ + 1 ELSE @]
  <2>1. J = [parent |-> [s.parent EXCEPT ![ry] = rx], rank |-> ranks]
    <3>1. J = [s EXCEPT !.parent[ry] = rx,
                        !.rank[rx] = IF s.rank[rx] = s.rank[ry] THEN @ + 1 ELSE @]
      BY <1>2, <1>9
    <3> QED BY <1>3, <3>1
  <2>2. s.rank[rx] \in Nat /\ s.rank[ry] \in Nat BY <1>3, <1>4
  <2>3. /\ ranks \in [1..n -> Nat] /\ \A z \in 1..n : z # rx => ranks[z] = s.rank[z]
        /\ ranks[rx] = IF s.rank[rx] = s.rank[ry] THEN s.rank[rx] + 1 ELSE s.rank[rx]
    BY <1>3, <1>4, <2>2
  <2> HIDE DEF ranks
  <2>4. s.rank[rx] <= ranks[rx] /\ ranks[ry] < ranks[rx] BY <1>4, <1>9, <2>2, <2>3
  <2>5. /\ J \in Forests(n)
        /\ \A z \in 1..n : Root(J.parent, z) = IF r[z] \in {rx, ry} THEN rx ELSE r[z]
    BY <1>7, <1>9, <2>1, <2>3, <2>4
  <2> QED BY <1>4, <1>5, <2>5 DEF J
<1> QED BY <1>6, <1>8, <1>9

(* A union of two that E joins keeps every class in one piece. *)
LEMMA JoinedWhole ==
  ASSUME NEW n \in Nat, NEW f \in Forests(n), NEW x \in 1..n, NEW y \in 1..n, NEW E,
         Connected(f, n, E), <<x, y>> \in E, <<y, x>> \in E
  PROVE  /\ Joined(f, x, y) \in Forests(n)
         /\ Connected(Joined(f, x, y), n, E)
         /\ Root(Joined(f, x, y).parent, x) = Root(Joined(f, x, y).parent, y)
         /\ \A z, w \in 1..n : Root(f.parent, z) = Root(f.parent, w) =>
               Root(Joined(f, x, y).parent, z) = Root(Joined(f, x, y).parent, w)
<1> DEFINE J == Joined(f, x, y)
           X == ClassOf(f, n, x)
           Y == ClassOf(f, n, y)
<1>1. PICK top \in {Root(f.parent, x), Root(f.parent, y)} : \A z \in 1..n :
               Root(J.parent, z) =
                  IF Root(f.parent, z) \in {Root(f.parent, x), Root(f.parent, y)}
                  THEN top ELSE Root(f.parent, z)
  BY JoinedMerges, Zenon
<1>2. J \in Forests(n) BY JoinedMerges
<1> HIDE DEF J
<1>3. ASSUME NEW i \in 1..n
      PROVE  ClassOf(J, n, i) = IF i \in X \cup Y THEN X \cup Y ELSE ClassOf(f, n, i)
  BY <1>1 DEF ClassOf
<1>4. x \in X /\ y \in Y BY DEF ClassOf
<1>5. ASSUME NEW i \in 1..n, NEW T \in SUBSET ClassOf(J, n, i), T # {}, T # ClassOf(J, n, i)
      PROVE  \E u \in T, v \in ClassOf(J, n, i) \ T : <<u, v>> \in E
  <2>1. CASE i \notin X \cup Y BY <1>3, <1>5, <2>1 DEF Connected
  <2>2. CASE i \in X \cup Y
    <3>1. ClassOf(J, n, i) = X \cup Y BY <1>3, <2>2
    <3>2. ASSUME NEW k \in {x, y}, NEW C, C = ClassOf(f, n, k), T \cap C # {}, T \cap C # C,
                 C \subseteq X \cup Y
          PROVE  \E u \in T, v \in (X \cup Y) \ T : <<u, v>> \in E
      <4>0. k \in 1..n /\ T \cap C \in SUBSET ClassOf(f, n, k) BY <3>2
      <4>1. PICK u \in T \cap C, v \in C \ (T \cap C) : <<u, v>> \in E BY <3>2, <4>0 DEF Connected
      <4> QED BY <3>2, <4>1
    <3>3. CASE T \cap X # {} /\ T \cap X # X BY <3>1, <3>2, <3>3
    <3>4. CASE T \cap Y # {} /\ T \cap Y # Y BY <3>1, <3>2, <3>4
    <3>5. CASE (T \cap X = {} \/ T \cap X = X) /\ (T \cap Y = {} \/ T \cap Y = Y)
      <4>1. (x \in T /\ y \notin T) \/ (x \notin T /\ y \in T) BY <1>4, <1>5, <3>1, <3>5
      <4> QED BY <1>4, <3>1, <4>1
    <3> QED BY <3>3, <3>4, <3>5
  <2> QED BY <2>1, <2>2
<1>6. Connected(J, n, E) BY <1>5 DEF Connected
<1>7. Root(J.parent, x) = Root(J.parent, y) BY <1>1
<1>8. \A z, w \in 1..n : Root(f.parent, z) = Root(f.parent, w) =>
               Root(J.parent, z) = Root(J.parent, w)
  BY <1>1
<1> QED BY <1>2, <1>6, <1>7, <1>8 DEF J

(* A loop over 1..n: the values before it and after each turn. *)
Steps(n, V) == [1..n -> [V -> V]]
IsLoop(g, n, V, start, step) ==
    /\ g \in [0..n -> V] /\ g[0] = start
    /\ \A k \in 1..n : g[k] = step[k][g[k - 1]]

(* What a loop over the numbers makes of its start, one step for each. *)
LEMMA LoopExists ==
  ASSUME NEW n \in Nat, NEW V, NEW start \in V, NEW step \in Steps(n, V)
  PROVE  \E g : IsLoop(g, n, V, start, step)
<1> USE DEF Steps, IsLoop
<1> DEFINE Runs(m) == \E g : /\ g \in [0..n -> V] /\ g[0] = start
                               /\ \A k \in 1..m : g[k] = step[k][g[k - 1]]
           Wrong == {m \in 0..n : ~Runs(m)}
<1>0. n \in 0..n OBVIOUS
<1> SUFFICES ASSUME Wrong # {} PROVE FALSE BY <1>0
<1>1. PICK m \in Wrong : \A l \in Wrong : m <= l
  <2>1. Wrong \in SUBSET Nat OBVIOUS
  <2> HIDE DEF Wrong
  <2> QED BY <2>1, SmallestNumber
<1>2. m \in 0..n /\ ~Runs(m) OBVIOUS
<1>3. m # 0
  <2>1. [k \in 0..n |-> start] \in [0..n -> V] /\ [k \in 0..n |-> start][0] = start OBVIOUS
  <2>2. \A k \in 1..0 : FALSE OBVIOUS
  <2>3. Runs(0) BY <2>1, <2>2
  <2> HIDE DEF Runs
  <2> QED BY <1>2, <2>3
<1>4. m - 1 \in 0..n /\ ~(m <= m - 1) /\ m \in 1..n BY <1>2, <1>3
<1>5. Runs(m - 1)
  <2> HIDE DEF Runs
  <2> QED BY <1>1, <1>4
<1>6. PICK g \in [0..n -> V] :
        g[0] = start /\ \A k \in 1..(m - 1) : g[k] = step[k][g[k - 1]]
  BY <1>5
<1> DEFINE h == [g EXCEPT ![m] = step[m][g[m - 1]]]
<1>7. step[m][g[m - 1]] \in V BY <1>4
<1>8. h \in [0..n -> V] /\ h[m] = step[m][g[m - 1]] /\ \A k \in 0..n : k # m => h[k] = g[k]
  BY <1>4, <1>7
<1> HIDE DEF h
<1>9. h[0] = start BY <1>3, <1>6, <1>8
<1>10. ASSUME NEW k \in 1..m PROVE h[k] = step[k][h[k - 1]]
  <2>1. k \in 0..n /\ k - 1 \in 0..n /\ k - 1 # m BY <1>4
  <2>2. h[k - 1] = g[k - 1] BY <1>8, <2>1
  <2>3. CASE k = m BY <1>8, <2>2, <2>3
  <2>4. CASE k # m
    <3>1. k \in 1..(m - 1) BY <1>4, <2>4
    <3> QED BY <1>6, <1>8, <2>1, <2>2, <2>4, <3>1
  <2> QED BY <2>3, <2>4
<1> QED BY <1>2, <1>8, <1>9, <1>10

(* A loop keeps what its start has and each step keeps. *)
LEMMA LoopKeeps ==
  ASSUME NEW n \in Nat, NEW g, NEW S, g[0] \in S[0],
         \A k \in 1..n : g[k - 1] \in S[k - 1] => g[k] \in S[k]
  PROVE  \A k \in 0..n : g[k] \in S[k]
<1> DEFINE Wrong == {k \in 0..n : g[k] \notin S[k]}
<1> SUFFICES ASSUME Wrong # {} PROVE FALSE OBVIOUS
<1>1. PICK m \in Wrong : \A l \in Wrong : m <= l
  <2>1. Wrong \in SUBSET Nat OBVIOUS
  <2> HIDE DEF Wrong
  <2> QED BY <2>1, SmallestNumber
<1>2. m \in 0..n /\ g[m] \notin S[m] OBVIOUS
<1>3. m # 0 BY <1>2
<1>4. m - 1 \in 0..n /\ ~(m <= m - 1) /\ m \in 1..n BY <1>2, <1>3
<1>5. g[m - 1] \in S[m - 1] BY <1>1, <1>4
<1> QED BY <1>2, <1>4, <1>5

(* Joining x with all of ys that E joins it with. *)
LEMMA JoinedAllWhole ==
  ASSUME NEW f, Len(records) \in Nat, f \in Forests(Len(records)),
         NEW x \in 1..Len(records), NEW ys \in SUBSET (1..Len(records)), NEW E,
         Connected(f, Len(records), E), \A y \in ys : <<x, y>> \in E /\ <<y, x>> \in E
  PROVE  /\ JoinedAll(f, x, ys) \in Forests(Len(records))
         /\ Connected(JoinedAll(f, x, ys), Len(records), E)
         /\ \A y \in ys : Root(JoinedAll(f, x, ys).parent, x) = Root(JoinedAll(f, x, ys).parent, y)
         /\ \A z, w \in 1..Len(records) : Root(f.parent, z) = Root(f.parent, w) =>
               Root(JoinedAll(f, x, ys).parent, z) = Root(JoinedAll(f, x, ys).parent, w)
<1> DEFINE n == Len(records)
           V == Forests(n)
           step == [k \in 1..n |-> [h \in V |-> IF k \in ys THEN Joined(h, x, k) ELSE h]]
           Def(g) == g = [k \in 0..n |-> IF k = 0 THEN f
                                         ELSE IF k \in ys THEN Joined(g[k - 1], x, k) ELSE g[k - 1]]
<1>0. n \in Nat /\ n \in 0..n OBVIOUS
<1>1. step \in [1..n -> [V -> V]]
  <2>1. ASSUME NEW k \in 1..n, NEW h \in V PROVE (IF k \in ys THEN Joined(h, x, k) ELSE h) \in V
    BY JoinedMerges
  <2> HIDE DEF V
  <2> QED BY <2>1
<1>2. PICK g \in [0..n -> V] : g[0] = f /\ \A k \in 1..n : g[k] = step[k][g[k - 1]]
  <2> HIDE DEF step, n, V
  <2>1. f \in V BY DEF V, n
  <2>2. step \in Steps(n, V) BY <1>1 DEF Steps
  <2>3. \E g : IsLoop(g, n, V, f, step) BY <1>0, <2>1, <2>2, LoopExists
  <2> QED BY <2>3 DEF IsLoop
<1> HIDE DEF n, V
<1>3. Def(g)
  <2> DEFINE h == [k \in 0..n |-> IF k = 0 THEN f
                                  ELSE IF k \in ys THEN Joined(g[k - 1], x, k) ELSE g[k - 1]]
  <2>1. ASSUME NEW k \in 0..n PROVE g[k] = h[k]
    <3>1. CASE k = 0 BY <1>2, <3>1
    <3>2. CASE k # 0
      <4>1. k \in 1..n /\ k - 1 \in 0..n BY <1>0, <3>2
      <4>2. g[k] = step[k][g[k - 1]] /\ g[k - 1] \in V BY <1>2, <4>1
      <4>3. step[k][g[k - 1]] = IF k \in ys THEN Joined(g[k - 1], x, k) ELSE g[k - 1] BY <4>1, <4>2
      <4> QED BY <3>2, <4>2, <4>3
    <3> QED BY <3>1, <3>2
  <2>2. g = [k \in 0..n |-> g[k]] BY <1>2
  <2>3. g = h
    <3> HIDE DEF step
    <3> QED BY <2>1, <2>2
  <2> QED BY <2>3
<1> HIDE DEF step
<1>4. PICK upTo : upTo = (CHOOSE d : Def(d)) OBVIOUS
<1>5. Def(upTo)
  <2> HIDE DEF Def
  <2> QED BY <1>3, <1>4
<1>6. JoinedAll(f, x, ys) = upTo[n] BY <1>4 DEF JoinedAll, n
<1>7. upTo[0] = f /\ \A k \in 1..n : upTo[k] = IF k \in ys THEN Joined(upTo[k - 1], x, k) ELSE upTo[k - 1]
  <2>1. \A k \in 0..n : upTo[k] = IF k = 0 THEN f
                 ELSE IF k \in ys THEN Joined(upTo[k - 1], x, k) ELSE upTo[k - 1]
    <3> HIDE DEF n
    <3> QED BY <1>5
  <2>2. 0 \in 0..n /\ \A k \in 1..n : k \in 0..n /\ k # 0 BY <1>0
  <2> QED BY <2>1, <2>2
<1> HIDE DEF Def
<1> DEFINE Good(h, k) == /\ h \in V /\ Connected(h, n, E)
                         /\ \A y \in ys : y <= k => Root(h.parent, x) = Root(h.parent, y)
                         /\ \A z, w \in 1..n : Root(f.parent, z) = Root(f.parent, w) =>
                               Root(h.parent, z) = Root(h.parent, w)
           S == [k \in 0..n |-> {h \in V : Good(h, k)}]
<1>8. upTo[0] \in S[0]
  <2>1. 0 \in 0..n /\ f \in V /\ Connected(f, n, E) /\ \A y \in ys : ~(y <= 0) BY <1>0 DEF n, V
  <2> QED BY <1>7, <2>1
<1>9. ASSUME NEW k \in 1..n, upTo[k - 1] \in S[k - 1] PROVE upTo[k] \in S[k]
  <2>0. k \in 0..n /\ k - 1 \in 0..n BY <1>0
  <2> DEFINE h == upTo[k - 1]
  <2>1. h \in V /\ Good(h, k - 1) BY <1>9, <2>0
  <2>2. h \in Forests(n) /\ x \in 1..n /\ n \in Nat /\ ys \subseteq 1..n BY <1>0, <2>1 DEF V, n
  <2>3. CASE k \notin ys
    <3>1. upTo[k] = h BY <1>7, <2>3
    <3>2. \A y \in ys : y <= k => y <= k - 1 BY <2>2, <2>3
    <3>3. Good(h, k) BY <2>1, <3>2
    <3> QED BY <2>0, <2>1, <3>1, <3>3
  <2>4. CASE k \in ys
    <3> DEFINE J == Joined(h, x, k)
    <3>1. upTo[k] = J BY <1>7, <2>4
    <3>2. <<x, k>> \in E /\ <<k, x>> \in E BY <2>4
    <3>3. /\ J \in Forests(n) /\ Connected(J, n, E) /\ Root(J.parent, x) = Root(J.parent, k)
          /\ \A z, w \in 1..n : Root(h.parent, z) = Root(h.parent, w) =>
                                Root(J.parent, z) = Root(J.parent, w)
      <4> HIDE DEF h
      <4> QED BY <2>1, <2>2, <3>2, JoinedWhole
    <3> HIDE DEF J, h
    <3>4. ASSUME NEW y \in ys, y <= k PROVE Root(J.parent, x) = Root(J.parent, y)
      <4>1. CASE y = k BY <3>3, <4>1
      <4>2. CASE y # k
        <5>1. y \in 1..n /\ y <= k - 1 BY <2>2, <3>4, <4>2
        <5>2. Root(h.parent, x) = Root(h.parent, y) BY <2>1, <5>1
        <5> QED BY <2>2, <3>3, <5>1, <5>2
      <4> QED BY <4>1, <4>2
    <3>5. \A z, w \in 1..n : Root(f.parent, z) = Root(f.parent, w) =>
               Root(J.parent, z) = Root(J.parent, w)
      BY <2>1, <3>3
    <3>6. J \in V BY <3>3 DEF V
    <3>7. Good(J, k) BY <3>3, <3>4, <3>5, <3>6
    <3> QED BY <2>0, <3>1, <3>6, <3>7
  <2> QED BY <2>3, <2>4
<1>10. upTo[n] \in S[n]
  <2> HIDE DEF S
  <2>1. \A k \in 0..n : upTo[k] \in S[k] BY <1>0, <1>8, <1>9, LoopKeeps
  <2> QED BY <1>0, <2>1
<1>11. upTo[n] \in V /\ Good(upTo[n], n) BY <1>0, <1>10
<1>12. \A y \in ys : y <= n BY DEF n
<1> QED BY <1>6, <1>11, <1>12 DEF n, V

------------------------------------------------------------------------------
(* The BK-tree: a search of it finds what a search of the list would. *)

(* The distance of two finite sets of bits is a distance. *)
LEMMA Distances ==
  ASSUME NEW s, IsFiniteSet(s), NEW t, IsFiniteSet(t), NEW u, IsFiniteSet(u)
  PROVE  /\ HammingDistance(s, t) \in Nat
         /\ HammingDistance(s, t) = HammingDistance(t, s)
         /\ HammingDistance(s, u) <= HammingDistance(s, t) + HammingDistance(t, u)
<1> DEFINE Diff(v, w) == (v \ w) \cup (w \ v)
<1>1. ASSUME NEW v, IsFiniteSet(v), NEW w, IsFiniteSet(w)
      PROVE  IsFiniteSet(Diff(v, w)) /\ Cardinality(Diff(v, w)) \in Nat
  <2>1. IsFiniteSet(v \cup w) BY <1>1, FS_Union
  <2>2. Diff(v, w) \subseteq v \cup w OBVIOUS
  <2> HIDE DEF Diff
  <2> QED BY <2>1, <2>2, FS_Subset, FS_CardinalityType
<1>2. Diff(s, u) \subseteq Diff(s, t) \cup Diff(t, u) /\ Diff(s, t) = Diff(t, s) OBVIOUS
<1>3. /\ HammingDistance(s, t) = Cardinality(Diff(s, t))
      /\ HammingDistance(t, s) = Cardinality(Diff(t, s))
      /\ HammingDistance(t, u) = Cardinality(Diff(t, u))
      /\ HammingDistance(s, u) = Cardinality(Diff(s, u))
  BY DEF HammingDistance
<1> HIDE DEF Diff
<1>4. /\ IsFiniteSet(Diff(s, t) \cup Diff(t, u))
      /\ Cardinality(Diff(s, t) \cup Diff(t, u))
           = Cardinality(Diff(s, t)) + Cardinality(Diff(t, u)) - Cardinality(Diff(s, t) \cap Diff(t, u))
  BY <1>1, FS_Union
<1>5. Cardinality(Diff(s, t) \cap Diff(t, u)) \in Nat
  <2>1. Diff(s, t) \cap Diff(t, u) \subseteq Diff(s, t) OBVIOUS
  <2> QED BY <1>1, <2>1, FS_Subset, FS_CardinalityType
<1>6. Cardinality(Diff(s, u)) <= Cardinality(Diff(s, t) \cup Diff(t, u)) BY <1>2, <1>4, FS_Subset
<1>7. Cardinality(Diff(s, t)) \in Nat /\ Cardinality(Diff(t, u)) \in Nat /\ Cardinality(Diff(s, u)) \in Nat
  BY <1>1
<1> QED BY <1>2, <1>3, <1>4, <1>5, <1>6, <1>7

(* Every node hangs below one that was planted before it. *)
Rooted(t, k) ==
    /\ \A v \in DOMAIN t : \A d \in DOMAIN t[v].children : t[v].children[d] \in DOMAIN t
    /\ \E age \in Ranks(DOMAIN t, k) :
          \A v \in DOMAIN t : \A d \in DOMAIN t[v].children : age[v] < age[t[v].children[d]]

(* One step of the walk from the top to the place of a signature. *)
LEMMA LastNodeSteps ==
  ASSUME NEW k \in Nat, NEW t, Rooted(t, k), NEW v, NEW m \in DOMAIN t
  PROVE  LET d == HammingDistance(v, m)
         IN  LastNode(t, m, v) = IF m = v \/ d \notin DOMAIN t[m].children
                                 THEN m ELSE LastNode(t, t[m].children[d], v)
<1> DEFINE N == DOMAIN t
           D(n) == HammingDistance(v, n)
           Halts(n) == n = v \/ D(n) \notin DOMAIN t[n].children
           next == [n \in N |-> IF Halts(n) THEN n ELSE t[n].children[D(n)]]
           Def(g) == g = [n \in DOMAIN t |->
                            LET d == HammingDistance(v, n)
                            IN  IF n = v \/ d \notin DOMAIN t[n].children
                                THEN n ELSE g[t[n].children[d]]]
<1>1. PICK age \in Ranks(N, k) :
          \A n \in N : \A d \in DOMAIN t[n].children : age[n] < age[t[n].children[d]]
  BY DEF Rooted
<1>2. \A n \in N : \A d \in DOMAIN t[n].children : t[n].children[d] \in N BY DEF Rooted
<1>3. next \in [N -> N] /\ \A n \in N : next[n] = IF Halts(n) THEN n ELSE t[n].children[D(n)]
  BY <1>2
<1>4. ASSUME NEW n \in N, ~Halts(n) PROVE next[n] # n /\ age[n] < age[next[n]]
  <2>1. next[n] = t[n].children[D(n)] /\ D(n) \in DOMAIN t[n].children BY <1>3, <1>4
  <2>2. age[n] < age[next[n]] BY <1>1, <2>1
  <2>3. age[n] \in 0..k BY DEF Ranks
  <2> QED BY <2>2, <2>3
<1>5. ASSUME NEW n \in N PROVE next[n] = n <=> Halts(n) BY <1>3, <1>4
<1> HIDE DEF next, N
<1>6. PICK g : Climbs(g, N, next)
  <2>1. \A x \in N : next[x] # x => age[x] < age[next[x]] BY <1>4, <1>5
  <2> QED BY <1>1, <1>3, <2>1, ClimbExists
<1>7. Def(g)
  <2>1. g = [n \in N |-> IF next[n] = n THEN n ELSE g[next[n]]] BY <1>6 DEF Climbs
  <2>2. ASSUME NEW n \in N
        PROVE  (IF next[n] = n THEN n ELSE g[next[n]])
                = IF n = v \/ D(n) \notin DOMAIN t[n].children
                  THEN n ELSE g[t[n].children[D(n)]]
    BY <1>3, <1>5
  <2>3. g = [n \in N |-> IF n = v \/ D(n) \notin DOMAIN t[n].children
                         THEN n ELSE g[t[n].children[D(n)]]]
    BY <2>1, <2>2
  <2> QED BY <2>3 DEF N
<1>8. PICK down : down = (CHOOSE h : Def(h)) OBVIOUS
<1>9. Def(down)
  <2> HIDE DEF Def
  <2> QED BY <1>7, <1>8
<1>10. \A n : LastNode(t, n, v) = down[n] BY <1>8 DEF LastNode
<1>11. down[m] = IF Halts(m) THEN m ELSE down[t[m].children[D(m)]] BY <1>9
<1> HIDE DEF Def, Halts
<1>12. LastNode(t, m, v) = IF Halts(m) THEN m ELSE LastNode(t, t[m].children[D(m)], v)
  BY <1>10, <1>11
<1> QED BY <1>12 DEF Halts

(* The tree that holds the first k records, each at its signature; the walk
   for a signature that is in it ends there. *)
TreeOf(t, rs, k) ==
    /\ DOMAIN t = {rs[i].sig : i \in 1..k}
    /\ Rooted(t, k)
    /\ \A v \in DOMAIN t :
         /\ t[v] = [items |-> {i \in 1..k : rs[i].sig = v}, children |-> t[v].children]
         /\ LastNode(t, rs[1].sig, v) = v

(* The recursive function that gathers what is below. *)
Gathers(f, N, base, kids) == f = [n \in N |-> base[n] \cup UNION {f[m] : m \in kids[n]}]

(* The nodes a search goes on to from each node. *)
Branches(N) == [N -> SUBSET N]

(* There is such a function when every branch leads to a younger node. *)
LEMMA GatherExists ==
  ASSUME NEW N, NEW base, NEW kids \in Branches(N)
  PROVE  \E f : Gathers(f, N, base, kids)
<1> USE DEF Branches
<1> DEFINE Closed(C) == \A x \in C : kids[x] \subseteq C
           Reach(n) == {m \in N : \A C \in SUBSET N : n \in C /\ Closed(C) => m \in C}
           f == [n \in N |-> UNION {base[m] : m \in Reach(n)}]
           h == [n \in N |-> base[n] \cup UNION {f[m] : m \in kids[n]}]
<1>1. ASSUME NEW n \in N PROVE n \in Reach(n) /\ \A m \in kids[n] : m \in N /\ Reach(m) \subseteq Reach(n)
  <2>1. n \in Reach(n) OBVIOUS
  <2>2. ASSUME NEW m \in kids[n] PROVE m \in N /\ Reach(m) \subseteq Reach(n)
    <3>1. m \in N OBVIOUS
    <3>2. ASSUME NEW x \in Reach(m) PROVE x \in Reach(n)
      <4>1. ASSUME NEW C \in SUBSET N, n \in C, Closed(C) PROVE x \in C
        <5>1. m \in C BY <4>1
        <5> QED BY <4>1, <5>1
      <4> QED BY <4>1
    <3> QED BY <3>1, <3>2
  <2> QED BY <2>1, <2>2
<1>2. ASSUME NEW n \in N, NEW x \in Reach(n) PROVE x = n \/ \E m \in kids[n] : x \in Reach(m)
  <2> DEFINE C == {n} \cup {y \in N : \E m \in kids[n] : y \in Reach(m)}
  <2>1. C \in SUBSET N /\ n \in C OBVIOUS
  <2>2. ASSUME NEW y \in C, NEW z \in kids[y] PROVE z \in C
    <3>0. y \in N /\ z \in N BY <2>1
    <3>1. CASE y = n BY <1>1, <3>0, <3>1
    <3>2. CASE y # n
      <4>1. PICK m \in kids[n] : y \in Reach(m) BY <3>2
      <4>2. z \in Reach(m)
        <5>1. z \in Reach(y) BY <1>1, <3>0
        <5>2. ASSUME NEW B \in SUBSET N, m \in B, Closed(B) PROVE z \in B
          <6>1. y \in B BY <4>1, <5>2
          <6> QED BY <5>2, <6>1
        <5> QED BY <3>0, <5>2
      <4> HIDE DEF Reach
      <4> QED BY <3>0, <4>2
    <3> QED BY <3>1, <3>2
  <2> HIDE DEF C
  <2>3. x \in C BY <2>1, <2>2
  <2> HIDE DEF Reach
  <2> QED BY <2>3 DEF C
<1> HIDE DEF Reach
<1>3. ASSUME NEW n \in N PROVE f[n] = h[n]
  <2>1. ASSUME NEW e \in f[n] PROVE e \in h[n]
    <3>1. PICK x \in Reach(n) : e \in base[x] OBVIOUS
    <3>2. CASE x = n BY <3>1, <3>2
    <3>3. CASE x # n
      <4>1. PICK m \in kids[n] : x \in Reach(m) BY <1>2, <3>3
      <4>2. m \in N OBVIOUS
      <4>3. e \in f[m] BY <3>1, <4>1, <4>2
      <4> QED BY <4>3
    <3> QED BY <3>2, <3>3
  <2>2. ASSUME NEW e \in h[n] PROVE e \in f[n]
    <3>1. CASE e \in base[n] BY <1>1, <3>1
    <3>2. CASE e \notin base[n]
      <4>1. PICK m \in kids[n] : e \in f[m] BY <3>2
      <4>2. m \in N OBVIOUS
      <4>3. PICK x \in Reach(m) : e \in base[x] BY <4>1, <4>2
      <4> QED BY <1>1, <4>3
    <3> QED BY <3>1, <3>2
  <2> HIDE DEF f, h
  <2> QED BY <2>1, <2>2
<1>4. f = h
  <2> DEFINE F(n) == UNION {base[m] : m \in Reach(n)}
             H(n) == base[n] \cup UNION {f[m] : m \in kids[n]}
  <2>1. \A n \in N : F(n) = H(n)
    <3> HIDE DEF f
    <3>1. f = [n \in N |-> UNION {base[m] : m \in Reach(n)}] BY DEF f
    <3> HIDE DEF F, H, h
    <3>2. \A n \in N : f[n] = F(n) BY <3>1 DEF F
    <3>3. \A n \in N : h[n] = H(n) BY DEF h, H
    <3> QED BY <1>3, <3>2, <3>3
  <2>2. f = [n \in N |-> F(n)] /\ h = [n \in N |-> H(n)] OBVIOUS
  <2> HIDE DEF f, h, F, H
  <2> QED BY <2>1, <2>2
<1> HIDE DEF f
<1> QED BY <1>4 DEF Gathers

(* The radius search finds what a comparison with every record finds. *)
LEMMA QueryFinds ==
  ASSUME NEW k \in Nat, NEW t, NEW rs, 1 \in 1..k, TreeOf(t, rs, k),
         \A i \in 1..k : IsFiniteSet(rs[i].sig), NEW v, IsFiniteSet(v)
  PROVE  Query(t, rs[1].sig, v) = {i \in 1..k : HammingDistance(v, rs[i].sig) <= Radius}
<1> DEFINE N == DOMAIN t
           D(n) == HammingDistance(v, n)
           Near(n) == {e \in DOMAIN t[n].children : D(n) - Radius <= e /\ e <= D(n) + Radius}
           base == [n \in N |-> IF D(n) <= Radius THEN t[n].items ELSE {}]
           kids == [n \in N |-> {t[n].children[e] : e \in Near(n)}]
           Def(g) == g = [n \in DOMAIN t |->
                  LET d == HammingDistance(v, n)
                  IN  (IF d <= Radius THEN t[n].items ELSE {})
                      \cup UNION {g[t[n].children[e]] :
                                    e \in {e \in DOMAIN t[n].children :
                                             d - Radius <= e /\ e <= d + Radius}}]
<1>1. /\ N = {rs[i].sig : i \in 1..k}
      /\ \A n \in N : IsFiniteSet(n) /\ t[n].items = {i \in 1..k : rs[i].sig = n}
      /\ \A n \in N : \A d \in DOMAIN t[n].children : t[n].children[d] \in N
      /\ \A n \in N : LastNode(t, rs[1].sig, n) = n
  <2>1. N = {rs[i].sig : i \in 1..k} BY DEF TreeOf
  <2>2. \A n \in N : \A d \in DOMAIN t[n].children : t[n].children[d] \in N BY DEF TreeOf, Rooted
  <2>3. ASSUME NEW n \in N PROVE t[n].items = {i \in 1..k : rs[i].sig = n} /\ LastNode(t, rs[1].sig, n) = n
    <3>1. PICK c : t[n] = [items |-> {i \in 1..k : rs[i].sig = n}, children |-> c] BY DEF TreeOf
    <3>2. LastNode(t, rs[1].sig, n) = n BY DEF TreeOf
    <3> QED BY <3>1, <3>2
  <2>4. \A n \in N : IsFiniteSet(n) BY <2>1
  <2> QED BY <2>1, <2>2, <2>3, <2>4
<1>2. PICK age \in Ranks(N, k) :
          \A n \in N : \A d \in DOMAIN t[n].children : age[n] < age[t[n].children[d]]
  BY DEF TreeOf, Rooted
<1>3. kids \in Branches(N) BY <1>1 DEF Branches
<1> HIDE DEF N
<1>4. PICK g : Gathers(g, N, base, kids)
  <2> HIDE DEF base, kids
  <2> QED BY <1>3, GatherExists
<1>5. \A f : \A n \in N : UNION {f[m] : m \in kids[n]} = UNION {f[t[n].children[e]] : e \in Near(n)}
  <2> TAKE f
  <2> TAKE n \in N
  <2>1. kids[n] = {t[n].children[e] : e \in Near(n)} OBVIOUS
  <2> HIDE DEF kids, Near
  <2>2. {f[m] : m \in kids[n]} = {f[t[n].children[e]] : e \in Near(n)} BY <2>1
  <2> QED BY <2>2
<1>6. Def(g)
  <2> DEFINE H(n) == base[n] \cup UNION {g[m] : m \in kids[n]}
             G(n) == (IF D(n) <= Radius THEN t[n].items ELSE {})
                      \cup UNION {g[t[n].children[e]] : e \in Near(n)}
  <2>1. ASSUME NEW n \in N PROVE H(n) = G(n)
    <3>1. base[n] = IF D(n) <= Radius THEN t[n].items ELSE {} OBVIOUS
    <3> HIDE DEF base, kids, Near
    <3> QED BY <1>5, <3>1
  <2>2. g = [n \in N |-> H(n)] BY <1>4 DEF Gathers
  <2> HIDE DEF H, G, base, kids
  <2>3. g = [n \in N |-> G(n)] BY <2>1, <2>2
  <2> QED BY <2>3 DEF G, N
<1>7. PICK hits : hits = (CHOOSE f : Def(f)) OBVIOUS
<1>8. Def(hits)
  <2> HIDE DEF Def
  <2> QED BY <1>6, <1>7
<1>9. Query(t, rs[1].sig, v) = hits[rs[1].sig] BY <1>7 DEF Query
<1>10. \A n \in N : hits[n] = (IF D(n) <= Radius THEN t[n].items ELSE {})
                             \cup UNION {hits[t[n].children[e]] : e \in Near(n)}
  BY <1>8 DEF N
<1> HIDE DEF Def, base, kids
<1> DEFINE Distinct == {n \in N : \A i \in hits[n] : i \in 1..k /\ D(rs[i].sig) <= Radius}
           Full == {n \in N : \A m \in N : LastNode(t, n, m) = m /\ D(m) <= Radius
                                             => t[m].items \subseteq hits[n]}
<1>11. ASSUME NEW n \in N, \A m \in N : age[n] < age[m] => m \in Distinct PROVE n \in Distinct
  <2>1. ASSUME NEW i \in hits[n] PROVE i \in 1..k /\ D(rs[i].sig) <= Radius
    <3>1. CASE D(n) <= Radius /\ i \in t[n].items BY <1>1, <3>1
    <3>2. CASE ~(D(n) <= Radius /\ i \in t[n].items)
      <4>1. PICK e \in Near(n) : i \in hits[t[n].children[e]]
        <5>1. i \in UNION {hits[t[n].children[e]] : e \in Near(n)} BY <1>10, <3>2
        <5> HIDE DEF Near
        <5> QED BY <5>1
      <4>2. t[n].children[e] \in Distinct BY <1>1, <1>2, <1>11
      <4> QED BY <4>1, <4>2
    <3> QED BY <3>1, <3>2
  <2> QED BY <2>1
<1>12. \A n \in N : n \in Distinct
  <2> HIDE DEF Distinct
  <2> QED BY <1>2, <1>11, ByRank
<1>13. Radius \in Nat BY GroupingAssumption
<1>14. ASSUME NEW n \in N, \A m \in N : age[n] < age[m] => m \in Full PROVE n \in Full
  <2>1. ASSUME NEW m \in N, LastNode(t, n, m) = m, D(m) <= Radius PROVE t[m].items \subseteq hits[n]
    <3>1. CASE n = m BY <1>10, <2>1, <3>1
    <3>2. CASE n # m
      <4> DEFINE e == HammingDistance(m, n)
      <4>1. LastNode(t, n, m) = IF n = m \/ e \notin DOMAIN t[n].children
                                THEN n ELSE LastNode(t, t[n].children[e], m)
        BY LastNodeSteps DEF TreeOf, N
      <4>2. e \in DOMAIN t[n].children /\ LastNode(t, t[n].children[e], m) = m BY <2>1, <3>2, <4>1
      <4>3. t[n].children[e] \in Full BY <1>1, <1>2, <1>14, <4>2
      <4>4. t[m].items \subseteq hits[t[n].children[e]] BY <2>1, <4>2, <4>3
      <4>5. e \in Near(n)
        <5>1. /\ e \in Nat /\ D(n) \in Nat /\ D(m) \in Nat
              /\ D(n) <= D(m) + e
              /\ HammingDistance(m, n) <= HammingDistance(m, v) + HammingDistance(v, n)
              /\ HammingDistance(m, v) = D(m)
          BY <1>1, Distances
        <5>2. D(n) - Radius <= e /\ e <= D(n) + Radius BY <1>13, <2>1, <5>1
        <5> QED BY <4>2, <5>2
      <4>6. hits[t[n].children[e]] \subseteq hits[n]
        <5> HIDE DEF e, Near
        <5> QED BY <1>10, <4>5
      <4> QED BY <4>4, <4>6
    <3> QED BY <3>1, <3>2
  <2> QED BY <2>1
<1>15. \A n \in N : n \in Full
  <2> HIDE DEF Full
  <2> QED BY <1>2, <1>14, ByRank
<1>16. rs[1].sig \in N BY <1>1
<1>17. ASSUME NEW i \in 1..k, D(rs[i].sig) <= Radius PROVE i \in hits[rs[1].sig]
  <2>1. rs[i].sig \in N /\ i \in t[rs[i].sig].items BY <1>1
  <2>2. LastNode(t, rs[1].sig, rs[i].sig) = rs[i].sig BY <1>1, <2>1
  <2> QED BY <1>15, <1>16, <1>17, <2>1, <2>2
<1>18. \A i \in hits[rs[1].sig] : i \in 1..k /\ D(rs[i].sig) <= Radius BY <1>12, <1>16
<1> QED BY <1>9, <1>17, <1>18

(* The walk ends at a node: the one of the signature, or one that has no
   child at its distance. *)
LEMMA LastNodeStops ==
  ASSUME NEW k \in Nat, NEW t, Rooted(t, k), NEW v, NEW m \in DOMAIN t
  PROVE  /\ LastNode(t, m, v) \in DOMAIN t
         /\ \/ LastNode(t, m, v) = v
            \/ HammingDistance(v, LastNode(t, m, v)) \notin DOMAIN t[LastNode(t, m, v)].children
<1> DEFINE N == DOMAIN t
           EndsAt == {n \in N : \E l \in N : /\ LastNode(t, n, v) = l
                                           /\ \/ l = v
                                              \/ HammingDistance(v, l) \notin DOMAIN t[l].children}
<1>1. PICK age \in Ranks(N, k) :
          \A n \in N : \A d \in DOMAIN t[n].children : age[n] < age[t[n].children[d]]
  BY DEF Rooted
<1>2. \A n \in N : \A d \in DOMAIN t[n].children : t[n].children[d] \in N BY DEF Rooted
<1>3. ASSUME NEW n \in N, \A l \in N : age[n] < age[l] => l \in EndsAt PROVE n \in EndsAt
  <2> DEFINE d == HammingDistance(v, n)
  <2>1. LastNode(t, n, v) = IF n = v \/ d \notin DOMAIN t[n].children
                            THEN n ELSE LastNode(t, t[n].children[d], v)
    BY LastNodeSteps
  <2>2. CASE n = v \/ d \notin DOMAIN t[n].children BY <2>1, <2>2
  <2>3. CASE ~(n = v \/ d \notin DOMAIN t[n].children)
    <3>1. t[n].children[d] \in EndsAt BY <1>1, <1>2, <1>3, <2>3
    <3> QED BY <2>1, <2>3, <3>1
  <2> QED BY <2>2, <2>3
<1> HIDE DEF EndsAt, N
<1>4. \A n \in N : n \in EndsAt BY <1>1, <1>3, ByRank
<1> QED BY <1>4 DEF EndsAt, N

(* A tree that has all the nodes and edges of another leads there as well. *)
LEMMA WalkKept ==
  ASSUME NEW k \in Nat, NEW t, Rooted(t, k), NEW l \in Nat, NEW t2, Rooted(t2, l),
         DOMAIN t \subseteq DOMAIN t2,
         \A n \in DOMAIN t : \A d \in DOMAIN t[n].children :
            d \in DOMAIN t2[n].children /\ t2[n].children[d] = t[n].children[d],
         NEW v, NEW m \in DOMAIN t, LastNode(t, m, v) = v
  PROVE  LastNode(t2, m, v) = v
<1> DEFINE N == DOMAIN t
           Arrive == {n \in N : LastNode(t, n, v) = v => LastNode(t2, n, v) = v}
<1>1. PICK age \in Ranks(N, k) :
          \A n \in N : \A d \in DOMAIN t[n].children : age[n] < age[t[n].children[d]]
  BY DEF Rooted
<1>2. \A n \in N : \A d \in DOMAIN t[n].children : t[n].children[d] \in N BY DEF Rooted
<1>3. ASSUME NEW n \in N, \A q \in N : age[n] < age[q] => q \in Arrive PROVE n \in Arrive
  <2> DEFINE d == HammingDistance(v, n)
  <2> SUFFICES ASSUME LastNode(t, n, v) = v PROVE LastNode(t2, n, v) = v OBVIOUS
  <2>1. LastNode(t, n, v) = IF n = v \/ d \notin DOMAIN t[n].children
                            THEN n ELSE LastNode(t, t[n].children[d], v)
    BY LastNodeSteps
  <2>2. LastNode(t2, n, v) = IF n = v \/ d \notin DOMAIN t2[n].children
                             THEN n ELSE LastNode(t2, t2[n].children[d], v)
    BY LastNodeSteps
  <2>3. CASE n = v BY <2>2, <2>3
  <2>4. CASE n # v
    <3>1. d \in DOMAIN t[n].children /\ LastNode(t, t[n].children[d], v) = v BY <2>1, <2>4
    <3>2. t[n].children[d] \in Arrive BY <1>1, <1>2, <1>3, <3>1
    <3>3. d \in DOMAIN t2[n].children /\ t2[n].children[d] = t[n].children[d] BY <3>1
    <3> HIDE DEF d
    <3> QED BY <2>2, <2>4, <3>1, <3>2, <3>3
  <2> QED BY <2>3, <2>4
<1> HIDE DEF Arrive, N
<1>4. \A n \in N : n \in Arrive BY <1>1, <1>3, ByRank
<1> QED BY <1>4 DEF Arrive, N

(* A node is its items and its children. *)
LEMMA NodeOf ==
  ASSUME NEW r, NEW I, NEW c, r = [items |-> I, children |-> c]
  PROVE  /\ r.items = I /\ r.children = c
         /\ r = [items |-> I, children |-> r.children]
         /\ \A e : [r EXCEPT !.children = e] = [items |-> I, children |-> e]
<1>1. r.items = I /\ r.children = c OBVIOUS
<1>2. \A e : [r EXCEPT !.children = e] = [items |-> I, children |-> e] OBVIOUS
<1> QED BY <1>1, <1>2

(* A signature that is planted anew: the tree grows by one leaf. *)
LEMMA LeafPlanted ==
  ASSUME NEW k \in Nat \ {0}, NEW t, NEW rs, TreeOf(t, rs, k), NEW v, v = rs[k + 1].sig,
         LastNode(t, rs[1].sig, v) # v
  PROVE  TreeOf(Planted(t, rs[1].sig, v, k + 1), rs, k + 1)
<1> DEFINE top == rs[1].sig
           n == LastNode(t, top, v)
           N == DOMAIN t
           d == HammingDistance(v, n)
           near == Extended(t[n].children, d, v)
           t2 == Planted(t, top, v, k + 1)
<1>1. N = {rs[i].sig : i \in 1..k} /\ Rooted(t, k) BY DEF TreeOf
<1>2. top \in N /\ N # {} /\ top \in {rs[i].sig : i \in 1..(k + 1)} BY <1>1
<1>3. n \in N /\ d \notin DOMAIN t[n].children BY <1>1, <1>2, LastNodeStops
<1>4. v \notin N /\ n # v BY DEF TreeOf
<1>5. ASSUME NEW m \in N
      PROVE  \E c : /\ t[m] = [items |-> {i \in 1..k : rs[i].sig = m}, children |-> c]
                    /\ t[m].children = c
  BY DEF TreeOf
<1>6. t2 = Extended([t EXCEPT ![n].children = Extended(@, d, v)], v, Leaf(k + 1))
  BY <1>2, <1>4 DEF Planted
<1> DEFINE u == [t EXCEPT ![n].children = near]
<1>7. t2 = Extended(u, v, Leaf(k + 1)) /\ DOMAIN u = N BY <1>6
<1> HIDE DEF n, d, near, t2
<1>8. /\ \A m \in N : m # n => u[m] = t[m]
      /\ u[n] = [items |-> {i \in 1..k : rs[i].sig = n}, children |-> near]
  <2>1. PICK c : t[n] = [items |-> {i \in 1..k : rs[i].sig = n}, children |-> c] BY <1>3, <1>5
  <2>2. u[n] = [t[n] EXCEPT !.children = near] BY <1>3
  <2>3. u[n] = [items |-> {i \in 1..k : rs[i].sig = n}, children |-> near]
    <3> DEFINE I == {i \in 1..k : rs[i].sig = n}
    <3>1. t[n] = [items |-> I, children |-> c] BY <2>1
    <3> HIDE DEF I
    <3>2. u[n] = [items |-> I, children |-> near] BY <2>2, <3>1, NodeOf
    <3> QED BY <3>2 DEF I
  <2> QED BY <2>3
<1> HIDE DEF u
<1>9. DOMAIN t2 = N \cup {v} /\ t2[v] = Leaf(k + 1) /\ \A m \in N : t2[m] = u[m]
  BY <1>4, <1>7 DEF Extended
<1>10. /\ DOMAIN near = DOMAIN t[n].children \cup {d} /\ near[d] = v
       /\ \A e \in DOMAIN t[n].children : near[e] = t[n].children[e]
  BY <1>3 DEF Extended, near
<1> HIDE DEF N
<1>11. /\ DOMAIN t2[v].children = {}
       /\ t2[n].children = near
       /\ \A m \in N : m # n => t2[m].children = t[m].children
  <2>1. t2[v].children = <<>> BY <1>9 DEF Leaf
  <2>2. t2[n].children = near BY <1>3, <1>8, <1>9
  <2>3. \A m \in N : m # n => t2[m].children = t[m].children BY <1>8, <1>9
  <2>4. DOMAIN <<>> = {} OBVIOUS
  <2> QED BY <2>1, <2>2, <2>3, <2>4
<1>12. DOMAIN t2 = {rs[i].sig : i \in 1..(k + 1)}
  <2>1. 1..(k + 1) = 1..k \cup {k + 1} OBVIOUS
  <2> QED BY <1>1, <1>9, <2>1
<1>13. Rooted(t2, k + 1)
  <2>1. PICK age \in Ranks(N, k) :
            \A m \in N : \A e \in DOMAIN t[m].children : age[m] < age[t[m].children[e]]
    BY <1>1 DEF Rooted, N
  <2>2. \A m \in N : \A e \in DOMAIN t[m].children : t[m].children[e] \in N BY <1>1 DEF Rooted, N
  <2> DEFINE older == [m \in DOMAIN t2 |-> IF m = v THEN k + 1 ELSE age[m]]
  <2>3. \A m \in N : age[m] \in 0..k BY DEF Ranks
  <2>4. older \in Ranks(DOMAIN t2, k + 1)
    <3>1. \A m \in DOMAIN t2 : (IF m = v THEN k + 1 ELSE age[m]) \in 0..(k + 1) BY <1>9, <2>3
    <3> QED BY <3>1 DEF Ranks
  <2>5. older[v] = k + 1 /\ \A m \in N : older[m] = age[m] /\ older[m] < older[v]
    BY <1>4, <1>9, <2>3
  <2> HIDE DEF older
  <2>6. ASSUME NEW m \in DOMAIN t2, NEW e \in DOMAIN t2[m].children
        PROVE  t2[m].children[e] \in DOMAIN t2 /\ older[m] < older[t2[m].children[e]]
    <3>1. CASE m = v BY <1>11, <3>1
    <3>2. CASE m = n
      <4>1. CASE e = d BY <1>3, <1>9, <1>10, <1>11, <2>5, <3>2, <4>1
      <4>2. CASE e # d
        <5>1. e \in DOMAIN t[n].children /\ t2[n].children[e] = t[n].children[e]
          BY <1>10, <1>11, <3>2, <4>2
        <5> QED BY <1>3, <1>9, <2>1, <2>2, <2>5, <3>2, <5>1
      <4> QED BY <4>1, <4>2
    <3>3. CASE m # v /\ m # n
      <4>1. m \in N /\ t2[m].children = t[m].children BY <1>9, <1>11, <3>3
      <4> QED BY <1>9, <2>1, <2>2, <2>5, <4>1
    <3> QED BY <3>1, <3>2, <3>3
  <2> QED BY <2>4, <2>6 DEF Rooted
<1>14. ASSUME NEW m \in N, NEW e \in DOMAIN t[m].children
       PROVE  e \in DOMAIN t2[m].children /\ t2[m].children[e] = t[m].children[e]
  BY <1>10, <1>11
<1>15. ASSUME NEW w \in N PROVE LastNode(t2, top, w) = w
  <2>1. LastNode(t, top, w) = w BY DEF TreeOf, N
  <2> QED BY <1>1, <1>2, <1>9, <1>13, <1>14, <2>1, WalkKept DEF N
<1>16. LastNode(t2, v, v) = v
  <2>1. v \in DOMAIN t2 /\ k + 1 \in Nat BY <1>9
  <2> QED BY <1>13, <2>1, LastNodeSteps
<1>17. LastNode(t2, top, v) = v
  <2> DEFINE Arrive == {m \in N : LastNode(t, m, v) = n => LastNode(t2, m, v) = v}
  <2>1. PICK age \in Ranks(N, k) :
            \A m \in N : \A e \in DOMAIN t[m].children : age[m] < age[t[m].children[e]]
    BY <1>1 DEF Rooted, N
  <2>2. \A m \in N : \A e \in DOMAIN t[m].children : t[m].children[e] \in N BY <1>1 DEF Rooted, N
  <2>3. ASSUME NEW m \in N, \A q \in N : age[m] < age[q] => q \in Arrive PROVE m \in Arrive
    <3> DEFINE e == HammingDistance(v, m)
    <3> SUFFICES ASSUME LastNode(t, m, v) = n PROVE LastNode(t2, m, v) = v OBVIOUS
    <3>1. LastNode(t, m, v) = IF m = v \/ e \notin DOMAIN t[m].children
                              THEN m ELSE LastNode(t, t[m].children[e], v)
      BY <1>1, LastNodeSteps DEF N
    <3>2. LastNode(t2, m, v) = IF m = v \/ e \notin DOMAIN t2[m].children
                               THEN m ELSE LastNode(t2, t2[m].children[e], v)
      <4>1. m \in DOMAIN t2 /\ k + 1 \in Nat BY <1>9
      <4> QED BY <1>13, <4>1, LastNodeSteps
    <3>3. m # v BY <1>4
    <3>4. CASE e \notin DOMAIN t[m].children
      <4>1. m = n BY <3>1, <3>4
      <4>2. e = d BY <4>1 DEF d
      <4>3. e \in DOMAIN t2[m].children /\ t2[m].children[e] = v BY <1>10, <1>11, <4>1, <4>2
      <4> HIDE DEF e
      <4> QED BY <1>16, <3>2, <3>3, <4>3
    <3>5. CASE e \in DOMAIN t[m].children
      <4>1. t[m].children[e] \in Arrive BY <2>1, <2>2, <2>3, <3>5
      <4>2. LastNode(t, t[m].children[e], v) = n BY <3>1, <3>3, <3>5
      <4>3. e \in DOMAIN t2[m].children /\ t2[m].children[e] = t[m].children[e] BY <1>14, <3>5
      <4> HIDE DEF e
      <4> QED BY <3>2, <3>3, <4>1, <4>2, <4>3
    <3> QED BY <3>4, <3>5
  <2> HIDE DEF Arrive
  <2>4. \A m \in N : m \in Arrive BY <2>1, <2>3, ByRank
  <2>5. LastNode(t, top, v) = n BY DEF n
  <2> QED BY <1>2, <2>4, <2>5 DEF Arrive
<1>18. ASSUME NEW w \in DOMAIN t2
       PROVE  t2[w] = [items |-> {i \in 1..(k + 1) : rs[i].sig = w}, children |-> t2[w].children]
  <2>0. 1..(k + 1) = 1..k \cup {k + 1} OBVIOUS
  <2>1. CASE w = v
    <3>1. {i \in 1..(k + 1) : rs[i].sig = v} = {k + 1} BY <1>1, <1>4, <2>0
    <3>2. t2[v] = [items |-> {k + 1}, children |-> <<>>] BY <1>9 DEF Leaf
    <3>3. t2[v] = [items |-> {k + 1}, children |-> t2[v].children] BY <3>2, NodeOf
    <3> QED BY <2>1, <3>1, <3>3, Zenon
  <2>2. CASE w # v
    <3>1. w \in N /\ {i \in 1..(k + 1) : rs[i].sig = w} = {i \in 1..k : rs[i].sig = w}
      BY <1>9, <2>0, <2>2
    <3> DEFINE I == {i \in 1..k : rs[i].sig = w}
    <3>2. PICK c : t2[w] = [items |-> I, children |-> c]
      <4>1. PICK c : t[w] = [items |-> I, children |-> c] BY <1>5, <3>1
      <4>2. CASE w = n BY <1>8, <1>9, <3>1, <4>2, Zenon
      <4>3. CASE w # n
        <5>1. t2[w] = t[w] BY <1>8, <1>9, <3>1, <4>3
        <5> QED BY <4>1, <5>1, Zenon
      <4> QED BY <4>2, <4>3
    <3> HIDE DEF I
    <3>3. t2[w] = [items |-> I, children |-> t2[w].children] BY <3>2, NodeOf
    <3> QED BY <3>1, <3>3, Zenon DEF I
  <2> QED BY <2>1, <2>2
<1>19. \A w \in DOMAIN t2 : LastNode(t2, top, w) = w BY <1>9, <1>15, <1>17
<1> QED BY <1>12, <1>13, <1>18, <1>19 DEF TreeOf, t2

(* A signature that is in the tree: its node takes the record as well. *)
LEMMA ItemPlanted ==
  ASSUME NEW k \in Nat \ {0}, NEW t, NEW rs, TreeOf(t, rs, k), NEW v, v = rs[k + 1].sig,
         LastNode(t, rs[1].sig, v) = v
  PROVE  TreeOf(Planted(t, rs[1].sig, v, k + 1), rs, k + 1)
<1> DEFINE top == rs[1].sig
           N == DOMAIN t
           I(w, l) == {i \in 1..l : rs[i].sig = w}
           t2 == Planted(t, top, v, k + 1)
<1>1. N = {rs[i].sig : i \in 1..k} /\ Rooted(t, k) BY DEF TreeOf
<1>2. top \in N /\ N # {} BY <1>1
<1>3. v \in N BY <1>1, <1>2, LastNodeStops
<1>4. t2 = [t EXCEPT ![v].items = @ \cup {k + 1}] BY <1>2 DEF Planted
<1>5. ASSUME NEW w \in N
      PROVE  \E c : t[w] = [items |-> I(w, k), children |-> c]
  BY DEF TreeOf
<1>6. ASSUME NEW w \in N
      PROVE  I(w, k + 1) = IF w = v THEN I(w, k) \cup {k + 1} ELSE I(w, k)
  <2>1. 1..(k + 1) = 1..k \cup {k + 1} OBVIOUS
  <2> QED BY <2>1
<1>7. DOMAIN t2 = N /\ (\A w \in N : w # v => t2[w] = t[w])
      /\ t2[v] = [t[v] EXCEPT !.items = t[v].items \cup {k + 1}]
  BY <1>3, <1>4
<1> HIDE DEF t2, I
<1>8. ASSUME NEW w \in N
      PROVE  \E c : t[w].children = c /\ t2[w] = [items |-> I(w, k + 1), children |-> c]
  <2>1. PICK c : t[w] = [items |-> I(w, k), children |-> c] BY <1>5
  <2>2. t[w].items = I(w, k) /\ t[w].children = c BY <2>1, NodeOf
  <2>3. CASE w = v
    <3>1. t2[w] = [items |-> I(w, k) \cup {k + 1}, children |-> c] BY <1>7, <2>1, <2>2, <2>3
    <3> QED BY <1>6, <2>2, <2>3, <3>1
  <2>4. CASE w # v BY <1>6, <1>7, <2>1, <2>2, <2>4
  <2> QED BY <2>3, <2>4
<1>9. ASSUME NEW w \in N
      PROVE  t2[w].children = t[w].children /\ t2[w] = [items |-> I(w, k + 1), children |-> t2[w].children]
  <2>1. PICK c : t[w].children = c /\ t2[w] = [items |-> I(w, k + 1), children |-> c] BY <1>8
  <2>2. t2[w].children = c BY <2>1, NodeOf
  <2> QED BY <2>1, <2>2, Zenon
<1>10. Rooted(t2, k + 1)
  <2>1. PICK age \in Ranks(N, k) :
            \A m \in N : \A e \in DOMAIN t[m].children : age[m] < age[t[m].children[e]]
    BY <1>1 DEF Rooted
  <2>2. \A m \in N : \A e \in DOMAIN t[m].children : t[m].children[e] \in N BY <1>1 DEF Rooted
  <2>3. age \in Ranks(N, k + 1) BY DEF Ranks
  <2>4. \A m \in N : t2[m].children = t[m].children BY <1>9
  <2> QED BY <1>7, <2>1, <2>2, <2>3, <2>4 DEF Rooted
<1>11. ASSUME NEW w \in N PROVE LastNode(t2, top, w) = w
  <2>1. LastNode(t, top, w) = w BY DEF TreeOf
  <2>2. \A n \in N : \A d \in DOMAIN t[n].children :
            d \in DOMAIN t2[n].children /\ t2[n].children[d] = t[n].children[d]
    BY <1>9
  <2>3. k + 1 \in Nat /\ N \subseteq DOMAIN t2 BY <1>7
  <2> QED BY <1>1, <1>2, <1>10, <2>1, <2>2, <2>3, WalkKept
<1>12. N = {rs[i].sig : i \in 1..(k + 1)}
  <2>1. 1..(k + 1) = 1..k \cup {k + 1} OBVIOUS
  <2> QED BY <1>1, <1>3, <2>1
<1> QED BY <1>7, <1>9, <1>10, <1>11, <1>12 DEF TreeOf, t2, I

(* The first record makes the root. *)
LEMMA RootPlanted ==
  ASSUME NEW t, DOMAIN t = {}, NEW rs
  PROVE  TreeOf(Planted(t, rs[1].sig, rs[1].sig, 1), rs, 1)
<1> DEFINE v == rs[1].sig
           t2 == Planted(t, v, v, 1)
<1>1. t2 = Extended(t, v, Leaf(1)) BY DEF Planted
<1>2. DOMAIN t2 = {v} /\ t2[v] = Leaf(1) BY <1>1 DEF Extended
<1> HIDE DEF t2
<1>3. t2[v] = [items |-> {1}, children |-> <<>>] BY <1>2 DEF Leaf
<1>4. t2[v].children = <<>> /\ t2[v] = [items |-> {1}, children |-> t2[v].children] BY <1>3, NodeOf
<1>5. DOMAIN t2[v].children = {} BY <1>4
<1>6. Rooted(t2, 1)
  <2>1. [m \in {v} |-> 1] \in Ranks(DOMAIN t2, 1) BY <1>2 DEF Ranks
  <2> QED BY <1>2, <1>5, <2>1 DEF Rooted
<1>7. LastNode(t2, v, v) = v BY <1>2, <1>6, LastNodeSteps
<1>8. {i \in 1..1 : rs[i].sig = v} = {1} /\ {rs[i].sig : i \in 1..1} = {v} OBVIOUS
<1> QED BY <1>2, <1>4, <1>6, <1>7, <1>8, Zenon DEF TreeOf, t2

(* The tree that all the records are planted in. *)
LEMMA PlantRight ==
  ASSUME NEW rs, Len(rs) \in Nat \ {0}
  PROVE  TreeOf(Plant(rs), rs, Len(rs))
<1> DEFINE n == Len(rs)
           P(t, k) == Planted(t, rs[1].sig, rs[k].sig, k)
           Def(g) == g = [k \in 0..n |-> IF k = 0 THEN <<>> ELSE P(g[k - 1], k)]
           Runs(m) == \E g : /\ g = [k \in 0..n |-> g[k]] /\ g[0] = <<>>
                             /\ \A k \in 1..m : g[k] = P(g[k - 1], k)
           Wrong == {m \in 0..n : ~Runs(m)}
<1>1. n \in Nat \ {0} /\ n \in 0..n OBVIOUS
<1> HIDE DEF n, P
<1>2. Runs(n)
  <2> SUFFICES ASSUME Wrong # {} PROVE FALSE BY <1>1
  <2>1. PICK m \in Wrong : \A l \in Wrong : m <= l
    <3>1. Wrong \in SUBSET Nat OBVIOUS
    <3> HIDE DEF Wrong
    <3> QED BY <3>1, SmallestNumber
  <2>2. m \in 0..n /\ ~Runs(m) OBVIOUS
  <2>3. m # 0
    <3> DEFINE g == [k \in 0..n |-> <<>>]
    <3>1. g = [k \in 0..n |-> g[k]] /\ g[0] = <<>> BY <1>1
    <3>2. \A k \in 1..0 : FALSE OBVIOUS
    <3> HIDE DEF g
    <3>3. Runs(0) BY <3>1, <3>2
    <3> HIDE DEF Runs
    <3> QED BY <2>2, <3>3
  <2>4. m - 1 \in 0..n /\ ~(m <= m - 1) /\ m \in 1..n BY <1>1, <2>2, <2>3
  <2>5. Runs(m - 1)
    <3> HIDE DEF Runs
    <3> QED BY <2>1, <2>4
  <2>6. PICK g : /\ g = [k \in 0..n |-> g[k]] /\ g[0] = <<>>
                 /\ \A k \in 1..(m - 1) : g[k] = P(g[k - 1], k)
    BY <2>5
  <2> DEFINE h == [k \in 0..n |-> IF k = m THEN P(g[m - 1], m) ELSE g[k]]
  <2>7. h = [k \in 0..n |-> h[k]] /\ \A k \in 0..n : h[k] = IF k = m THEN P(g[m - 1], m) ELSE g[k]
    OBVIOUS
  <2> HIDE DEF h
  <2>8. h[0] = <<>>
    <3>1. 0 \in 0..n BY <1>1
    <3>2. h[0] = g[0] BY <2>3, <2>7, <3>1
    <3> QED BY <2>6, <3>2
  <2>9. ASSUME NEW k \in 1..m PROVE h[k] = P(h[k - 1], k)
    <3>1. k \in 0..n /\ k - 1 \in 0..n /\ k - 1 # m BY <1>1, <2>4
    <3>2. h[k - 1] = g[k - 1] BY <2>7, <3>1
    <3>3. CASE k = m BY <2>7, <3>1, <3>2, <3>3
    <3>4. CASE k # m
      <4>1. k \in 1..(m - 1) BY <2>4, <3>4
      <4> QED BY <2>6, <2>7, <3>1, <3>2, <3>4, <4>1
    <3> QED BY <3>3, <3>4
  <2> QED BY <2>2, <2>7, <2>8, <2>9
<1> HIDE DEF Wrong
<1>3. PICK g : /\ g = [k \in 0..n |-> g[k]] /\ g[0] = <<>>
               /\ \A k \in 1..n : g[k] = P(g[k - 1], k)
  BY <1>2
<1>4. Def(g)
  <2> DEFINE h == [k \in 0..n |-> IF k = 0 THEN <<>> ELSE P(g[k - 1], k)]
  <2>1. ASSUME NEW k \in 0..n PROVE g[k] = h[k]
    <3>1. k = 0 \/ k \in 1..n BY <1>1
    <3> QED BY <1>3, <3>1
  <2>2. g = h BY <1>3, <2>1
  <2> QED BY <2>2
<1>5. PICK upTo : upTo = (CHOOSE f : Def(f)) OBVIOUS
<1>6. Def(upTo)
  <2> HIDE DEF Def
  <2> QED BY <1>4, <1>5
<1>7. Plant(rs) = upTo[n] BY <1>5 DEF Plant, n, P
<1>8. upTo[0] = <<>> /\ \A k \in 1..n : upTo[k] = P(upTo[k - 1], k)
  <2>1. \A k \in 0..n : upTo[k] = IF k = 0 THEN <<>> ELSE P(upTo[k - 1], k) BY <1>6
  <2>2. 0 \in 0..n /\ \A k \in 1..n : k \in 0..n /\ k # 0 BY <1>1
  <2> QED BY <2>1, <2>2
<1> HIDE DEF Def, Runs
<1> DEFINE Remain == {k \in 1..n : ~TreeOf(upTo[k], rs, k)}
<1>9. TreeOf(upTo[n], rs, n)
  <2> SUFFICES ASSUME Remain # {} PROVE FALSE BY <1>1
  <2>1. PICK m \in Remain : \A l \in Remain : m <= l
    <3>1. Remain \in SUBSET Nat OBVIOUS
    <3> HIDE DEF Remain
    <3> QED BY <3>1, SmallestNumber
  <2>2. m \in 1..n /\ ~TreeOf(upTo[m], rs, m) /\ upTo[m] = P(upTo[m - 1], m) BY <1>8
  <2>3. CASE m = 1
    <3>1. upTo[1] = Planted(upTo[0], rs[1].sig, rs[1].sig, 1) BY <2>2, <2>3 DEF P
    <3>2. DOMAIN upTo[0] = {} BY <1>8
    <3>3. TreeOf(upTo[1], rs, 1) BY <3>1, <3>2, RootPlanted
    <3> QED BY <2>2, <2>3, <3>3
  <2>4. CASE m # 1
    <3>1. m - 1 \in 1..n /\ ~(m <= m - 1) /\ m - 1 \in Nat \ {0} /\ (m - 1) + 1 = m
      BY <1>1, <2>2, <2>4
    <3>2. TreeOf(upTo[m - 1], rs, m - 1) BY <2>1, <3>1
    <3>3. ASSUME NEW k \in Nat \ {0}, k + 1 = m, TreeOf(upTo[k], rs, k)
          PROVE  TreeOf(Planted(upTo[k], rs[1].sig, rs[k + 1].sig, k + 1), rs, k + 1)
      <4>1. CASE LastNode(upTo[k], rs[1].sig, rs[k + 1].sig) = rs[k + 1].sig
        BY <3>3, <4>1, ItemPlanted
      <4>2. CASE LastNode(upTo[k], rs[1].sig, rs[k + 1].sig) # rs[k + 1].sig
        BY <3>3, <4>2, LeafPlanted
      <4> QED BY <4>1, <4>2
    <3>4. TreeOf(P(upTo[m - 1], m), rs, m) BY <3>1, <3>2, <3>3 DEF P
    <3> QED BY <2>2, <3>4
  <2> QED BY <2>3, <2>4
<1> QED BY <1>7, <1>9 DEF n

------------------------------------------------------------------------------
(* The lists, the clusters and the keepers of the grouping engines. *)

(* R puts the members of a finite set in a line. *)
TotalOrder(S, R) ==
  /\ IsFiniteSet(S)
  /\ \A x \in S : <<x, x>> \notin R
  /\ \A x, y \in S : x # y => <<x, y>> \in R \/ <<y, x>> \in R
  /\ \A x, y, z \in S : <<x, y>> \in R /\ <<y, z>> \in R => <<x, z>> \in R

(* OrderedLists, for an order that is known to be total. *)
LEMMA TotalOrderLists ==
  ASSUME NEW S, NEW R, TotalOrder(S, R)
  PROVE  /\ Ordered(S, R) \in Seq(S)
         /\ Len(Ordered(S, R)) = Cardinality(S)
         /\ \A x \in S : \E k \in 1..Cardinality(S) : Ordered(S, R)[k] = x
         /\ \A j, k \in 1..Cardinality(S) :
               j < k => <<Ordered(S, R)[j], Ordered(S, R)[k]>> \in R
  BY OrderedLists, Zenon DEF TotalOrder

(* A loop over a set of numbers meets each of them once, in their order. *)
LEMMA AscendingLists ==
  ASSUME NEW S, IsFiniteSet(S), S \subseteq Int
  PROVE  /\ Cardinality(S) \in Nat
         /\ Ascending(S) \in [1..Cardinality(S) -> S]
         /\ \A x \in S : \E k \in 1..Cardinality(S) : Ascending(S)[k] = x
         /\ \A j, k \in 1..Cardinality(S) : j # k => Ascending(S)[j] # Ascending(S)[k]
         /\ \A j, k \in 1..Cardinality(S) : j < k => Ascending(S)[j] < Ascending(S)[k]
<1> DEFINE R == {p \in S \X S : p[1] < p[2]}
           o == Ordered(S, R)
           n == Cardinality(S)
<1>1. \A x, y \in S : <<x, y>> \in R <=> x < y OBVIOUS
<1>2. n \in Nat BY FS_CardinalityType
<1> HIDE DEF R, n
<1>3. /\ o \in Seq(S) /\ Len(o) = n
      /\ \A x \in S : \E k \in 1..n : o[k] = x
      /\ \A j, k \in 1..n : j < k => <<o[j], o[k]>> \in R
  <2>1. \A x \in S : <<x, x>> \notin R BY <1>1
  <2>2. \A x, y \in S : x # y => <<x, y>> \in R \/ <<y, x>> \in R BY <1>1
  <2>3. \A x, y, z \in S : <<x, y>> \in R /\ <<y, z>> \in R => <<x, z>> \in R BY <1>1
  <2>4. TotalOrder(S, R) BY <2>1, <2>2, <2>3 DEF TotalOrder
  <2> QED BY <2>4, TotalOrderLists DEF n
<1>4. Ascending(S) = o BY DEF Ascending, R
<1> HIDE DEF o
<1>5. o \in [1..n -> S] BY <1>3
<1>6. \A j, k \in 1..n : j < k => o[j] < o[k] BY <1>1, <1>3, <1>5
<1>7. \A j, k \in 1..n : j # k => o[j] # o[k]
  <2> SUFFICES ASSUME NEW j \in 1..n, NEW k \in 1..n, j # k PROVE o[j] # o[k] OBVIOUS
  <2>1. o[j] \in Int /\ o[k] \in Int BY <1>5
  <2>2. j < k \/ k < j BY <1>2
  <2> QED BY <1>6, <2>1, <2>2
<1> QED BY <1>2, <1>3, <1>4, <1>5, <1>6, <1>7 DEF n

(* There is one that none beats. *)
LEMMA BestIsMember ==
  ASSUME NEW S, IsFiniteSet(S), S # {}, S \subseteq Int, NEW beats,
         \A x, y \in S : <<x, y>> \in beats => <<y, x>> \notin beats,
         \A x, y, z \in S : <<x, y>> \in beats => <<x, z>> \in beats \/ <<z, y>> \in beats
  PROVE  Best(S, beats) \in S
<1> DEFINE Wins(i, j) == <<i, j>> \in beats \/ (<<j, i>> \notin beats /\ i < j)
           R == {p \in S \X S : Wins(p[1], p[2])}
           o == Ordered(S, R)
           n == Cardinality(S)
<1>1. \A x, y \in S : <<x, y>> \in R <=> Wins(x, y) OBVIOUS
<1>2. n \in Nat /\ 1 \in 1..n
  <2>1. n \in Nat /\ n # 0 BY FS_CardinalityType, FS_EmptySet
  <2> QED BY <2>1
<1> HIDE DEF R, n
<1>3. /\ o \in Seq(S) /\ Len(o) = n
      /\ \A x \in S : \E k \in 1..n : o[k] = x
      /\ \A j, k \in 1..n : j < k => <<o[j], o[k]>> \in R
  <2>1. \A x \in S : <<x, x>> \notin R BY <1>1
  <2>2. ASSUME NEW x \in S, NEW y \in S, x # y PROVE <<x, y>> \in R \/ <<y, x>> \in R
    <3>1. x < y \/ y < x BY <2>2
    <3> QED BY <1>1, <3>1
  <2>3. ASSUME NEW x \in S, NEW y \in S, NEW z \in S, <<x, y>> \in R, <<y, z>> \in R
        PROVE  <<x, z>> \in R
    <3>1. Wins(x, y) /\ Wins(y, z) BY <1>1, <2>3
    <3>2. CASE <<x, z>> \in beats BY <1>1, <3>2
    <3>3. CASE <<x, z>> \notin beats
      <4>1. <<x, y>> \notin beats
        <5>1. SUFFICES ASSUME <<x, y>> \in beats PROVE FALSE OBVIOUS
        <5>2. <<z, y>> \in beats BY <3>3, <5>1
        <5>3. <<y, z>> \notin beats BY <5>2
        <5> QED BY <3>1, <5>2, <5>3
      <4>2. <<y, x>> \notin beats /\ x < y BY <3>1, <4>1
      <4>3. <<y, z>> \notin beats BY <3>3, <4>2
      <4>4. <<z, y>> \notin beats /\ y < z BY <3>1, <4>3
      <4>5. <<z, x>> \notin beats BY <4>2, <4>4
      <4>6. x < z BY <4>2, <4>4
      <4> QED BY <1>1, <4>5, <4>6
    <3> QED BY <3>2, <3>3
  <2>4. \A x, y, z \in S : <<x, y>> \in R /\ <<y, z>> \in R => <<x, z>> \in R BY <2>3
  <2> QED
    <3>1. TotalOrder(S, R) BY <2>1, <2>2, <2>4 DEF TotalOrder
    <3> QED BY <3>1, TotalOrderLists DEF n
<1> HIDE DEF o
<1>4. o[1] \in S BY <1>2, <1>3
<1>5. ASSUME NEW j \in S \ {o[1]} PROVE Wins(o[1], j)
  <2>1. PICK k \in 1..n : o[k] = j BY <1>3
  <2>2. 1 < k BY <1>2, <2>1
  <2> QED BY <1>1, <1>2, <1>3, <1>4, <2>1, <2>2
<1>6. \E i \in S : \A j \in S \ {i} : <<i, j>> \in beats \/ (<<j, i>> \notin beats /\ i < j)
  BY <1>4, <1>5
<1> QED BY <1>6 DEF Best

(* The clusters are the classes of more than one member, each once. *)
LEMMA ClustersListed ==
  ASSUME NEW n \in Nat, uf \in Forests(n)
  PROVE  /\ \A k \in DOMAIN Clusters : \E i \in 1..n : Clusters[k] = ClassOf(uf, n, i)
         /\ \A k \in DOMAIN Clusters : Cardinality(Clusters[k]) > 1
         /\ \A j, k \in DOMAIN Clusters : j # k => Clusters[j] \cap Clusters[k] = {}
         /\ \A i \in 1..n : Cardinality(ClassOf(uf, n, i)) > 1 =>
               \E k \in DOMAIN Clusters : Clusters[k] = ClassOf(uf, n, i)
<1> DEFINE C(i) == ClassOf(uf, n, i)
           F == {i \in 1..n : Cardinality(C(i)) > 1 /\ \A j \in C(i) : i <= j}
           first == Ascending(F)
           K == Cardinality(F)
           list == [k \in DOMAIN first |-> C(first[k])]
<1>1. DOMAIN uf.parent = 1..n BY DEF Forests
<1>2. Clusters = list BY <1>1 DEF Clusters, ClassOf
<1>3. /\ K \in Nat /\ first \in [1..K -> F]
      /\ \A i \in F : \E k \in 1..K : first[k] = i
      /\ \A j, k \in 1..K : j # k => first[j] # first[k]
  <2>1. IsFiniteSet(1..n) BY FS_Interval
  <2>2. F \subseteq 1..n OBVIOUS
  <2>3. F \subseteq Int OBVIOUS
  <2> HIDE DEF F
  <2>4. IsFiniteSet(F) BY <2>1, <2>2, FS_Subset
  <2> QED BY <2>3, <2>4, AscendingLists
<1>4. \A i \in F : i \in 1..n /\ i \in Nat /\ Cardinality(C(i)) > 1 /\ \A j \in C(i) : i <= j
  OBVIOUS
<1>5. \A i, j, x \in 1..n : x \in C(i) /\ x \in C(j) => C(i) = C(j) BY DEF ClassOf
<1>6. \A i \in 1..n : i \in C(i) /\ C(i) \subseteq 1..n BY DEF ClassOf
<1>7. ASSUME NEW i \in 1..n, Cardinality(C(i)) > 1 PROVE \E m \in F : C(m) = C(i)
  <2>1. C(i) \in SUBSET Nat /\ C(i) # {} BY <1>6
  <2> HIDE DEF C
  <2>2. PICK m \in C(i) : \A j \in C(i) : m <= j BY <2>1, SmallestNumber
  <2>3. m \in 1..n /\ C(m) = C(i) BY <1>5, <1>6, <2>2
  <2>4. m \in F BY <1>7, <2>2, <2>3
  <2> QED BY <2>3, <2>4
<1> HIDE DEF F, C, K, first
<1>8. DOMAIN list = 1..K /\ \A k \in 1..K : list[k] = C(first[k]) /\ first[k] \in F BY <1>3
<1> HIDE DEF list
<1>9. ASSUME NEW j \in 1..K, NEW k \in 1..K, j # k PROVE list[j] \cap list[k] = {}
  <2> SUFFICES ASSUME NEW x \in list[j], x \in list[k] PROVE FALSE OBVIOUS
  <2>1. first[j] \in F /\ first[k] \in F /\ first[j] # first[k] BY <1>3, <1>8, <1>9
  <2>2. C(first[j]) = C(first[k]) BY <1>4, <1>5, <1>6, <1>8, <2>1
  <2>3. first[j] <= first[k] /\ first[k] <= first[j] BY <1>4, <1>6, <2>1, <2>2
  <2> QED BY <1>4, <2>1, <2>3
<1>10. \A k \in 1..K : Cardinality(list[k]) > 1 /\ \E i \in 1..n : list[k] = C(i) BY <1>4, <1>8
<1>11. ASSUME NEW i \in 1..n, Cardinality(C(i)) > 1 PROVE \E k \in 1..K : list[k] = C(i)
  BY <1>3, <1>7, <1>8, <1>11
<1> QED BY <1>2, <1>8, <1>9, <1>10, <1>11 DEF C

(* What the choice of a keeper looks at. *)
Weighs(S, beats) ==
  /\ IsFiniteSet(S) /\ S # {} /\ S \subseteq Int
  /\ \A x, y \in S : <<x, y>> \in beats => <<y, x>> \notin beats
  /\ \A x, y, z \in S : <<x, y>> \in beats => <<x, z>> \in beats \/ <<z, y>> \in beats

(* Records with the measures that a choice compares. *)
Ranked(S) == /\ IsFiniteSet(S) /\ S # {} /\ S \subseteq Int /\ S \subseteq DOMAIN records
             /\ \A i \in S : Size(i) \in Nat /\ Rank(i) \in Nat /\ records[i].aux \in Nat

(* Every engine weighs its groups by an order with ties. *)
LEMMA Scales ==
  ASSUME NEW S, Ranked(S)
  PROVE  Weighs(S, BetterPicture) /\ Weighs(S, BetterSong) /\ Weighs(S, Bigger)
<1>1. IsFiniteSet(S) /\ S # {} /\ S \subseteq Int /\ S \subseteq DOMAIN records
      /\ \A i \in S : Size(i) \in Nat /\ Rank(i) \in Nat
  BY DEF Ranked
<1> DEFINE D == DOMAIN records
<1>2. \A x, y \in D :
        /\ <<x, y>> \in BetterPicture <=> Rank(x) > Rank(y) \/ (Rank(x) = Rank(y) /\ Size(x) > Size(y))
        /\ <<x, y>> \in BetterSong <=> Rank(x) > Rank(y)
        /\ <<x, y>> \in Bigger <=> Size(x) > Size(y)
  BY DEF BetterPicture, BetterSong, Bigger, Pairs
<1> HIDE DEF D
<1>3. S \subseteq D BY <1>1 DEF D
<1>4. Weighs(S, BetterPicture) BY <1>1, <1>2, <1>3 DEF Weighs
<1>5. Weighs(S, BetterSong) BY <1>1, <1>2, <1>3 DEF Weighs
<1>6. Weighs(S, Bigger) BY <1>1, <1>2, <1>3 DEF Weighs
<1> QED BY <1>4, <1>5, <1>6

(* The keeper is one of those it is chosen from. *)
LEMMA KeeperOf ==
  ASSUME NEW S, NEW beats, Weighs(S, beats)
  PROVE  Best(S, beats) \in S
  BY BestIsMember DEF Weighs

(* A group with a keeper of one path. *)
Keeping(g) == /\ g.keepers \subseteq g.members
              /\ Cardinality({records[i].path : i \in g.keepers}) = 1

(* Both ways of marking a keeper give the group one path to keep. *)
LEMMA KeeperMarked ==
  ASSUME NEW S, NEW k \in S
  PROVE  /\ OfPath(S, k).members = S /\ Keeping(OfPath(S, k))
         /\ One(S, k).members = S /\ Keeping(One(S, k))
<1>1. Cardinality({records[k].path}) = 1 BY FS_Singleton
<1>2. {records[i].path : i \in OfPath(S, k).keepers} = {records[k].path} BY DEF OfPath
<1>3. {records[i].path : i \in One(S, k).keepers} = {records[k].path} BY DEF One
<1>4. OfPath(S, k).members = S /\ OfPath(S, k).keepers \subseteq S BY DEF OfPath
<1>5. One(S, k).members = S /\ One(S, k).keepers \subseteq S BY DEF One
<1> QED BY <1>1, <1>2, <1>3, <1>4, <1>5 DEF Keeping

(* What has been read is a list of measures. *)
Measured ==
  /\ \E R : records \in Seq(R)
  /\ \A i \in DOMAIN records :
        /\ IsFiniteSet(records[i].sig)
        /\ records[i].aux \in Nat /\ records[i].size \in Nat /\ records[i].rank \in Nat

(* A list of measures is numbered from one. *)
LEMMA MeasuredDomain ==
  ASSUME Measured
  PROVE  /\ Len(records) \in Nat /\ DOMAIN records = 1..Len(records)
         /\ IsFiniteSet(DOMAIN records) /\ DOMAIN records \subseteq Int
<1>1. PICK R : records \in Seq(R) BY DEF Measured
<1>2. Len(records) \in Nat /\ DOMAIN records = 1..Len(records) BY <1>1
<1>3. IsFiniteSet(1..Len(records)) BY <1>2, FS_Interval
<1> QED BY <1>2, <1>3

(* More than one record of the list can be compared. *)
LEMMA SomeRanked ==
  ASSUME Measured, NEW S, S \subseteq DOMAIN records, Cardinality(S) > 1
  PROVE  Ranked(S)
<1>1. IsFiniteSet(DOMAIN records) /\ DOMAIN records \subseteq Int BY MeasuredDomain
<1>2. IsFiniteSet(S) BY <1>1, FS_Subset
<1>3. S # {}
  <2> SUFFICES ASSUME S = {} PROVE FALSE OBVIOUS
  <2>1. Cardinality(S) = 0 BY FS_EmptySet
  <2> QED BY <2>1
<1>4. \A i \in S : Size(i) \in Nat /\ Rank(i) \in Nat /\ records[i].aux \in Nat
  BY DEF Measured, Size, Rank
<1> QED BY <1>1, <1>2, <1>3, <1>4 DEF Ranked

(* The engines with a union-find, and the pairs their comparison accepts. *)
ChainedEngines == {"image", "document", "similar_folder"}
Edges == {q \in Pairs : Alike(records[q[1]], records[q[2]])}

(* No comparison depends on which of the two comes first. *)
LEMMA EdgesSymmetric ==
  ASSUME Measured, NEW i \in DOMAIN records, NEW j \in DOMAIN records
  PROVE  <<i, j>> \in Edges => <<j, i>> \in Edges
<1> DEFINE x == records[i]
           y == records[j]
<1>1. /\ IsFiniteSet(x.sig) /\ IsFiniteSet(y.sig) /\ x.aux \in Nat /\ y.aux \in Nat BY DEF Measured
<1>2. HammingDistance(x.sig, y.sig) = HammingDistance(y.sig, x.sig) BY <1>1, Distances
<1>3. Apart(x.aux, y.aux) = Apart(y.aux, x.aux) BY <1>1 DEF Apart
<1>4. SharedEnough(x.sig, y.sig) <=> SharedEnough(y.sig, x.sig)
  <2>1. x.sig \cap y.sig = y.sig \cap x.sig /\ x.sig \cup y.sig = y.sig \cup x.sig OBVIOUS
  <2> QED BY <2>1 DEF SharedEnough
<1>5. Alike(x, y) => Alike(y, x)
  <2>1. ImagesAlike(x, y) => ImagesAlike(y, x) BY <1>2, <1>3 DEF ImagesAlike, SigsClose, TimesClose
  <2>2. DocumentsAlike(x, y) => DocumentsAlike(y, x) BY <1>2 DEF DocumentsAlike, SigsClose
  <2>3. FoldersAlike(x, y) => FoldersAlike(y, x) BY <1>4 DEF FoldersAlike
  <2> HIDE DEF x, y
  <2> QED BY <2>1, <2>2, <2>3 DEF Alike
<1> QED BY <1>5 DEF Edges, Pairs

(* What GroupsAsCompared says, of groups that need not be the state's. *)
MembersOf(gs) == {gs[n].members : n \in DOMAIN gs}

Distinct(gs) ==
  /\ \A m, n \in DOMAIN gs : m # n => gs[m].members \cap gs[n].members = {}
  /\ \A n \in DOMAIN gs : Cardinality(gs[n].members) > 1 /\ Keeping(gs[n])

ChainsOf(gs) ==
  /\ \A S \in MembersOf(gs) :
        /\ ~Meet(S, DOMAIN records \ S)
        /\ \A T \in (SUBSET S) \ {{}, S} : Meet(T, S \ T)
  /\ \A i \in DOMAIN records \ UNION MembersOf(gs) : ~Meet({i}, DOMAIN records \ {i})

(* The forest after the comparison of every record before the outer one. *)
Chained ==
  /\ uf \in Forests(Len(records))
  /\ Connected(uf, Len(records), Edges)
  /\ \A i, j \in DOMAIN records :
        i < outer /\ i < j /\ <<i, j>> \in Edges =>
           Root(uf.parent, i) = Root(uf.parent, j)

(* Once every record was the outer one, the clusters are the chains. *)
LEMMA ChainsFromClusters ==
  ASSUME Measured, Chained, outer = Len(records) + 1,
         NEW gs, DOMAIN gs = DOMAIN Clusters,
         \A k \in DOMAIN Clusters : gs[k].members = Clusters[k] /\ Keeping(gs[k])
  PROVE  Distinct(gs) /\ ChainsOf(gs)
<1> DEFINE n == Len(records)
           C(i) == ClassOf(uf, n, i)
<1>1. n \in Nat /\ DOMAIN records = 1..n BY MeasuredDomain
<1>2. uf \in Forests(n) /\ Connected(uf, n, Edges) BY DEF Chained
<1>3. /\ \A k \in DOMAIN Clusters : \E i \in 1..n : Clusters[k] = C(i)
      /\ \A k \in DOMAIN Clusters : Cardinality(Clusters[k]) > 1
      /\ \A j, k \in DOMAIN Clusters : j # k => Clusters[j] \cap Clusters[k] = {}
      /\ \A i \in 1..n : Cardinality(C(i)) > 1 => \E k \in DOMAIN Clusters : Clusters[k] = C(i)
  BY <1>1, <1>2, ClustersListed
<1>4. \A i, j \in 1..n : <<i, j>> \in Edges => C(i) = C(j)
  <2> SUFFICES ASSUME NEW i \in 1..n, NEW j \in 1..n, <<i, j>> \in Edges PROVE C(i) = C(j) OBVIOUS
  <2>1. <<j, i>> \in Edges BY <1>1, EdgesSymmetric
  <2>2. i < j => Root(uf.parent, i) = Root(uf.parent, j) BY <1>1 DEF Chained
  <2>3. j < i => Root(uf.parent, i) = Root(uf.parent, j) BY <1>1, <2>1 DEF Chained
  <2>4. i = j \/ i < j \/ j < i OBVIOUS
  <2>5. Root(uf.parent, i) = Root(uf.parent, j) BY <2>2, <2>3, <2>4
  <2> QED BY <2>5 DEF ClassOf
<1>5. \A i \in 1..n : i \in C(i) /\ C(i) \subseteq 1..n /\ \A j \in C(i) : C(j) = C(i)
  BY DEF ClassOf
<1>6. \A i \in 1..n : \A T \in SUBSET C(i) : T # {} /\ T # C(i) =>
          \E u \in T, v \in C(i) \ T : <<u, v>> \in Edges
  BY <1>2 DEF Connected
<1>7. \A i, j \in 1..n : <<i, j>> \in Edges <=> Alike(records[i], records[j])
  BY <1>1 DEF Edges, Pairs
<1> HIDE DEF n, C
<1>8. ASSUME NEW S \in MembersOf(gs)
      PROVE  ~Meet(S, DOMAIN records \ S) /\ \A T \in (SUBSET S) \ {{}, S} : Meet(T, S \ T)
  <2>1. PICK i \in 1..n : S = C(i) BY <1>3 DEF MembersOf
  <2>2. ~Meet(S, DOMAIN records \ S)
    <3> SUFFICES ASSUME NEW u \in S, NEW v \in DOMAIN records \ S,
                        Alike(records[u], records[v])
                 PROVE  FALSE
      BY DEF Meet
    <3>1. u \in 1..n /\ v \in 1..n BY <1>1, <1>5, <2>1
    <3>2. C(u) = C(v) /\ C(u) = C(i) BY <1>4, <1>5, <1>7, <2>1, <3>1
    <3> QED BY <1>5, <2>1, <3>1, <3>2
  <2>3. ASSUME NEW T \in (SUBSET S) \ {{}, S} PROVE Meet(T, S \ T)
    <3>1. PICK u \in T, v \in S \ T : <<u, v>> \in Edges BY <1>6, <2>1
    <3>2. u \in 1..n /\ v \in 1..n BY <1>5, <2>1
    <3> QED BY <1>7, <3>1, <3>2 DEF Meet
  <2> QED BY <2>2, <2>3
<1>9. ASSUME NEW i \in DOMAIN records \ UNION MembersOf(gs), Meet({i}, DOMAIN records \ {i})
      PROVE  FALSE
  <2>1. PICK j \in DOMAIN records \ {i} : Alike(records[i], records[j]) BY <1>9 DEF Meet
  <2>2. i \in C(i) /\ j \in C(i) /\ i # j BY <1>1, <1>4, <1>5, <1>7, <2>1
  <2>3. IsFiniteSet(C(i)) BY <1>1, <1>5, MeasuredDomain, FS_Subset
  <2>4. Cardinality(C(i)) > 1
    <3> DEFINE X == {i}
               Y == X \cup {j}
    <3>1. IsFiniteSet(X) /\ Cardinality(X) = 1 /\ j \notin X BY <2>2, FS_Singleton
    <3>2. Y \subseteq C(i) BY <2>2
    <3> HIDE DEF X
    <3>3. Cardinality(Y) = Cardinality(X) + 1 BY <3>1, FS_AddElement
    <3> HIDE DEF Y
    <3>4. Cardinality(Y) <= Cardinality(C(i)) /\ Cardinality(C(i)) \in Nat
      BY <2>3, <3>2, FS_Subset, FS_CardinalityType
    <3> QED BY <3>1, <3>3, <3>4
  <2>5. PICK k \in DOMAIN Clusters : Clusters[k] = C(i) BY <1>1, <1>3, <2>4
  <2>6. i \in UNION MembersOf(gs) BY <2>2, <2>5 DEF MembersOf
  <2> QED BY <2>6
<1>10. Distinct(gs) BY <1>3 DEF Distinct
<1>11. ChainsOf(gs) BY <1>8, <1>9 DEF ChainsOf
<1> QED BY <1>10, <1>11

------------------------------------------------------------------------------
(* The bursts. *)

(* Two records are opened by the same one exactly if they share a folder. *)
LEMMA Openers ==
  ASSUME Measured, NEW i \in DOMAIN records
  PROVE  /\ Opener(i) \in DOMAIN records /\ Opener(i) \in Nat
         /\ \A j \in DOMAIN records : Opener(i) = Opener(j) <=> Folder(i) = Folder(j)
<1> DEFINE D == DOMAIN records
           Opens(k, i1) == Folder(k) = Folder(i1) /\ \A l \in 1..(k - 1) : Folder(l) # Folder(i1)
<1>1. D = 1..Len(records) /\ Len(records) \in Nat BY MeasuredDomain
<1>2. ASSUME NEW j \in D PROVE Opener(j) \in D /\ Opens(Opener(j), j)
  <2> DEFINE T == {k \in D : Folder(k) = Folder(j)}
  <2>1. T \in SUBSET Nat /\ j \in T BY <1>1
  <2> HIDE DEF T
  <2>2. PICK m \in T : \A k \in T : m <= k BY <2>1, SmallestNumber
  <2>3. m \in D /\ Folder(m) = Folder(j) BY DEF T
  <2>4. ASSUME NEW l \in 1..(m - 1) PROVE Folder(l) # Folder(j)
    <3>1. l \in D /\ m \in Nat /\ l \in Nat /\ l < m BY <1>1, <2>3
    <3>2. l \notin T BY <2>2, <3>1
    <3> QED BY <3>1, <3>2 DEF T
  <2>5. Opens(m, j) BY <2>3, <2>4
  <2>6. Opener(j) = CHOOSE k \in D : Opens(k, j) BY DEF Opener
  <2> HIDE DEF Opens, D
  <2> QED BY <2>3, <2>5, <2>6
<1>3. ASSUME NEW j \in D PROVE Opener(i) = Opener(j) <=> Folder(i) = Folder(j)
  <2> DEFINE x == Opener(i)
             y == Opener(j)
  <2>1. x \in 1..Len(records) /\ y \in 1..Len(records) /\ Opens(x, i) /\ Opens(y, j) BY <1>1, <1>2
  <2> HIDE DEF x, y
  <2>2. x = y => Folder(i) = Folder(j) BY <2>1
  <2>3. ASSUME Folder(i) = Folder(j) PROVE x = y
    <3>1. ~(x < y)
      <4> SUFFICES ASSUME x < y PROVE FALSE OBVIOUS
      <4>1. x \in 1..(y - 1) BY <1>1, <2>1
      <4> QED BY <2>1, <2>3, <4>1
    <3>2. ~(y < x)
      <4> SUFFICES ASSUME y < x PROVE FALSE OBVIOUS
      <4>1. y \in 1..(x - 1) BY <1>1, <2>1
      <4> QED BY <2>1, <2>3, <4>1
    <3>3. x \in Int /\ y \in Int BY <1>1, <2>1
    <3> QED BY <3>1, <3>2, <3>3
  <2> QED BY <2>2, <2>3 DEF x, y
<1>4. Opener(i) \in D BY <1>2
<1> QED BY <1>1, <1>3, <1>4

(* When each record was taken, folder by folder. *)
TakenBefore(i, j) == Opener(i) < Opener(j) \/ (Opener(i) = Opener(j) /\ Taken(i, j))

(* Shots lists every record once, in the order they were taken. *)
LEMMA ShotsListed ==
  ASSUME Measured
  PROVE  /\ Shots \in [1..Len(records) -> DOMAIN records] /\ Len(Shots) = Len(records)
         /\ DOMAIN Shots = 1..Len(records)
         /\ \A x \in DOMAIN records : \E k \in 1..Len(records) : Shots[k] = x
         /\ \A j, k \in 1..Len(records) : j < k => TakenBefore(Shots[j], Shots[k])
<1> DEFINE D == DOMAIN records
           n == Len(records)
           R == {p \in Pairs : \/ Opener(p[1]) < Opener(p[2])
                               \/ Opener(p[1]) = Opener(p[2]) /\ Taken(p[1], p[2])}
           s == Ordered(D, R)
<1>1. n \in Nat /\ D = 1..n /\ IsFiniteSet(D) BY MeasuredDomain
<1>2. Cardinality(D) = n
  <2> HIDE DEF n, D
  <2>1. Cardinality(1..n) = IF 1 > n THEN 0 ELSE n - 1 + 1 BY <1>1, FS_Interval
  <2>2. Cardinality(1..n) = n BY <1>1, <2>1
  <2> QED BY <1>1, <2>2
<1>3. \A i, j \in D : <<i, j>> \in R <=> TakenBefore(i, j) BY DEF TakenBefore, Pairs
<1>4. Shots = s BY DEF Shots
<1>5. \A i \in D : Opener(i) \in Nat /\ records[i].aux \in Nat BY Openers DEF Measured
<1> HIDE DEF R
<1>6. TotalOrder(D, R)
  <2>1. \A i \in D : ~TakenBefore(i, i) BY <1>1, <1>5 DEF TakenBefore, Taken
  <2>2. \A i, j \in D : i # j => TakenBefore(i, j) \/ TakenBefore(j, i)
    BY <1>1, <1>5 DEF TakenBefore, Taken
  <2>3. \A i, j, k \in D : TakenBefore(i, j) /\ TakenBefore(j, k) => TakenBefore(i, k)
    BY <1>1, <1>5 DEF TakenBefore, Taken
  <2> HIDE DEF D
  <2> QED BY <1>1, <1>3, <2>1, <2>2, <2>3 DEF TotalOrder
<1> HIDE DEF D, n
<1>7. /\ s \in Seq(D) /\ Len(s) = n
      /\ \A x \in D : \E k \in 1..n : s[k] = x
      /\ \A j, k \in 1..n : j < k => <<s[j], s[k]>> \in R
  BY <1>2, <1>6, TotalOrderLists
<1> HIDE DEF s
<1>8. s \in [1..n -> D] BY <1>7
<1>9. \A j, k \in 1..n : j < k => TakenBefore(s[j], s[k]) BY <1>3, <1>7, <1>8
<1> QED BY <1>4, <1>7, <1>8, <1>9 DEF D, n

(* Between two close pictures of a folder there is no pause. *)
LEMMA NoPauseBetween ==
  ASSUME Measured, NEW m \in 1..Len(records), NEW q \in 1..Len(records),
         Folder(Shots[m]) = Folder(Shots[q]),
         records[Shots[q]].aux - records[Shots[m]].aux <= Tolerance,
         NEW l \in (m + 1)..q
  PROVE  ~Pause(l)
<1> DEFINE s == Shots
           N == 1..Len(records)
<1>1. /\ s \in [N -> DOMAIN records]
      /\ \A j, k \in N : j < k => TakenBefore(s[j], s[k])
  BY ShotsListed
<1>2. Len(records) \in Nat BY MeasuredDomain
<1>3. m \in N /\ q \in N /\ l \in N /\ l - 1 \in N /\ m <= l - 1 /\ l - 1 < l /\ l <= q /\ l > 1
      /\ m \in Nat /\ l \in Nat /\ q \in Nat
  BY <1>2
<1> DEFINE op == [k \in N |-> Opener(s[k])]
           at == [k \in N |-> records[s[k]].aux]
<1> HIDE DEF N
<1>4. \A k \in N : op[k] \in Nat /\ at[k] \in Nat BY <1>1, Openers DEF Measured
<1>5. \A j, k \in N : op[j] = op[k] <=> Folder(s[j]) = Folder(s[k]) BY <1>1, Openers
<1>6. \A j, k \in N : j < k => op[j] <= op[k] /\ (op[j] = op[k] => at[j] <= at[k])
  <2> SUFFICES ASSUME NEW j \in N, NEW k \in N, j < k
               PROVE  op[j] <= op[k] /\ (op[j] = op[k] => at[j] <= at[k])
    OBVIOUS
  <2>1. TakenBefore(s[j], s[k]) BY <1>1
  <2>2. op[j] \in Nat /\ op[k] \in Nat /\ at[j] \in Nat /\ at[k] \in Nat BY <1>4
  <2>3. op[j] < op[k] \/ (op[j] = op[k] /\ (at[j] < at[k] \/ at[j] = at[k]))
    BY <2>1 DEF TakenBefore, Taken
  <2> QED BY <2>2, <2>3
<1>7. op[m] = op[q] /\ at[q] - at[m] <= Tolerance BY <1>3, <1>5
<1>8. s[l] = Shots[l] /\ s[l - 1] = Shots[l - 1] OBVIOUS
<1>9. at[l] = records[s[l]].aux /\ at[l - 1] = records[s[l - 1]].aux BY <1>3
<1> HIDE DEF s, op, at
<1>10. op[m] <= op[l - 1] /\ op[l - 1] <= op[l] /\ op[l] <= op[q]
  <2>1. m = l - 1 \/ m < l - 1 BY <1>3
  <2>2. l = q \/ l < q BY <1>3
  <2>3. op[m] <= op[l - 1]
    <3>1. CASE m = l - 1
      <4>1. op[m] = op[l - 1] /\ op[m] \in Nat BY <1>3, <1>4, <3>1
      <4> QED BY <4>1
    <3>2. CASE m < l - 1 BY <1>3, <1>6, <3>2
    <3> QED BY <2>1, <3>1, <3>2
  <2>4. op[l - 1] <= op[l] BY <1>3, <1>6
  <2>5. op[l] <= op[q] BY <1>3, <1>4, <1>6, <2>2
  <2> QED BY <2>3, <2>4, <2>5
<1>11. op[m] = op[l - 1] /\ op[l - 1] = op[l] /\ op[l] = op[q] BY <1>3, <1>4, <1>7, <1>10
<1>12. at[m] <= at[l - 1] /\ at[l - 1] <= at[l] /\ at[l] <= at[q]
  <2>1. m = l - 1 \/ m < l - 1 BY <1>3
  <2>2. l = q \/ l < q BY <1>3
  <2> QED BY <1>3, <1>4, <1>6, <1>11, <2>1, <2>2
<1>13. at[l] - at[l - 1] <= Tolerance
  <2>1. at[m] \in Nat /\ at[l - 1] \in Nat /\ at[l] \in Nat /\ at[q] \in Nat /\ Tolerance \in Nat
    BY <1>3, <1>4, GroupingAssumption
  <2> QED BY <1>7, <1>12, <2>1
<1>14. Folder(s[l]) = Folder(s[l - 1]) BY <1>3, <1>5, <1>11
<1>15. ~(records[s[l]].aux - records[s[l - 1]].aux > Tolerance)
  <2>1. at[l - 1] \in Nat /\ at[l] \in Nat /\ Tolerance \in Nat BY <1>3, <1>4, GroupingAssumption
  <2>2. ~(at[l] - at[l - 1] > Tolerance) BY <1>13, <2>1
  <2> QED BY <1>9, <2>2
<1> QED BY <1>3, <1>8, <1>14, <1>15 DEF Pause

(* A burst has all that is close to one of its pictures. *)
LEMMA BurstWhole ==
  ASSUME Measured, NEW k \in 1..Len(records), Pause(k)
  PROVE  /\ Burst(k) \subseteq DOMAIN records
         /\ \A j \in DOMAIN records :
               (\E i \in Burst(k) : /\ Folder(i) = Folder(j)
                                    /\ Apart(records[i].aux, records[j].aux) <= Tolerance)
               => j \in Burst(k)
<1> DEFINE s == Shots
           n == Len(records)
           M == {m \in k..n : \A l \in (k + 1)..m : ~Pause(l)}
<1>1. /\ s \in [1..n -> DOMAIN records] /\ Len(s) = n
      /\ \A x \in DOMAIN records : \E m \in 1..n : s[m] = x
  BY ShotsListed
<1>2. n \in Nat /\ k \in Nat BY MeasuredDomain
<1>3. Burst(k) = {s[m] : m \in M} BY <1>1 DEF Burst
<1>4. M \subseteq 1..n BY <1>2
<1>5. \A m \in M : s[m] \in DOMAIN records BY <1>1, <1>4
<1>6. Burst(k) \subseteq DOMAIN records BY <1>3, <1>5
<1>7. ASSUME NEW j \in DOMAIN records, NEW i \in Burst(k), Folder(i) = Folder(j),
             Apart(records[i].aux, records[j].aux) <= Tolerance
      PROVE  j \in Burst(k)
  <2>1. PICK m \in M : s[m] = i BY <1>3
  <2>2. PICK q \in 1..n : s[q] = j BY <1>1
  <2>3. m \in 1..n /\ m \in Nat /\ q \in Nat /\ k <= m /\ \A l \in (k + 1)..m : ~Pause(l)
    BY <1>2, <1>4
  <2>4. i \in DOMAIN records /\ records[i].aux \in Nat /\ records[j].aux \in Nat
    BY <1>6 DEF Measured
  <2>5. /\ records[j].aux - records[i].aux <= Tolerance
        /\ records[i].aux - records[j].aux <= Tolerance
    BY <1>7, <2>4, GroupingAssumption DEF Apart
  <2>6. \A l \in (m + 1)..q : ~Pause(l) BY <1>7, <2>1, <2>2, <2>3, <2>5, NoPauseBetween
  <2>7. \A l \in (q + 1)..m : ~Pause(l) BY <1>7, <2>1, <2>2, <2>3, <2>5, NoPauseBetween
  <2>8. ~(q < k)
    <3> SUFFICES ASSUME q < k PROVE FALSE OBVIOUS
    <3>1. k \in (q + 1)..m BY <1>2, <2>3
    <3> QED BY <2>7, <3>1
  <2>9. q \in k..n BY <1>2, <2>3, <2>8
  <2>10. ASSUME NEW l \in (k + 1)..q PROVE ~Pause(l)
    <3>1. l \in (k + 1)..m \/ l \in (m + 1)..q BY <1>2, <2>3
    <3> QED BY <2>3, <2>6, <3>1
  <2>11. q \in M BY <2>9, <2>10
  <2> QED BY <1>3, <2>2, <2>11
<1> QED BY <1>6, <1>7

(* No picture is in two bursts. *)
LEMMA BurstsApart ==
  ASSUME Measured, NEW j \in 1..Len(records), NEW k \in 1..Len(records), j < k,
         Pause(j), Pause(k)
  PROVE  Burst(j) \cap Burst(k) = {}
<1> SUFFICES ASSUME NEW x \in Burst(j), x \in Burst(k) PROVE FALSE OBVIOUS
<1> DEFINE s == Shots
           n == Len(records)
<1>1. /\ s \in [1..n -> DOMAIN records] /\ Len(s) = n
      /\ \A p, q \in 1..n : p < q => TakenBefore(s[p], s[q])
  BY ShotsListed
<1>2. n \in Nat /\ j \in Nat /\ k \in Nat BY MeasuredDomain
<1>3. PICK m \in j..n : s[m] = x /\ \A l \in (j + 1)..m : ~Pause(l) BY <1>1 DEF Burst
<1>4. PICK q \in k..n : s[q] = x BY <1>1 DEF Burst
<1>5. m \in 1..n /\ q \in 1..n /\ m \in Nat /\ q \in Nat /\ j <= m /\ k <= q BY <1>2
<1>6. ~TakenBefore(x, x)
  <2>1. x \in DOMAIN records BY <1>1, <1>3, <1>5
  <2>2. records[x].aux \in Nat /\ Opener(x) \in Nat /\ x \in Int
    BY <2>1, Openers, MeasuredDomain DEF Measured
  <2> QED BY <2>2 DEF TakenBefore, Taken
<1>7. ~(m < q) /\ ~(q < m) BY <1>1, <1>3, <1>4, <1>5, <1>6
<1>8. m = q BY <1>5, <1>7
<1>9. k \in (j + 1)..m BY <1>2, <1>5, <1>8
<1> QED BY <1>3, <1>9

(* The keeper of a burst is one of it. *)
LEMMA BurstKept ==
  ASSUME Measured, NEW S, Ranked(S)
  PROVE  BurstGroup(S).members = S /\ Keeping(BurstGroup(S))
<1> DEFINE sharp == \E k \in S : Rank(k) > 0
           score == IF sharp THEN [k \in S |-> Rank(k)] ELSE [k \in S |-> Size(k)]
           beats == {p \in S \X S : \/ score[p[1]] > score[p[2]]
                                    \/ score[p[1]] = score[p[2]] /\ Taken(p[1], p[2])}
<1>1. IsFiniteSet(S) /\ S # {} /\ S \subseteq Int
      /\ \A i \in S : Size(i) \in Nat /\ Rank(i) \in Nat /\ records[i].aux \in Nat
  BY DEF Ranked
<1>2. BurstGroup(S) = One(S, Best(S, beats)) BY DEF BurstGroup
<1>3. score \in [S -> Nat] BY <1>1
<1> HIDE DEF score
<1>4. \A x, y \in S : <<x, y>> \in beats <=>
         (score[x] > score[y] \/ (score[x] = score[y] /\ Taken(x, y)))
  OBVIOUS
<1> HIDE DEF beats
<1>5. \A x, y \in S : Taken(x, y) <=>
         (records[x].aux < records[y].aux \/ (records[x].aux = records[y].aux /\ x < y))
  BY DEF Taken
<1>6. ASSUME NEW x \in S, NEW y \in S, <<x, y>> \in beats PROVE <<y, x>> \notin beats
  <2>1. /\ score[x] \in Nat /\ score[y] \in Nat /\ x \in Int /\ y \in Int
        /\ records[x].aux \in Nat /\ records[y].aux \in Nat
    BY <1>1, <1>3
  <2>2. Taken(x, y) => ~Taken(y, x) BY <1>5, <2>1
  <2>3. score[x] > score[y] \/ (score[x] = score[y] /\ Taken(x, y)) BY <1>4, <1>6
  <2>4. ~(score[y] > score[x] \/ (score[y] = score[x] /\ Taken(y, x))) BY <2>1, <2>2, <2>3
  <2> QED BY <1>4, <2>4
<1>7. ASSUME NEW x \in S, NEW y \in S, NEW z \in S, <<x, y>> \in beats
      PROVE  <<x, z>> \in beats \/ <<z, y>> \in beats
  <2>1. /\ score[x] \in Nat /\ score[y] \in Nat /\ score[z] \in Nat
        /\ x \in Int /\ y \in Int /\ z \in Int
        /\ records[x].aux \in Nat /\ records[y].aux \in Nat /\ records[z].aux \in Nat
    BY <1>1, <1>3
  <2>2. Taken(x, y) => Taken(x, z) \/ Taken(z, y) BY <1>5, <2>1
  <2>3. score[x] > score[y] \/ (score[x] = score[y] /\ Taken(x, y)) BY <1>4, <1>7
  <2>4. \/ score[x] > score[z] \/ (score[x] = score[z] /\ Taken(x, z))
        \/ score[z] > score[y] \/ (score[z] = score[y] /\ Taken(z, y))
    BY <2>1, <2>2, <2>3
  <2> QED BY <1>4, <2>4
<1>8. Weighs(S, beats) BY <1>1, <1>6, <1>7 DEF Weighs
<1>9. Best(S, beats) \in S BY <1>8, KeeperOf
<1> QED BY <1>2, <1>9, KeeperMarked

(* BurstsWhole of groups that need not be the state's. *)
BurstsOf(gs) ==
  \A S \in MembersOf(gs) : \A j \in DOMAIN records :
      LET near == {i \in S : /\ FolderOf[records[i].path] = FolderOf[records[j].path]
                             /\ Apart(records[i].aux, records[j].aux) <= Tolerance}
      IN  (j \in S) <=> (near # {})

(* Where the bursts begin that are long enough. *)
Bursts == {k \in DOMAIN Shots : /\ Pause(k)
                                /\ Cardinality(Burst(k)) >= MinBurst
                                /\ Cardinality(Burst(k)) >= 2}

(* Splitting at the pauses gives whole bursts that share no picture. *)
LEMMA BurstsFromPauses ==
  ASSUME Measured, NEW gs, DOMAIN gs = DOMAIN Ascending(Bursts),
         \A n \in DOMAIN gs : gs[n] = BurstGroup(Burst(Ascending(Bursts)[n]))
  PROVE  Distinct(gs) /\ BurstsOf(gs)
<1> DEFINE K == Cardinality(Bursts)
           f == Ascending(Bursts)
<1>1. /\ K \in Nat /\ f \in [1..K -> Bursts]
      /\ \A j, k \in 1..K : j < k => f[j] < f[k]
  <2>1. Bursts \subseteq 1..Len(records) BY ShotsListed DEF Bursts
  <2>2. IsFiniteSet(1..Len(records)) /\ 1..Len(records) \subseteq Int BY MeasuredDomain
  <2>3. IsFiniteSet(Bursts) /\ Bursts \subseteq Int BY <2>1, <2>2, FS_Subset
  <2> QED BY <2>3, AscendingLists
<1>2. ASSUME NEW k \in Bursts
      PROVE  /\ k \in 1..Len(records) /\ Pause(k)
             /\ Cardinality(Burst(k)) > 1 /\ Burst(k) \subseteq DOMAIN records
             /\ BurstGroup(Burst(k)).members = Burst(k) /\ Keeping(BurstGroup(Burst(k)))
  <2>1. k \in 1..Len(records) /\ Pause(k) /\ Cardinality(Burst(k)) >= 2 BY ShotsListed DEF Bursts
  <2>2. Burst(k) \subseteq DOMAIN records BY <2>1, BurstWhole
  <2>3. Cardinality(Burst(k)) > 1
    <3>1. IsFiniteSet(Burst(k)) BY <2>2, MeasuredDomain, FS_Subset
    <3>2. Cardinality(Burst(k)) \in Nat BY <3>1, FS_CardinalityType
    <3> QED BY <2>1, <3>2
  <2>4. Ranked(Burst(k)) BY <2>2, <2>3, SomeRanked
  <2> QED BY <2>1, <2>2, <2>3, <2>4, BurstKept
<1> HIDE DEF f, K
<1>3. DOMAIN gs = 1..K /\ \A n \in 1..K : f[n] \in Bursts /\ gs[n] = BurstGroup(Burst(f[n]))
  BY <1>1 DEF f
<1>4. ASSUME NEW m \in 1..K, NEW n \in 1..K, m < n PROVE gs[m].members \cap gs[n].members = {}
  <2>1. f[m] < f[n] /\ f[m] \in Bursts /\ f[n] \in Bursts BY <1>1, <1>3, <1>4
  <2>2. Burst(f[m]) \cap Burst(f[n]) = {} BY <1>2, <2>1, BurstsApart
  <2> QED BY <1>2, <1>3, <2>1, <2>2
<1>5. ASSUME NEW m \in 1..K, NEW n \in 1..K, m # n PROVE gs[m].members \cap gs[n].members = {}
  <2>1. m < n \/ n < m BY <1>1, <1>5
  <2> QED BY <1>4, <2>1
<1>6. \A n \in 1..K : Cardinality(gs[n].members) > 1 /\ Keeping(gs[n]) BY <1>2, <1>3
<1>7. Distinct(gs) BY <1>3, <1>5, <1>6 DEF Distinct
<1>8. BurstsOf(gs)
  <2> SUFFICES ASSUME NEW n \in 1..K, NEW j \in DOMAIN records
               PROVE  LET S == gs[n].members
                          near == {i \in S :
                                     /\ FolderOf[records[i].path] = FolderOf[records[j].path]
                                     /\ Apart(records[i].aux, records[j].aux) <= Tolerance}
                      IN  (j \in S) <=> (near # {})
    BY <1>3 DEF BurstsOf, MembersOf
  <2> DEFINE S == gs[n].members
             k == f[n]
  <2>1. k \in Bursts /\ S = Burst(k) BY <1>2, <1>3
  <2>2. Apart(records[j].aux, records[j].aux) <= Tolerance
    <3>1. records[j].aux \in Nat /\ Tolerance \in Nat BY GroupingAssumption DEF Measured
    <3> QED BY <3>1 DEF Apart
  <2>3. \A i \in S : /\ FolderOf[records[i].path] = FolderOf[records[j].path]
                     /\ Apart(records[i].aux, records[j].aux) <= Tolerance
                     => j \in S
    BY <1>2, <2>1, BurstWhole DEF Folder
  <2> HIDE DEF S
  <2> QED BY <2>2, <2>3 DEF S
<1> QED BY <1>7, <1>8

------------------------------------------------------------------------------
(* The steps of the grouping engines. *)

(* The engines that take what is free. *)
GreedyEngines == {"video", "music"}

(* The groups a greedy pass has made so far. *)
Greedy ==
  /\ \E R : groups \in Seq(R)
  /\ grouped \subseteq DOMAIN records
  /\ \A n \in DOMAIN groups : /\ groups[n].members \subseteq grouped
                              /\ Cardinality(groups[n].members) > 1
  /\ \A m, n \in DOMAIN groups : m # n => groups[m].members \cap groups[n].members = {}

(* Where the scan is: what each phase may rely on. *)
GroupingControl ==
  /\ phase \in {"idle", "read", "compare", "build", "done"}
  /\ phase # "idle" => engine \in ChainedEngines \cup GreedyEngines \cup {"burst"}
  /\ phase \in {"idle", "read"} => outer = 1 /\ grouped = {} /\ groups = <<>>
  /\ phase = "compare" => outer \in DOMAIN records /\ engine # "burst"
  /\ phase = "build" /\ engine # "burst" => outer = Len(records) + 1

(* The inductive invariant of the grouping engines. *)
GroupingInvariant ==
  /\ GroupingControl
  /\ Measured
  /\ engine \in ChainedEngines /\ phase \in {"compare", "build"} => Chained
  /\ engine = "image" /\ phase = "compare" => TreeOf(tree, records, Len(records))
  /\ engine \in GreedyEngines /\ phase \in {"compare", "build"} => Greedy
  /\ GroupsAsCompared

(* The groups of a finished scan, as a later one of the same records. *)
LEMMA DoneGroups ==
  ASSUME GroupingControl, Measured, UNCHANGED <<records, engine>>, phase' = "done",
         engine \in ChainedEngines \cup GreedyEngines \cup {"burst"},
         Distinct(groups'),
         engine \in ChainedEngines => ChainsOf(groups'),
         engine = "burst" => BurstsOf(groups')
  PROVE  GroupsAsCompared'
<1>1. records' = records /\ engine' = engine OBVIOUS
<1>2. Members' = MembersOf(groups') BY DEF Members, MembersOf
<1>3. ASSUME NEW S, NEW T PROVE Meet(S, T)' <=> Meet(S, T)
  BY <1>1 DEF Meet, Alike, ImagesAlike, DocumentsAlike, FoldersAlike, SigsClose, TimesClose,
              HammingDistance, Apart, SharedEnough
<1>4. ChainsGrouped' BY <1>1, <1>2, <1>3 DEF ChainsGrouped, ChainsOf, ChainedEngines
<1>5. BurstsWhole' BY <1>1, <1>2 DEF BurstsWhole, BurstsOf, Apart
<1> DEFINE Fine(gs, rs) ==
             /\ \A m, n \in DOMAIN gs : m # n => gs[m].members \cap gs[n].members = {}
             /\ \A n \in DOMAIN gs :
                   /\ Cardinality(gs[n].members) > 1
                   /\ gs[n].keepers \subseteq gs[n].members
                   /\ Cardinality({rs[i].path : i \in gs[n].keepers}) = 1
<1>6. Fine(groups', records) BY DEF Distinct, Keeping
<1> HIDE DEF Fine
<1>7. Fine(groups', records') BY <1>1, <1>6
<1> QED BY <1>4, <1>5, <1>7 DEF GroupsAsCompared, Fine

(* Before the first scan there is nothing that could be wrong. *)
LEMMA GroupingStart == GroupingInit => GroupingInvariant
<1> SUFFICES ASSUME GroupingInit PROVE GroupingInvariant OBVIOUS
<1>1. /\ phase = "idle" /\ outer = 1 /\ grouped = {} /\ groups = <<>> /\ records = <<>>
  BY DEF GroupingInit
<1>2. Measured BY <1>1 DEF Measured
<1>3. GroupingControl BY <1>1 DEF GroupingControl
<1> QED BY <1>1, <1>2, <1>3 DEF GroupingInvariant, GroupsAsCompared

(* Finding the files. *)
LEMMA FindingKeeps ==
  ASSUME GroupingInvariant, NEW e, NEW ps, Scan(e, ps),
         e \in ChainedEngines \cup GreedyEngines \cup {"burst"}
  PROVE  GroupingInvariant'
<1>1. /\ phase = "idle" /\ phase' = "read" /\ engine' = e
      /\ UNCHANGED <<records, tree, uf, outer, grouped, groups>>
  BY DEF Scan
<1>2. Measured' BY <1>1 DEF Measured, GroupingInvariant
<1>3. GroupingControl' BY <1>1 DEF GroupingControl, GroupingInvariant
<1> QED BY <1>1, <1>2, <1>3 DEF GroupingInvariant, GroupsAsCompared

(* Reading: one more measure, the same list, or a measure repeated. *)
LEMMA ReadingKeeps ==
  ASSUME GroupingInvariant, phase = "read", Measured',
         UNCHANGED <<engine, tree, uf, outer, grouped, groups, phase>>
  PROVE  GroupingInvariant'
<1>1. GroupingControl' BY DEF GroupingControl, GroupingInvariant
<1> QED BY <1>1 DEF GroupingInvariant, GroupsAsCompared

(* A measure more leaves a list of measures. *)
LEMMA AppendMeasured ==
  ASSUME Measured, NEW r, records' = Append(records, r),
         IsFiniteSet(r.sig), r.aux \in Nat, r.size \in Nat, r.rank \in Nat
  PROVE  Measured'
<1>1. PICK R : records \in Seq(R) BY DEF Measured
<1>2. records' \in Seq(R \cup {r})
  <2>1. records \in Seq(R \cup {r}) BY <1>1
  <2> QED BY <2>1
<1>3. \A i \in DOMAIN records' : records'[i] = r \/ (i \in DOMAIN records /\ records'[i] = records[i])
  BY <1>1
<1> QED BY <1>2, <1>3 DEF Measured

(* Reading a file, reading it again, and leaving it out. *)
LEMMA MeasureKeeps ==
  ASSUME GroupingInvariant, Measure \/ MeasureAgain \/ Skip
  PROVE  GroupingInvariant'
<1>1. Measured /\ phase = "read" BY DEF GroupingInvariant, Measure, MeasureAgain, Skip
<1>2. CASE Measure
  <2>1. PICK c \in Contents : records' = Append(records, ReadOf(Head(todo), c)) BY <1>2 DEF Measure
  <2> DEFINE r == ReadOf(Head(todo), c)
  <2>2. IsFiniteSet(r.sig) /\ r.aux \in Nat /\ r.size \in Nat /\ r.rank \in Nat
    BY GroupingAssumption DEF ReadOf
  <2> HIDE DEF r
  <2>3. Measured' BY <1>1, <2>1, <2>2, AppendMeasured DEF r
  <2> QED BY <1>1, <1>2, <2>3, ReadingKeeps DEF Measure
<1>3. CASE MeasureAgain
  <2>1. PICK i \in DOMAIN records :
           records' = IF engine \in ByPath THEN records ELSE Append(records, records[i])
    BY <1>3 DEF MeasureAgain
  <2>2. Measured'
    <3>1. CASE records' = records BY <1>1, <3>1 DEF Measured
    <3>2. CASE records' = Append(records, records[i])
      <4>1. /\ IsFiniteSet(records[i].sig)
            /\ records[i].aux \in Nat /\ records[i].size \in Nat /\ records[i].rank \in Nat
        BY <1>1 DEF Measured
      <4> QED BY <1>1, <3>2, <4>1, AppendMeasured
    <3> QED BY <2>1, <3>1, <3>2
  <2> QED BY <1>1, <1>3, <2>2, ReadingKeeps DEF MeasureAgain
<1>4. CASE Skip
  <2>1. Measured' BY <1>1, <1>4 DEF Skip, Measured
  <2> QED BY <1>1, <1>4, <2>1, ReadingKeeps DEF Skip
<1> QED BY <1>2, <1>3, <1>4

(* Before the comparison every file is a class of its own. *)
LEMMA DiscreteChained ==
  ASSUME NEW n \in Nat, NEW E
  PROVE  Discrete(n) \in Forests(n) /\ Connected(Discrete(n), n, E)
<1> DEFINE f == Discrete(n)
<1>1. f \in Forests(n) /\ \A i \in 1..n : f.parent[i] = i BY DEF Discrete, Forests
<1>2. ASSUME NEW i \in 1..n PROVE Root(f.parent, i) = i
  <2>1. Root(f.parent, i) = IF f.parent[i] = i THEN i ELSE Root(f.parent, f.parent[i])
    BY <1>1, RootIsTop
  <2> QED BY <1>1, <2>1
<1> HIDE DEF f
<1>3. \A i \in 1..n : ClassOf(f, n, i) = {i} BY <1>2 DEF ClassOf
<1>4. Connected(f, n, E)
  <2> SUFFICES ASSUME NEW i \in 1..n, NEW T \in SUBSET ClassOf(f, n, i), T # {}, T # ClassOf(f, n, i)
               PROVE  FALSE
    BY DEF Connected
  <2> QED BY <1>3
<1> QED BY <1>1, <1>4 DEF f

(* The start of the comparison: every file a class, every hash in the tree. *)
LEMMA PrepareKeeps ==
  ASSUME GroupingInvariant, Prepare
  PROVE  GroupingInvariant'
<1>1. /\ phase = "read" /\ UNCHANGED <<engine, todo, records, outer, grouped, groups>>
      /\ phase' = IF records = <<>> THEN "done"
                  ELSE IF engine = "burst" THEN "build" ELSE "compare"
      /\ tree' = IF engine = "image" /\ records # <<>> THEN Plant(records) ELSE tree
      /\ uf' = IF engine \in {"image", "document", "similar_folder"}
               THEN Discrete(Len(records)) ELSE uf
  BY DEF Prepare
<1>2. Measured /\ GroupingControl /\ outer = 1 /\ grouped = {} /\ groups = <<>>
      /\ engine \in ChainedEngines \cup GreedyEngines \cup {"burst"}
  BY <1>1 DEF GroupingInvariant, GroupingControl
<1>3. Len(records) \in Nat /\ DOMAIN records = 1..Len(records) BY <1>2, MeasuredDomain
<1>4. records # <<>> => Len(records) # 0
  <2>1. PICK R : records \in Seq(R) BY <1>2 DEF Measured
  <2> QED BY <2>1
<1>5. Measured' BY <1>1, <1>2 DEF Measured
<1>6. GroupingControl' BY <1>1, <1>2, <1>3, <1>4 DEF GroupingControl, ChainedEngines, GreedyEngines
<1>7. engine \in ChainedEngines => Chained'
  <2> SUFFICES ASSUME engine \in ChainedEngines PROVE Chained' OBVIOUS
  <2>1. uf' = Discrete(Len(records)) BY <1>1 DEF ChainedEngines
  <2>2. uf' \in Forests(Len(records)) /\ Connected(uf', Len(records), Edges')
    BY <1>3, <2>1, DiscreteChained
  <2>3. \A i, j \in DOMAIN records' : ~(i < outer' /\ i < j) BY <1>1, <1>2, <1>3
  <2> QED BY <1>1, <2>2, <2>3 DEF Chained
<1>8. (engine = "image" /\ phase' = "compare") => TreeOf(tree', records', Len(records'))
  <2> SUFFICES ASSUME engine = "image", phase' = "compare" PROVE TreeOf(tree', records', Len(records'))
    OBVIOUS
  <2>1. records # <<>> /\ tree' = Plant(records) /\ Len(records) \in Nat \ {0} BY <1>1, <1>3, <1>4
  <2> QED BY <1>1, <2>1, PlantRight
<1>9. Greedy' BY <1>1, <1>2 DEF Greedy
<1>10. GroupsAsCompared'
  <2> SUFFICES ASSUME records = <<>>, phase' = "done" PROVE GroupsAsCompared'
    BY <1>1 DEF GroupsAsCompared
  <2>1. groups' = <<>> /\ records' = <<>> BY <1>1, <1>2
  <2>2. Members' = {} BY <2>1 DEF Members
  <2>3. ChainsGrouped' /\ BurstsWhole' BY <2>1, <2>2 DEF ChainsGrouped, BurstsWhole
  <2> QED BY <2>1, <2>3 DEF GroupsAsCompared
<1> QED BY <1>1, <1>5, <1>6, <1>7, <1>8, <1>9, <1>10 DEF GroupingInvariant

(* Going on to the next record. *)
LEMMA AdvanceControls ==
  ASSUME GroupingInvariant, phase = "compare", Advance
  PROVE  /\ GroupingControl' /\ Measured' /\ GroupsAsCompared'
         /\ phase' \in {"compare", "build"} /\ outer' = outer + 1
         /\ outer \in 1..Len(records) /\ Len(records) \in Nat
         /\ (engine = "image" => TreeOf(tree', records', Len(records')))
         /\ records' = records /\ engine' = engine
<1>1. GroupingControl /\ Measured /\ outer \in DOMAIN records /\ engine # "burst"
  BY DEF GroupingInvariant, GroupingControl
<1>2. Len(records) \in Nat /\ DOMAIN records = 1..Len(records) BY <1>1, MeasuredDomain
<1>3. /\ UNCHANGED <<engine, todo, records, tree>> /\ outer' = outer + 1
      /\ phase' = IF outer = Len(records) THEN "build" ELSE phase
  BY DEF Advance
<1>4. GroupingControl'
  <2>1. phase' = "compare" => outer' \in DOMAIN records' BY <1>1, <1>2, <1>3
  <2>2. phase' = "build" => outer' = Len(records') + 1 BY <1>3
  <2>3. phase' \in {"compare", "build"} BY <1>3
  <2> QED BY <1>1, <1>3, <2>1, <2>2, <2>3 DEF GroupingControl
<1>5. Measured' BY <1>1, <1>3 DEF Measured
<1>6. GroupsAsCompared' BY <1>3 DEF GroupsAsCompared
<1>7. engine = "image" => TreeOf(tree', records', Len(records')) BY <1>3 DEF GroupingInvariant
<1> QED BY <1>1, <1>2, <1>3, <1>4, <1>5, <1>6, <1>7

(* Joining the outer record with the later ones it is alike. *)
LEMMA JoinsKeep ==
  ASSUME GroupingInvariant, phase = "compare", engine \in ChainedEngines,
         Advance, uf' = JoinedAll(uf, outer, {j \in Later : <<outer, j>> \in Edges})
  PROVE  GroupingInvariant'
<1> DEFINE n == Len(records)
           js == {j \in Later : <<outer, j>> \in Edges}
<1>1. /\ GroupingControl' /\ Measured' /\ GroupsAsCompared'
      /\ phase' \in {"compare", "build"} /\ outer' = outer + 1
      /\ outer \in 1..n /\ n \in Nat
      /\ (engine = "image" => TreeOf(tree', records', Len(records')))
      /\ records' = records /\ engine' = engine
  BY AdvanceControls
<1>2. Chained /\ Measured BY DEF GroupingInvariant
<1>3. DOMAIN records = 1..n BY <1>2, MeasuredDomain
<1>4. Edges' = Edges
  <2>1. \A i, j \in DOMAIN records : Alike(records[i], records[j])' <=> Alike(records[i], records[j])
    BY <1>1 DEF Alike
  <2> QED BY <1>1, <2>1 DEF Edges, Pairs
<1>5. js \in SUBSET (1..n) /\ \A j \in js : <<outer, j>> \in Edges /\ <<j, outer>> \in Edges
  <2>1. js \subseteq 1..n BY <1>1 DEF Later
  <2>2. \A j \in js : <<outer, j>> \in Edges OBVIOUS
  <2>3. \A j \in js : <<j, outer>> \in Edges BY <1>1, <1>2, <1>3, <2>1, <2>2, EdgesSymmetric
  <2> HIDE DEF js
  <2> QED BY <2>1, <2>2, <2>3
<1>6. uf' = JoinedAll(uf, outer, js) OBVIOUS
<1>7. \A j \in 1..n : outer < j /\ <<outer, j>> \in Edges => j \in js BY <1>1 DEF Later
<1> HIDE DEF js
<1>8. /\ uf' \in Forests(n) /\ Connected(uf', n, Edges)
      /\ \A y \in js : Root(uf'.parent, outer) = Root(uf'.parent, y)
      /\ \A z, w \in 1..n : Root(uf.parent, z) = Root(uf.parent, w) =>
            Root(uf'.parent, z) = Root(uf'.parent, w)
  <2> DEFINE E == Edges
             J == JoinedAll(uf, outer, js)
  <2>1. Len(records) \in Nat /\ uf \in Forests(Len(records)) /\ Connected(uf, Len(records), E)
        /\ outer \in 1..Len(records) /\ js \in SUBSET (1..Len(records))
        /\ \A y \in js : <<outer, y>> \in E /\ <<y, outer>> \in E
    BY <1>1, <1>2, <1>5 DEF Chained
  <2> HIDE DEF E
  <2>2. /\ J \in Forests(Len(records)) /\ Connected(J, Len(records), E)
        /\ \A y \in js : Root(J.parent, outer) = Root(J.parent, y)
        /\ \A z, w \in 1..Len(records) : Root(uf.parent, z) = Root(uf.parent, w) =>
              Root(J.parent, z) = Root(J.parent, w)
    BY <2>1, JoinedAllWhole
  <2> HIDE DEF J
  <2>3. uf' = J BY <1>6 DEF J
  <2> QED BY <2>2, <2>3 DEF E
<1>9. ASSUME NEW i \in 1..n, NEW j \in 1..n, i < outer + 1, i < j, <<i, j>> \in Edges
      PROVE  Root(uf'.parent, i) = Root(uf'.parent, j)
  <2>1. CASE i = outer BY <1>7, <1>8, <1>9, <2>1
  <2>2. CASE i # outer
    <3>1. i < outer BY <1>1, <1>9, <2>2
    <3>2. Root(uf.parent, i) = Root(uf.parent, j) BY <1>2, <1>3, <1>9, <3>1 DEF Chained
    <3> QED BY <1>8, <3>2
  <2> QED BY <2>1, <2>2
<1>10. Chained' BY <1>1, <1>3, <1>4, <1>8, <1>9 DEF Chained
<1>11. engine' \notin GreedyEngines BY <1>1 DEF ChainedEngines, GreedyEngines
<1> QED BY <1>1, <1>10, <1>11 DEF GroupingInvariant

(* The tree search, like the plain comparison, joins all that are alike. *)
LEMMA ChainedCompareKeeps ==
  ASSUME GroupingInvariant, CompareImages \/ CompareDocuments \/ CompareFolders
  PROVE  GroupingInvariant'
<1>0. phase = "compare" /\ Advance /\ engine \in ChainedEngines
  BY DEF CompareImages, CompareDocuments, CompareFolders, JoinLater, ChainedEngines
<1>1. /\ Measured /\ outer \in 1..Len(records) /\ Len(records) \in Nat
      /\ DOMAIN records = 1..Len(records)
  BY <1>0, AdvanceControls, MeasuredDomain DEF GroupingInvariant
<1>2. Later \subseteq 1..Len(records) BY <1>1 DEF Later
<1>3. \A j \in Later : <<outer, j>> \in Edges <=> Alike(records[outer], records[j])
  BY <1>1, <1>2 DEF Edges, Pairs
<1>4. CASE CompareDocuments
  <2>1. engine = "document" /\ uf' = JoinedAll(uf, outer, {j \in Later : DocumentsAlike(records[outer], records[j])})
    BY <1>4 DEF CompareDocuments, JoinLater
  <2>2. {j \in Later : DocumentsAlike(records[outer], records[j])} = {j \in Later : <<outer, j>> \in Edges}
    BY <1>3, <2>1 DEF Alike
  <2> QED BY <1>0, <2>1, <2>2, JoinsKeep
<1>5. CASE CompareFolders
  <2>1. engine = "similar_folder" /\ uf' = JoinedAll(uf, outer, {j \in Later : FoldersAlike(records[outer], records[j])})
    BY <1>5 DEF CompareFolders, JoinLater
  <2>2. {j \in Later : FoldersAlike(records[outer], records[j])} = {j \in Later : <<outer, j>> \in Edges}
    BY <1>3, <2>1 DEF Alike
  <2> QED BY <1>0, <2>1, <2>2, JoinsKeep
<1>6. CASE CompareImages
  <2> DEFINE near == Query(tree, records[1].sig, records[outer].sig)
             n == Len(records)
             v == records[outer].sig
  <2>1. engine = "image"
        /\ uf' = JoinedAll(uf, outer, {j \in near \cap Later : TimesClose(records[outer], records[j])})
    BY <1>6 DEF CompareImages
  <2>2. TreeOf(tree, records, n) BY <1>0, <2>1 DEF GroupingInvariant
  <2>3. \A i \in 1..n : IsFiniteSet(records[i].sig) BY <1>1 DEF Measured
  <2>4. IsFiniteSet(v) /\ 1 \in 1..n BY <1>1, <2>3
  <2>5. near = {i \in 1..n : HammingDistance(v, records[i].sig) <= Radius}
    BY <1>1, <2>2, <2>3, <2>4, QueryFinds
  <2>6. {j \in near \cap Later : TimesClose(records[outer], records[j])}
          = {j \in Later : <<outer, j>> \in Edges}
    <3>1. \A j \in Later : j \in near <=> SigsClose(records[outer], records[j])
      BY <1>2, <2>5 DEF SigsClose
    <3>2. \A j \in Later : <<outer, j>> \in Edges <=>
             (SigsClose(records[outer], records[j]) /\ TimesClose(records[outer], records[j]))
      BY <1>3, <2>1 DEF Alike, ImagesAlike
    <3> HIDE DEF near
    <3> QED BY <3>1, <3>2
  <2> QED BY <1>0, <2>1, <2>6, JoinsKeep
<1> QED BY <1>4, <1>5, <1>6

(* A greedy group takes files no earlier group has. *)
LEMMA TakeLaterKeeps ==
  ASSUME GroupingInvariant, NEW js, js \subseteq Later, engine \in GreedyEngines, TakeLater(js)
  PROVE  GroupingInvariant'
<1> DEFINE free == js \ grouped
           new == [members |-> free \cup {outer}, keepers |-> {}]
<1>0. phase = "compare" /\ Advance
      /\ (outer \in grouped \/ free = {} => UNCHANGED <<grouped, groups>>)
      /\ (~(outer \in grouped \/ free = {}) =>
            /\ grouped' = grouped \cup free \cup {outer}
            /\ groups' = Append(groups, new))
  BY DEF TakeLater
<1>1. /\ GroupingControl' /\ Measured' /\ GroupsAsCompared'
      /\ phase' \in {"compare", "build"} /\ outer \in 1..Len(records) /\ Len(records) \in Nat
      /\ records' = records /\ engine' = engine
  BY <1>0, AdvanceControls
<1>2. Greedy /\ Measured /\ DOMAIN records = 1..Len(records)
  BY <1>0, MeasuredDomain DEF GroupingInvariant
<1>3. free \subseteq DOMAIN records /\ outer \in DOMAIN records /\ outer \notin free
  <2>1. \A j \in Later : j \in 1..Len(records) /\ j # outer BY <1>1 DEF Later
  <2>2. outer \in DOMAIN records BY <1>1, <1>2
  <2> QED BY <1>2, <2>1, <2>2
<1>4. Greedy'
  <2>1. CASE outer \in grouped \/ free = {} BY <1>0, <1>1, <1>2, <2>1 DEF Greedy
  <2>2. CASE ~(outer \in grouped \/ free = {})
    <3>1. grouped' = grouped \cup free \cup {outer} /\ groups' = Append(groups, new) BY <1>0, <2>2
    <3>2. Cardinality(new.members) > 1
      <4>1. PICK x \in free : TRUE BY <2>2
      <4> DEFINE X == {x}
                 Y == X \cup {outer}
      <4>2. IsFiniteSet(X) /\ Cardinality(X) = 1 /\ outer \notin X BY <1>3, <4>1, FS_Singleton
      <4>3. Y \subseteq new.members /\ new.members \subseteq DOMAIN records BY <1>3, <4>1
      <4>4. IsFiniteSet(new.members) BY <1>2, <4>3, MeasuredDomain, FS_Subset
      <4> HIDE DEF X, new
      <4>5. Cardinality(Y) = Cardinality(X) + 1 BY <4>2, FS_AddElement
      <4> HIDE DEF Y
      <4>6. Cardinality(Y) <= Cardinality(new.members) /\ Cardinality(new.members) \in Nat
        BY <4>3, <4>4, FS_Subset, FS_CardinalityType
      <4> QED BY <4>2, <4>5, <4>6
    <3>3. new.members \subseteq grouped' /\ new.members \cap grouped = {} BY <2>2, <3>1
    <3>4. PICK R : groups \in Seq(R) BY <1>2 DEF Greedy
    <3> HIDE DEF new, free
    <3>5. groups' \in Seq(R \cup {new})
      <4>1. groups \in Seq(R \cup {new}) BY <3>4
      <4> QED BY <3>1, <4>1
    <3>6. /\ DOMAIN groups = 1..Len(groups) /\ Len(groups) \in Nat
          /\ DOMAIN groups' = 1..(Len(groups) + 1)
          /\ \A n \in DOMAIN groups : groups'[n] = groups[n]
          /\ groups'[Len(groups) + 1] = new
      BY <3>1, <3>4
    <3>7. \A n \in DOMAIN groups' : n \in DOMAIN groups \/ n = Len(groups) + 1 BY <3>6
    <3>8. grouped \subseteq grouped' /\ grouped' \subseteq DOMAIN records'
      BY <1>1, <1>2, <1>3, <3>1 DEF Greedy
    <3>9. \A n \in DOMAIN groups : /\ groups[n].members \subseteq grouped
                                   /\ Cardinality(groups[n].members) > 1
      BY <1>2 DEF Greedy
    <3>10. \A n \in DOMAIN groups' : /\ groups'[n].members \subseteq grouped'
                                     /\ Cardinality(groups'[n].members) > 1
      BY <3>2, <3>3, <3>6, <3>7, <3>8, <3>9
    <3>11. \A m, n \in DOMAIN groups : m # n => groups[m].members \cap groups[n].members = {}
      BY <1>2 DEF Greedy
    <3>12. ASSUME NEW m \in DOMAIN groups', NEW n \in DOMAIN groups', m # n
           PROVE  groups'[m].members \cap groups'[n].members = {}
      <4>1. CASE m \in DOMAIN groups /\ n \in DOMAIN groups BY <3>6, <3>11, <3>12, <4>1
      <4>2. CASE m \notin DOMAIN groups
        <5>1. m = Len(groups) + 1 /\ n \in DOMAIN groups BY <3>7, <3>12, <4>2
        <5> QED BY <3>3, <3>6, <3>9, <5>1
      <4>3. CASE n \notin DOMAIN groups
        <5>1. n = Len(groups) + 1 /\ m \in DOMAIN groups BY <3>7, <3>12, <4>3
        <5> QED BY <3>3, <3>6, <3>9, <5>1
      <4> QED BY <4>1, <4>2, <4>3
    <3> QED BY <3>5, <3>8, <3>10, <3>12 DEF Greedy
  <2> QED BY <2>1, <2>2
<1>5. engine' \notin ChainedEngines /\ engine' # "image" BY <1>1 DEF ChainedEngines, GreedyEngines
<1> QED BY <1>1, <1>4, <1>5 DEF GroupingInvariant

(* The end of a scan: what the groups are is all that is left to say. *)
LEMMA FinishKeeps ==
  ASSUME GroupingInvariant, phase = "build", Finish, GroupsAsCompared'
  PROVE  GroupingInvariant'
<1>1. phase' = "done" /\ records' = records /\ engine' = engine /\ GroupingControl /\ Measured
  BY DEF Finish, GroupingInvariant
<1>2. GroupingControl' /\ Measured' BY <1>1 DEF GroupingControl, Measured
<1> QED BY <1>1, <1>2 DEF GroupingInvariant

(* Groups made of the clusters, each with a keeper of one path. *)
LEMMA ClustersKeep ==
  ASSUME GroupingInvariant, engine \in ChainedEngines, NEW made, GroupClusters(made),
         \A S \in ToSet(Clusters) : made[S].members = S /\ Keeping(made[S])
  PROVE  GroupingInvariant'
<1>1. /\ phase = "build" /\ Finish /\ groups' = [n \in DOMAIN Clusters |-> made[Clusters[n]]]
  BY DEF GroupClusters
<1>2. /\ GroupingControl /\ Measured /\ Chained /\ outer = Len(records) + 1
  BY <1>1 DEF GroupingInvariant, GroupingControl, ChainedEngines
<1>3. /\ DOMAIN groups' = DOMAIN Clusters
      /\ \A k \in DOMAIN Clusters : groups'[k].members = Clusters[k] /\ Keeping(groups'[k])
  BY <1>1 DEF ToSet
<1>4. Distinct(groups') /\ ChainsOf(groups') BY <1>2, <1>3, ChainsFromClusters
<1>5. engine # "burst" BY DEF ChainedEngines
<1>6. GroupsAsCompared' BY <1>1, <1>2, <1>4, <1>5, DoneGroups DEF Finish
<1> QED BY <1>1, <1>6, FinishKeeps

(* A cluster can be compared. *)
LEMMA ClusterRanked ==
  ASSUME Measured, uf \in Forests(Len(records)), NEW S \in ToSet(Clusters)
  PROVE  Ranked(S)
<1>1. Len(records) \in Nat /\ DOMAIN records = 1..Len(records) BY MeasuredDomain
<1>2. PICK k \in DOMAIN Clusters : S = Clusters[k] BY DEF ToSet
<1>3. Cardinality(S) > 1 /\ \E i \in 1..Len(records) : S = ClassOf(uf, Len(records), i)
  BY <1>1, <1>2, ClustersListed
<1>4. S \subseteq DOMAIN records BY <1>1, <1>3 DEF ClassOf
<1> QED BY <1>3, <1>4, SomeRanked

(* The groups of the photo, document and similar-folder engines. *)
LEMMA ChainedGroupsKeep ==
  ASSUME GroupingInvariant, GroupImages \/ GroupDocuments \/ GroupFolders
  PROVE  GroupingInvariant'
<1>1. engine \in ChainedEngines /\ phase = "build"
  BY DEF GroupImages, GroupDocuments, GroupFolders, GroupClusters, ChainedEngines
<1>2. Measured /\ uf \in Forests(Len(records)) BY <1>1 DEF GroupingInvariant, Chained
<1>3. \A S \in ToSet(Clusters) : Ranked(S) BY <1>2, ClusterRanked
<1>4. \A S \in ToSet(Clusters) :
        Weighs(S, BetterPicture) /\ Weighs(S, BetterSong) /\ Weighs(S, Bigger)
  BY <1>3, Scales
<1>5. \A S \in ToSet(Clusters) : Best(S, BetterPicture) \in S /\ Best(S, Bigger) \in S
  BY <1>4, KeeperOf
<1>6. CASE GroupImages
  <2> DEFINE made == [S \in ToSet(Clusters) |-> OfPath(S, Best(S, BetterPicture))]
  <2>1. GroupClusters(made) BY <1>6 DEF GroupImages
  <2>2. \A S \in ToSet(Clusters) : made[S].members = S /\ Keeping(made[S]) BY <1>5, KeeperMarked
  <2> HIDE DEF made
  <2> QED BY <1>1, <2>1, <2>2, ClustersKeep
<1>7. CASE GroupDocuments
  <2> DEFINE made == [S \in ToSet(Clusters) |-> OfPath(S, Best(S, Bigger))]
  <2>1. GroupClusters(made) BY <1>7 DEF GroupDocuments
  <2>2. \A S \in ToSet(Clusters) : made[S].members = S /\ Keeping(made[S]) BY <1>5, KeeperMarked
  <2> HIDE DEF made
  <2> QED BY <1>1, <2>1, <2>2, ClustersKeep
<1>8. CASE GroupFolders
  <2> DEFINE made == [S \in ToSet(Clusters) |-> One(S, Best(S, Bigger))]
  <2>1. GroupClusters(made) BY <1>8 DEF GroupFolders
  <2>2. \A S \in ToSet(Clusters) : made[S].members = S /\ Keeping(made[S]) BY <1>5, KeeperMarked
  <2> HIDE DEF made
  <2> QED BY <1>1, <2>1, <2>2, ClustersKeep
<1> QED BY <1>6, <1>7, <1>8

(* What a greedy engine lists is part of what it took, with a keeper. *)
LEMMA GroupTakenKeeps ==
  ASSUME GroupingInvariant, engine \in GreedyEngines, NEW beats, GroupTaken(beats),
         \A S : Ranked(S) => Weighs(S, beats)
  PROVE  GroupingInvariant'
<1>1. phase = "build" /\ Finish BY DEF GroupTaken
<1>2. GroupingControl /\ Measured /\ Greedy BY <1>1 DEF GroupingInvariant
<1>3. PICK gone \in SUBSET Paths :
         LET left == [n \in DOMAIN groups |->
                        {i \in groups[n].members : records[i].path \notin gone}]
             big  == Ascending({n \in DOMAIN groups : Cardinality(left[n]) > 1})
         IN  groups' = [n \in DOMAIN big |-> One(left[big[n]], Best(left[big[n]], beats))]
  BY DEF GroupTaken
<1> DEFINE left == [n \in DOMAIN groups |->
                      {i \in groups[n].members : records[i].path \notin gone}]
           B == {n \in DOMAIN groups : Cardinality(left[n]) > 1}
           big == Ascending(B)
           K == Cardinality(B)
<1>4. groups' = [n \in DOMAIN big |-> One(left[big[n]], Best(left[big[n]], beats))] BY <1>3
<1>5. \A n \in DOMAIN groups : left[n] \subseteq groups[n].members /\ left[n] \subseteq DOMAIN records
  BY <1>2 DEF Greedy
<1>6. \A m, n \in DOMAIN groups : m # n => left[m] \cap left[n] = {} BY <1>2, <1>5 DEF Greedy
<1> HIDE DEF left
<1>7. B \subseteq DOMAIN groups /\ \A n \in B : Cardinality(left[n]) > 1 OBVIOUS
<1>8. K \in Nat /\ big \in [1..K -> B] /\ \A j, k \in 1..K : j # k => big[j] # big[k]
  <2>1. PICK R : groups \in Seq(R) BY <1>2 DEF Greedy
  <2>2. DOMAIN groups = 1..Len(groups) /\ Len(groups) \in Nat BY <2>1
  <2>3. IsFiniteSet(1..Len(groups)) BY <2>2, FS_Interval
  <2> HIDE DEF B
  <2>4. IsFiniteSet(B) /\ B \subseteq Int BY <1>7, <2>2, <2>3, FS_Subset
  <2> QED BY <2>4, AscendingLists
<1> HIDE DEF B, big, K
<1>9. \A n \in B : left[n] \subseteq DOMAIN records /\ Cardinality(left[n]) > 1
                   /\ Best(left[n], beats) \in left[n]
  <2> SUFFICES ASSUME NEW n \in B
               PROVE  left[n] \subseteq DOMAIN records /\ Cardinality(left[n]) > 1
                      /\ Best(left[n], beats) \in left[n]
    OBVIOUS
  <2>1. left[n] \subseteq DOMAIN records /\ Cardinality(left[n]) > 1 BY <1>5, <1>7
  <2>2. Ranked(left[n]) BY <1>2, <2>1, SomeRanked
  <2>3. Best(left[n], beats) \in left[n] BY <2>2, KeeperOf
  <2> QED BY <2>1, <2>3
<1>10. /\ DOMAIN groups' = 1..K
       /\ \A n \in 1..K : /\ big[n] \in B
                          /\ groups'[n] = One(left[big[n]], Best(left[big[n]], beats))
  BY <1>4, <1>8
<1>11. \A n \in 1..K : groups'[n].members = left[big[n]] /\ Keeping(groups'[n])
  <2> SUFFICES ASSUME NEW n \in 1..K
               PROVE  groups'[n].members = left[big[n]] /\ Keeping(groups'[n])
    OBVIOUS
  <2>1. big[n] \in B /\ Best(left[big[n]], beats) \in left[big[n]] BY <1>9, <1>10
  <2> QED BY <1>10, <2>1, KeeperMarked
<1>12. Distinct(groups')
  <2>1. ASSUME NEW m \in 1..K, NEW n \in 1..K, m # n
        PROVE  groups'[m].members \cap groups'[n].members = {}
    <3>1. big[m] \in DOMAIN groups /\ big[n] \in DOMAIN groups /\ big[m] # big[n]
      BY <1>7, <1>8, <1>10, <2>1
    <3> QED BY <1>6, <1>11, <3>1
  <2>2. \A n \in 1..K : Cardinality(groups'[n].members) > 1 /\ Keeping(groups'[n])
    BY <1>9, <1>10, <1>11
  <2> QED BY <1>10, <2>1, <2>2 DEF Distinct
<1>13. engine \notin ChainedEngines /\ engine # "burst" BY DEF ChainedEngines, GreedyEngines
<1>14. GroupsAsCompared' BY <1>1, <1>2, <1>12, <1>13, DoneGroups DEF Finish
<1> QED BY <1>1, <1>14, FinishKeeps

(* The groups of the burst engine. *)
LEMMA BurstsKeep ==
  ASSUME GroupingInvariant, GroupBursts
  PROVE  GroupingInvariant'
<1>1. phase = "build" /\ engine = "burst" /\ Finish
      /\ groups' = [n \in DOMAIN Ascending(Bursts) |-> BurstGroup(Burst(Ascending(Bursts)[n]))]
  BY DEF GroupBursts, Bursts
<1>2. GroupingControl /\ Measured BY DEF GroupingInvariant
<1>3. DOMAIN groups' = DOMAIN Ascending(Bursts)
      /\ \A n \in DOMAIN groups' : groups'[n] = BurstGroup(Burst(Ascending(Bursts)[n]))
  BY <1>1
<1>4. Distinct(groups') /\ BurstsOf(groups') BY <1>2, <1>3, BurstsFromPauses
<1>5. engine \notin ChainedEngines BY <1>1 DEF ChainedEngines
<1>6. GroupsAsCompared' BY <1>1, <1>2, <1>4, <1>5, DoneGroups DEF Finish
<1> QED BY <1>1, <1>6, FinishKeeps

(* Every step of the engines keeps the invariant. *)
LEMMA GroupingInductive ==
  ASSUME GroupingInvariant, [GroupingNext]_groupingVars
  PROVE  GroupingInvariant'
<1>1. ASSUME NEW rs \in Chosen,
             FindImages(rs) \/ FindDocuments(rs) \/ WalkFolders(rs)
             \/ FindShots(rs) \/ FindVideos(rs) \/ FindSongs(rs)
      PROVE  GroupingInvariant'
  <2>1. PICK e \in ChainedEngines \cup GreedyEngines \cup {"burst"} : \E ps : Scan(e, ps)
    BY <1>1 DEF FindImages, FindDocuments, WalkFolders, FindShots, FindVideos, FindSongs,
                ChainedEngines, GreedyEngines
  <2> QED BY <2>1, FindingKeeps
<1>2. CASE Measure \/ MeasureAgain \/ Skip BY <1>2, MeasureKeeps
<1>3. CASE Prepare BY <1>3, PrepareKeeps
<1>4. CASE CompareImages \/ CompareDocuments \/ CompareFolders BY <1>4, ChainedCompareKeeps
<1>5. CASE CompareVideos
  <2> DEFINE js == {j \in Later : VideosAlike(records[outer], records[j])}
  <2>1. engine \in GreedyEngines /\ TakeLater(js) BY <1>5 DEF CompareVideos, GreedyEngines
  <2>2. js \subseteq Later OBVIOUS
  <2> HIDE DEF js
  <2> QED BY <2>1, <2>2, TakeLaterKeeps
<1>6. CASE CompareSongs
  <2> DEFINE js == {j \in Later : SongsAlike(records[outer], records[j])}
  <2>1. engine \in GreedyEngines /\ TakeLater(js) BY <1>6 DEF CompareSongs, GreedyEngines
  <2>2. js \subseteq Later OBVIOUS
  <2> HIDE DEF js
  <2> QED BY <2>1, <2>2, TakeLaterKeeps
<1>7. CASE GroupImages \/ GroupDocuments \/ GroupFolders BY <1>7, ChainedGroupsKeep
<1>8. CASE GroupVideos
  <2>1. engine \in GreedyEngines /\ GroupTaken(Bigger) BY <1>8 DEF GroupVideos, GreedyEngines
  <2>2. \A S : Ranked(S) => Weighs(S, Bigger) BY Scales
  <2> QED BY <2>1, <2>2, GroupTakenKeeps
<1>9. CASE GroupSongs
  <2>1. engine \in GreedyEngines /\ GroupTaken(BetterSong) BY <1>9 DEF GroupSongs, GreedyEngines
  <2>2. \A S : Ranked(S) => Weighs(S, BetterSong) BY Scales
  <2> QED BY <2>1, <2>2, GroupTakenKeeps
<1>10. CASE GroupBursts BY <1>10, BurstsKeep
<1>11. CASE UNCHANGED groupingVars
  <2>1. /\ engine' = engine /\ records' = records /\ tree' = tree /\ uf' = uf /\ outer' = outer
        /\ grouped' = grouped /\ groups' = groups /\ phase' = phase
    BY <1>11 DEF groupingVars
  <2>2. GroupingControl' /\ Measured' BY <2>1 DEF GroupingControl, Measured, GroupingInvariant
  <2>3. engine \in ChainedEngines /\ phase \in {"compare", "build"} => Chained'
    <3>1. \A i, j \in DOMAIN records : Alike(records[i], records[j])' <=> Alike(records[i], records[j])
      BY <2>1 DEF Alike
    <3>2. Edges' = Edges BY <2>1, <3>1 DEF Edges, Pairs
    <3> QED BY <2>1, <3>2 DEF Chained, GroupingInvariant
  <2>4. engine \in GreedyEngines /\ phase \in {"compare", "build"} => Greedy'
    BY <2>1 DEF Greedy, GroupingInvariant
  <2>5. GroupsAsCompared'
    <3>1. ASSUME NEW S, NEW T PROVE Meet(S, T)' <=> Meet(S, T) BY <2>1 DEF Meet, Alike
    <3>2. Members' = Members BY <2>1 DEF Members
    <3>3. ChainsGrouped' <=> ChainsGrouped BY <2>1, <3>1, <3>2 DEF ChainsGrouped
    <3>4. BurstsWhole' <=> BurstsWhole BY <2>1, <3>2 DEF BurstsWhole
    <3> QED
      <4>1. GroupsAsCompared BY DEF GroupingInvariant
      <4>2. CASE phase # "done" BY <2>1, <4>2 DEF GroupsAsCompared
      <4>3. CASE phase = "done"
        <5>1. ChainsGrouped' /\ BurstsWhole' BY <3>3, <3>4, <4>1, <4>3 DEF GroupsAsCompared
        <5> DEFINE Fine(gs, rs) ==
                     /\ \A m, n \in DOMAIN gs : m # n => gs[m].members \cap gs[n].members = {}
                     /\ \A n \in DOMAIN gs :
                           /\ Cardinality(gs[n].members) > 1
                           /\ gs[n].keepers \subseteq gs[n].members
                           /\ Cardinality({rs[i].path : i \in gs[n].keepers}) = 1
        <5>2. Fine(groups, records) BY <4>1, <4>3 DEF GroupsAsCompared
        <5> HIDE DEF Fine
        <5>3. Fine(groups', records') BY <2>1, <5>2
        <5> QED BY <5>1, <5>3 DEF GroupsAsCompared, Fine
      <4> QED BY <4>2, <4>3
  <2> QED BY <2>1, <2>2, <2>3, <2>4, <2>5 DEF GroupingInvariant
<1> QED BY <1>1, <1>2, <1>3, <1>4, <1>5, <1>6, <1>7, <1>8, <1>9, <1>10, <1>11 DEF GroupingNext

GroupingSpec == GroupingInit /\ [][GroupingNext]_groupingVars

(* Whatever files the walks find, whatever they hold and however often a
   file is listed, a scan that is done has put every file in one group at
   most, with a keeper of one path; the photo engine's tree and union-find
   give the chains that comparing every pair would (image_formats.py:454),
   and a burst is neither split nor cut short (burst_detection_engine.py:247-271). *)
THEOREM GroupsAsComparedAlways == GroupingSpec => []GroupsAsCompared
<1>1. GroupingSpec => []GroupingInvariant BY GroupingStart, GroupingInductive, PTL DEF GroupingSpec
<1>2. GroupingInvariant => GroupsAsCompared BY DEF GroupingInvariant
<1> QED BY <1>1, <1>2, PTL

------------------------------------------------------------------------------
(* Each part is a projection of the whole: what the others do leaves it as
   it is. *)

LEMMA PartsAtStart ==
  Init => SessionInit /\ SettingsInit /\ PipelineInit /\ FunnelInit /\ ShellInit /\ ThumbsInit
          /\ StoreInit /\ ScreensInit /\ GroupingInit
BY DEF Init

LEMMA SessionProjects == [Next]_vars => [SessionNext]_sessionVars
BY DEF Next, vars, restVars, ViewsStep, CallsStep, ShellStep, SettingsStep, PipelineStep, SessionStep,
   ScreensStep, Of, ThumbsStep, GroupingStep, FunnelStep

LEMMA SettingsProject == [Next]_vars => [SettingsNext]_settingsVars
BY DEF Next, vars, restVars, ViewsStep, CallsStep, ShellStep, SettingsStep, PipelineStep, SessionStep,
   ScreensStep, Of, ThumbsStep, GroupingStep, FunnelStep

LEMMA PipelineProjects == [Next]_vars => [PipelineNext \/ GateNext]_pipelineVars
BY DEF Next, vars, restVars, ViewsStep, CallsStep, ShellStep, SettingsStep, PipelineStep, SessionStep,
   ScreensStep, Of, ThumbsStep, GroupingStep, FunnelStep

LEMMA FunnelProjects == [Next]_vars => [FunnelNext]_funnelVars
BY DEF Next, vars, restVars, ViewsStep, CallsStep, ShellStep, SettingsStep, PipelineStep, SessionStep,
   ScreensStep, Of, ThumbsStep, GroupingStep, FunnelStep

LEMMA ShellProjects == [Next]_vars => [ShellNext]_shellVars
BY DEF Next, vars, restVars, ViewsStep, CallsStep, ShellStep, SettingsStep, PipelineStep, SessionStep,
   ScreensStep, Of, ThumbsStep, GroupingStep, FunnelStep

LEMMA ThumbsProject == [Next]_vars => [ThumbsNext]_thumbsVars
BY DEF Next, vars, restVars, ViewsStep, CallsStep, ShellStep, SettingsStep, PipelineStep, SessionStep,
   ScreensStep, Of, ThumbsStep, GroupingStep, FunnelStep

LEMMA StoreProjects == [Next]_vars => [StoreNext]_storeVars
BY DEF Next, vars, restVars, ViewsStep, CallsStep, ShellStep, SettingsStep, PipelineStep, SessionStep,
   ScreensStep, Of, ThumbsStep, GroupingStep, FunnelStep, StoreNext, storeVars

LEMMA GroupingProjects == [Next]_vars => [GroupingNext]_groupingVars
BY DEF Next, vars, restVars, ViewsStep, CallsStep, ShellStep, SettingsStep, PipelineStep, SessionStep,
   ScreensStep, Of, ThumbsStep, GroupingStep, FunnelStep

LEMMA ScreensProject == [Next]_vars => [ScreensNext]_screensVars
BY DEF Next, vars, restVars, ViewsStep, CallsStep, ShellStep, SettingsStep, PipelineStep, SessionStep,
   ScreensStep, Of, ThumbsStep, GroupingStep, FunnelStep

(* The parts keep their promises in the application as a whole: the locks
   of the sessions, what the user saved, the deletions and their audit
   trail, the groups of exact duplicates, the shell's two records of where
   it is, what its pages show, the thumbnails of the review, the pages and
   the selection that the store keeps, what the screens show, and the
   groups of alike files. *)
THEOREM PartsHold ==
  Spec => [](LocksHold /\ SettingsKept /\ DeletionsGuarded /\ AuditTells /\ FunnelExact
             /\ RailAgrees /\ PagesCurrent /\ ThumbsShown /\ StoreConsistent
             /\ ScreensCurrent /\ GroupsAsCompared)
<1>1. Spec => SessionSpec /\ SettingsSpec /\ PipelineSpec /\ FunnelSpec /\ ShellSpec /\ ThumbsSpec
          /\ StoreSpec /\ ScreensSpec /\ GroupingSpec
  BY PartsAtStart, SessionProjects, SettingsProject, PipelineProjects, FunnelProjects, ShellProjects,
     ThumbsProject, StoreProjects, ScreensProject, GroupingProjects, PTL
  DEF Spec, SessionSpec, SettingsSpec, PipelineSpec, FunnelSpec, ShellSpec, ThumbsSpec, StoreSpec,
      ScreensSpec, GroupingSpec
<1> QED BY <1>1, LocksHoldAlways, SettingsKeptAlways, DeletionsGuardedAlways, AuditTellsAlways,
     FunnelExactAlways, RailAgreesAlways, PagesCurrentAlways, ThumbsShownAlways,
     StoreConsistentAlways, ScreensCurrentAlways, GroupsAsComparedAlways, PTL
==============================================================================
