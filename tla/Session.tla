------------------------------- MODULE Session -------------------------------
(***************************************************************************)
(* SessionManager: a record per scan with what the user decided about its  *)
(* files, in memory, and the file of each record, which most operations    *)
(* write and some do not.                                                  *)
(*                                                                         *)
(* An operation holds the manager's lock from its start to its end: it is  *)
(* one step.  A file is written in place: the write may be refused, or the *)
(* program end while it is written, and what is left cannot be read.       *)
(***************************************************************************)
EXTENDS Integers, FiniteSets

CONSTANTS
  ScanId, SessionFile,
  MaxOps,       \* bound: operations in a behaviour
  MaxFaults     \* bound: refused writes and ends of the program

ASSUME SessionAssumption == IsFiniteSet(SessionFile) /\ MaxOps \in Nat /\ MaxFaults \in Nat

VARIABLES
  memory,     \* _scans: a record, or NoRecord
  saved,      \* what the file of each scan holds
  current,    \* _current_scan_id, or "none"
  running,    \* the program runs
  unsaved,    \* the scans whose last write was refused
  locked,     \* what the user locked and did not unlock
  operations, faults

sessionVars == <<memory, saved, current, running, unsaved, locked, operations, faults>>

NoRecord  == [state |-> "none"]
Unreadable == [state |-> "unreadable"]
NewRecord == [state |-> "running", groups |-> FALSE, plan |-> FALSE, old |-> FALSE,
              locks |-> {}, intents |-> {}]

SessionInit ==
  /\ memory = [s \in ScanId |-> NoRecord] /\ saved = [s \in ScanId |-> NoRecord]
  /\ current = "none" /\ running = TRUE /\ unsaved = {}
  /\ locked = [s \in ScanId |-> {}] /\ operations = 0 /\ faults = 0

Operation == running /\ operations < MaxOps /\ operations' = operations + 1
Known(s)  == memory[s] # NoRecord

(* _persist_record(): a failure is logged and no more, whether the file was *)
(* not opened or not written to its end.                                    *)
PersistRecord(s, rec) ==
  \/ /\ saved' = [saved EXCEPT ![s] = rec]
     /\ running' = TRUE /\ unsaved' = unsaved \ {s} /\ UNCHANGED faults
  \/ /\ faults < MaxFaults /\ faults' = faults + 1
     /\ \/ /\ unsaved' = unsaved \cup {s} /\ UNCHANGED running
           /\ saved' \in {saved, [saved EXCEPT ![s] = Unreadable]}
        \/ /\ saved' = [saved EXCEPT ![s] = Unreadable]
           /\ running' = FALSE /\ unsaved' = unsaved \ {s}

(* A change of a record that is written, and one that is not.               *)
Written(s, rec) == memory' = [memory EXCEPT ![s] = rec] /\ PersistRecord(s, rec)
Kept(s, rec)    == memory' = [memory EXCEPT ![s] = rec] /\ UNCHANGED <<saved, running, unsaved, faults>>

Touched(s) == [memory[s] EXCEPT !.old = FALSE]

BeginScan(s) ==
  /\ Operation
  /\ Written(s, NewRecord)
  /\ current' = s /\ locked' = [locked EXCEPT ![s] = {}]

SetGroups(s) ==
  /\ Operation /\ Known(s)
  /\ \E some \in BOOLEAN : Written(s, [Touched(s) EXCEPT !.groups = some, !.state = "scanned"])
  /\ UNCHANGED <<current, locked>>

SetDeletePlan(s) ==
  /\ Operation /\ Known(s)
  /\ Written(s, [Touched(s) EXCEPT !.plan = TRUE, !.state = "decided"])
  /\ UNCHANGED <<current, locked>>

RecordDeleted(s) ==
  /\ Operation /\ Known(s)
  /\ Written(s, [Touched(s) EXCEPT !.state = "deleted"])
  /\ UNCHANGED <<current, locked>>

(* mark_deleting() is in memory only.                                       *)
MarkDeleting(s) ==
  /\ Operation /\ Known(s)
  /\ Kept(s, [Touched(s) EXCEPT !.state = "deleting"])
  /\ UNCHANGED <<current, locked>>

MarkEnded(s) ==
  /\ Operation /\ Known(s)
  /\ \E st \in {"cancelled", "failed"} : Written(s, [Touched(s) EXCEPT !.state = st])
  /\ UNCHANGED <<current, locked>>

(* Variant: the lock stays in memory. *)
LockSurvivorKept(s, f) ==
  /\ Operation /\ Known(s)
  /\ Kept(s, [Touched(s) EXCEPT !.locks = @ \cup {f}, !.intents = @ \ {f}])
  /\ locked' = [locked EXCEPT ![s] = @ \cup {f}]
  /\ UNCHANGED current

(* lock_survivor(): an intent to delete the file is taken back.             *)
LockSurvivor(s, f) ==
  /\ Operation /\ Known(s)
  /\ Written(s, [Touched(s) EXCEPT !.locks = @ \cup {f}, !.intents = @ \ {f}])
  /\ locked' = [locked EXCEPT ![s] = @ \cup {f}]
  /\ UNCHANGED current

UnlockSurvivor(s, f) ==
  /\ Operation /\ Known(s)
  /\ Kept(s, [Touched(s) EXCEPT !.locks = @ \ {f}])
  /\ locked' = [locked EXCEPT ![s] = @ \ {f}]
  /\ UNCHANGED current

(* set_delete_intent(): ignored for a locked file, with a warning.          *)
SetDeleteIntent(s, f) ==
  /\ Operation /\ Known(s)
  /\ IF f \in memory[s].locks THEN Kept(s, memory[s])
     ELSE Written(s, [Touched(s) EXCEPT !.intents = @ \cup {f}])
  /\ UNCHANGED <<current, locked>>

ClearDeleteIntent(s, f) ==
  /\ Operation /\ Known(s)
  /\ Kept(s, [Touched(s) EXCEPT !.intents = @ \ {f}])
  /\ UNCHANGED <<current, locked>>

ClearAllIntents(s) ==
  /\ Operation /\ Known(s)
  /\ Written(s, [Touched(s) EXCEPT !.intents = {}, !.locks = {}])
  /\ locked' = [locked EXCEPT ![s] = {}]
  /\ UNCHANGED current

(* build_effective_plan(): of a scan that has groups.                       *)
EffectivePlan(s) ==
  IF ~Known(s) THEN {}
  ELSE IF ~memory[s].groups THEN {}
  ELSE [path : memory[s].locks, survivor : {TRUE}]
         \cup [path : memory[s].intents, survivor : {FALSE}]

(* A record was not changed for thirty days.                                *)
Ages(s) ==
  /\ running /\ Known(s) /\ ~memory[s].old
  /\ memory' = [memory EXCEPT ![s].old = TRUE]
  /\ saved' = IF saved[s] \in {NoRecord, Unreadable} THEN saved
              ELSE [saved EXCEPT ![s].old = TRUE]
  /\ UNCHANGED <<current, running, unsaved, locked, operations, faults>>

(* cleanup_old_sessions(): what is old goes from memory and disk.           *)
Cleanup ==
  LET Old == {s \in ScanId : IF Known(s) THEN memory[s].old ELSE FALSE}
  IN  /\ Operation
      /\ memory' = [s \in ScanId |-> IF s \in Old THEN NoRecord ELSE memory[s]]
      /\ saved'  = [s \in ScanId |-> IF s \in Old THEN NoRecord ELSE saved[s]]
      /\ locked' = [s \in ScanId |-> IF s \in Old THEN {} ELSE locked[s]]
      /\ unsaved' = unsaved \ Old
      /\ UNCHANGED <<current, running, faults>>

(* The program ends, and starts again with what it can read; which scan was *)
(* the current one is forgotten.                                            *)
Stop ==
  /\ running /\ faults < MaxFaults
  /\ running' = FALSE /\ faults' = faults + 1
  /\ UNCHANGED <<memory, saved, current, unsaved, locked, operations>>

LoadPersisted ==
  LET Read(s) == IF saved[s] = Unreadable THEN NoRecord ELSE saved[s]
      Locks(s) == IF Read(s) = NoRecord THEN {} ELSE Read(s).locks
  IN  /\ ~running /\ running' = TRUE
      /\ memory' = [s \in ScanId |-> Read(s)]
      /\ current' = "none"
      /\ locked' = [s \in ScanId |-> IF s \in unsaved \/ Read(s) = NoRecord THEN Locks(s)
                                     ELSE locked[s]]
      /\ unsaved' = {}
      /\ UNCHANGED <<saved, operations, faults>>

SessionNext ==
  \/ Cleanup \/ Stop \/ LoadPersisted
  \/ \E s \in ScanId :
       \/ BeginScan(s) \/ SetGroups(s) \/ SetDeletePlan(s) \/ RecordDeleted(s)
       \/ MarkDeleting(s) \/ MarkEnded(s) \/ ClearAllIntents(s) \/ Ages(s)
       \/ \E f \in SessionFile :
            \/ LockSurvivor(s, f) \/ UnlockSurvivor(s, f)
            \/ SetDeleteIntent(s, f) \/ ClearDeleteIntent(s, f)

SessionSpec == SessionInit /\ [][SessionNext]_sessionVars

------------------------------------------------------------------------------
(* A file that the user locked, and did not unlock, is not deleted by the   *)
(* plan that is made of the user's decisions, and the lock is still there   *)
(* after a restart, unless its write was refused or cut short               *)
(* (lock_survivor, set_delete_intent, _load_persisted,                      *)
(* build_effective_plan).                                                   *)
LocksHold ==
  running => \A s \in ScanId :
    /\ \A item \in EffectivePlan(s) : item.survivor \/ item.path \notin locked[s]
    /\ Known(s) => locked[s] \subseteq memory[s].locks
===============================================================================
