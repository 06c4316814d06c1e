------------------------------- MODULE Pipeline -------------------------------
(***************************************************************************)
(* CerebroPipeline: a deletion plan of the user interface is checked       *)
(* against the disk, executed file by file, and recorded in the audit      *)
(* trail; the DeletionGate in front of a permanent deletion.               *)
(*                                                                         *)
(* A path is a file, or a link to one.  Somebody else may remove a file    *)
(* between any two steps, and the program may end.  The audit file of the  *)
(* day is a sequence of lines; a line is the list of what was written      *)
(* before its end, and reads as a record if that is one record, whole.     *)
(***************************************************************************)
EXTENDS Integers, Sequences, FiniteSets, SequencesExt

CONSTANTS
  FilePath,     \* paths of files
  LinkTo,       \* the links: a function from their paths to paths of files
  Plans,        \* the plans: sequences of [keep, delete], delete a sequence
  MaxPlans,     \* bound: plans in a behaviour
  MaxGone,      \* bound: files that somebody else removes
  MaxTorn,      \* bound: writes of a record that fail, ends of the program
  MaxTokens     \* bound: tokens that a gate issues

DelPath == FilePath \cup DOMAIN LinkTo
Resolved(p) == IF p \in DOMAIN LinkTo THEN LinkTo[p] ELSE p

(* A file is in one group of a plan: under its own path or a link's.        *)
ASSUME PlansDisjoint ==
  \A P \in Plans : \A i, j \in DOMAIN P :
    LET Files(g) == {Resolved(p) : p \in {P[g].keep} \cup Range(P[g].delete)}
    IN  i # j => Files(i) \cap Files(j) = {}
ASSUME PipelineAssumption ==
  MaxPlans \in Nat /\ MaxGone \in Nat /\ MaxTorn \in Nat /\ MaxTokens \in Nat

(* A link is no file itself, and leads to one; "cut" is no path.            *)
ASSUME PathAssumption ==
  /\ LinkTo \in [DOMAIN LinkTo -> FilePath] /\ DOMAIN LinkTo \cap FilePath = {}
  /\ "cut" \notin DelPath
  /\ Plans \subseteq Seq([keep : DelPath, delete : Seq(DelPath)])

VARIABLES
  entries,   \* the paths on disk
  others,    \* how many files somebody else removed
  orphans,   \* the files removed by somebody else
  job,       \* the plan that is executed: its state, what is left of it, results
  ops,       \* operations of the last plan that were executed with success
  begun,     \* history: the records that were begun, and if each was written whole
  auditFile, \* the lines of the audit file
  torn,      \* how many writes failed or were cut off by the program's end
  jobs,      \* how many plans were started
  gate,      \* a DeletionGate: its token, if it has expired, tokens so far
  grants     \* how often assert_allowed() let each token pass

pipelineVars == <<entries, others, orphans, job, ops, begun, auditFile, torn, jobs, gate, grants>>

NoJob == [state |-> "idle", plan |-> <<>>, todo |-> {}, cancelled |-> FALSE,
          deleted |-> {}, failed |-> {}]

PipelineInit ==
  /\ entries = DelPath /\ others = 0 /\ orphans = {}
  /\ job = NoJob /\ ops = {} /\ begun = <<>>
  /\ auditFile = << <<>> >> /\ torn = 0 /\ jobs = 0
  /\ gate = [token |-> 0, expired |-> FALSE, issued |-> 0]
  /\ grants = [t \in 0..MaxTokens |-> 0]

(* Path.exists() follows a link.                                            *)
Exists(p) == p \in entries /\ Resolved(p) \in entries

fileVars  == <<entries, others, orphans, ops>>
auditVars == <<begun, auditFile, torn>>
gateVars  == <<gate, grants>>

------------------------------------------------------------------------------
(* Building the plan.                                                       *)

(* Variant: paths are compared as they are written. *)
OperationsUnresolved(g) ==
  {i \in DOMAIN g.delete : Exists(g.keep) /\ Exists(g.delete[i]) /\ g.delete[i] # g.keep}

(* The operations of a group, by their places in its list: none if its      *)
(* keeper is missing; a path that is missing, or that is the keeper, is     *)
(* passed over.                                                             *)
OperationsOf(g) ==
  {i \in DOMAIN g.delete : /\ Exists(g.keep) /\ Exists(g.delete[i])
                           /\ Resolved(g.delete[i]) # Resolved(g.keep)}

(* The operation at the place x of a plan: a group and a place in its list. *)
OperationAt(P, x) == [path |-> P[x[1]].delete[x[2]], kept |-> P[x[1]].keep]

(* build_delete_plan(): a plan of which nothing is left raises.             *)
BuildPlan ==
  /\ job.state = "idle" /\ jobs < MaxPlans
  /\ \E P \in Plans :
       LET todo == UNION {{g} \X OperationsOf(P[g]) : g \in DOMAIN P}
       IN  IF P # <<>> /\ todo = {} THEN UNCHANGED job
           ELSE job' = [NoJob EXCEPT !.state = "built", !.plan = P, !.todo = todo]
  /\ jobs' = jobs + 1 /\ ops' = {}
  /\ UNCHANGED <<entries, others, orphans, auditVars, gateVars>>

(* The gate that execute_delete_plan() makes for a permanent deletion takes *)
(* the token of the plan if it has the form of one.                         *)
Permitted(mode, token) == mode = "trash" \/ token = "hex"

Execute ==
  /\ job.state = "built"
  /\ \E mode \in {"trash", "permanent"}, token \in {"none", "hex", "other"} :
       IF Permitted(mode, token) THEN job' = [job EXCEPT !.state = "running"]
       ELSE job' = NoJob
  /\ UNCHANGED <<fileVars, auditVars, gateVars, jobs>>

(* delete_one(): the adapter refuses what does not exist, and may fail.     *)
DeleteOne(x) ==
  LET op == OperationAt(job.plan, x)
  IN  \/ /\ Exists(op.path)
         /\ entries' = entries \ {op.path}
         /\ ops' = ops \cup {op}
         /\ job' = [job EXCEPT !.todo = @ \ {x}, !.deleted = @ \cup {op.path}]
      \/ /\ job' = [job EXCEPT !.todo = @ \ {x}, !.failed = @ \cup {op.path}]
         /\ UNCHANGED <<entries, ops>>

(* The order of the list that execute_plan() goes through.                  *)
Before(x, y) == x[1] < y[1] \/ (x[1] = y[1] /\ x[2] <= y[2])

ExecuteOne ==
  /\ job.state = "running"
  /\ \E x \in job.todo : (\A y \in job.todo : Before(x, y)) /\ DeleteOne(x)
  /\ UNCHANGED <<others, orphans, auditVars, gateVars, jobs>>

(* The callback answers that it is enough: the rest is skipped.             *)
CancelBatch ==
  /\ job.state = "running" /\ job.todo # {}
  /\ job' = [job EXCEPT !.todo = {}, !.cancelled = TRUE]
  /\ UNCHANGED <<fileVars, auditVars, gateVars, jobs>>

------------------------------------------------------------------------------
(* HistoryStore: one line is appended for each executed plan.               *)
AddPiece(f, piece) == [f EXCEPT ![Len(f)] = Append(@, piece)]
AddLine(f, record) == Append(AddPiece(f, record), <<>>)
RecordOf(n, paths) == [of |-> n, paths |-> paths]
Piece              == RecordOf(0, {"cut"})
Writing(r, whole)  == [record |-> r, whole |-> whole]

(* Variant: what was deleted before the batch was cancelled is not written. *)
AuditedPathsOfWhole(j) == IF j.cancelled THEN {} ELSE j.deleted

(* The details with the status "deleted".                                   *)
AuditedPaths(j) == j.deleted

(* What up to three attempts to append the record can leave: an attempt     *)
(* writes nothing, a part, or the whole line whose fsync fails; the next    *)
(* attempt appends after it.                                                *)
Attempts(f, record) ==
  LET Failed(g) == {g, AddPiece(g, Piece), AddLine(g, record)}
      Twice     == UNION {Failed(g) : g \in Failed(f)}
  IN  [ok   |-> {AddLine(g, record) : g \in {f} \cup Failed(f) \cup Twice},
       none |-> UNION {Failed(g) : g \in Twice}]

(* The end of execute_delete_plan(): a failing write is logged and no more. *)
WriteAudit ==
  /\ job.state = "running" /\ job.todo = {}
  /\ LET r == RecordOf(jobs, AuditedPaths(job))
         A == Attempts(auditFile, r)
     IN  /\ auditFile' \in A.ok \cup A.none
         /\ torn' = torn + (IF auditFile' = AddLine(auditFile, r) THEN 0 ELSE 1)
  /\ torn' <= MaxTorn
  /\ begun' = Append(begun, Writing(RecordOf(jobs, job.deleted), torn' = torn))
  /\ job' = NoJob
  /\ UNCHANGED <<fileVars, gateVars, jobs>>

(* get_deletion_history(): lines that do not parse are skipped.             *)
Records(f) == {f[i][1] : i \in {j \in DOMAIN f : Len(f[j]) = 1 /\ f[j][1] # Piece}}

(* The program ends, while a record is written or at any other time.        *)
Die ==
  /\ torn < MaxTorn /\ torn' = torn + 1
  /\ \/ UNCHANGED <<begun, auditFile>>
     \/ /\ job.state = "running" /\ job.todo = {}
        /\ auditFile' \in Attempts(auditFile, RecordOf(jobs, AuditedPaths(job))).none
        /\ begun' = Append(begun, Writing(RecordOf(jobs, job.deleted), FALSE))
  /\ job' = NoJob
  /\ UNCHANGED <<fileVars, gateVars, jobs>>

(* Somebody else removes a file.                                            *)
OtherRemoves ==
  /\ others < MaxGone /\ others' = others + 1
  /\ \E p \in entries : entries' = entries \ {p} /\ orphans' = orphans \cup {p}
  /\ UNCHANGED <<job, ops, auditVars, gateVars, jobs>>

------------------------------------------------------------------------------
(* DeletionGate, as its users may configure it: with tokens required.       *)
IssueToken ==
  /\ gate.issued < MaxTokens
  /\ gate' = [token |-> gate.issued + 1, expired |-> FALSE, issued |-> gate.issued + 1]
  /\ UNCHANGED <<grants, fileVars, auditVars, job, jobs>>

TokenExpires ==
  /\ gate.token # 0
  /\ gate' = [gate EXCEPT !.expired = TRUE]
  /\ UNCHANGED <<grants, fileVars, auditVars, job, jobs>>

(* verify_token(): 0 is a token of the form of a plan's.                    *)
VerifyToken(t) == IF gate.token # 0 THEN ~gate.expired /\ t = gate.token ELSE t = 0

(* assert_allowed(): a token of the gate's own is used up.                  *)
AssertAllowed(t) ==
  /\ VerifyToken(t)
  /\ grants' = [grants EXCEPT ![t] = @ + 1]
  /\ gate' = [gate EXCEPT !.token = 0, !.expired = FALSE]

UseGate ==
  /\ \E t \in 0..gate.issued : grants[t] < 2 /\ AssertAllowed(t)
  /\ UNCHANGED <<fileVars, auditVars, job, jobs>>

PipelineNext ==
  BuildPlan \/ Execute \/ ExecuteOne \/ CancelBatch \/ WriteAudit \/ Die \/ OtherRemoves
GateNext == IssueToken \/ TokenExpires \/ UseGate

PipelineSpec == PipelineInit /\ [][PipelineNext \/ GateNext]_pipelineVars

------------------------------------------------------------------------------
(* What a plan keeps of a group of which it deletes something can be read   *)
(* after it, if nobody else took it away: a plan never deletes the last     *)
(* copy, not even when the keeper is a link to a file of the group          *)
(* (build_delete_plan).                                                     *)
KeptReadable ==
  \A op \in ops : Exists(op.kept) \/ {op.kept, Resolved(op.kept)} \cap orphans # {}

(* A batch that ended, cancelled or with failures, can be read back from    *)
(* the audit trail, and nothing else can: a record is missing only if its   *)
(* own write failed or was cut short, or if that of the batch right before  *)
(* did, to whose remains it was appended (execute_delete_plan,              *)
(* record_deletion, get_deletion_history).                                  *)
AuditTells ==
  /\ Records(auditFile) \subseteq {begun[i].record : i \in DOMAIN begun}
  /\ \A i \in DOMAIN begun :
       \/ begun[i].record \in Records(auditFile)
       \/ ~begun[i].whole
       \/ i > 1 /\ ~begun[i - 1].whole

(* A token that the gate issued opens it once (assert_allowed).             *)
TokenOnce == \A t \in DOMAIN grants \ {0} : grants[t] <= 1

(* The two guards of a deletion together: no plan deletes a last copy, and  *)
(* no token opens the gate twice.                                           *)
DeletionsGuarded == KeptReadable /\ TokenOnce
===============================================================================
