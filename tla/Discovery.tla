------------------------------- MODULE Discovery -------------------------------
(***************************************************************************)
(* The discovery phase of a file scan: TurboFileEngine drops the folders   *)
(* that are protected or unreachable, TurboScanner.scan() those that lie   *)
(* below another, and _discover_files_parallel() walks the rest with a     *)
(* pool of workers whose results the scan thread collects, while the user  *)
(* may cancel and a network share may go away.                             *)
(*                                                                         *)
(* A directory stands for the files directly in it.  A walk lists one      *)
(* directory in a step.  Folders picked are directories, and the directory *)
(* cache, which scans with a checkpoint never fill, has no part.           *)
(***************************************************************************)
EXTENDS Integers, FiniteSets

CONSTANTS
  Dirs,         \* directories of the disk
  Under,        \* pairs <<d, a>>: d is below a, at any depth
  NumWorkers,   \* dir_workers
  MaySkip,      \* directories with a hidden, system, archive-like or excluded name
  MayProtect,   \* directories that may be protected
  MayVanish,    \* directories that may become unreachable
  MayRefuse     \* whether the checkpoint store may refuse a result

Below(d, a) == <<d, a>> \in Under

ASSUME DirsAssumption  == IsFiniteSet(Dirs) /\ NumWorkers \in Nat \ {0}
ASSUME UnderAssumption == Under \subseteq Dirs \X Dirs
(* The directories are trees: those above one of them lie above each       *)
(* other, and what is below a directory is, or is below, a child of it.    *)
ASSUME OrderAssumption ==
  /\ \A d \in Dirs : ~Below(d, d)
  /\ \A c, d, e \in Dirs : Below(c, d) /\ Below(d, e) => Below(c, e)
  /\ \A d, a, b \in Dirs : Below(d, a) /\ Below(d, b) => a = b \/ Below(a, b) \/ Below(b, a)
ASSUME ChildAssumption ==
  \A d, a \in Dirs : Below(d, a) =>
    \E c \in Dirs : /\ Below(c, a) /\ (d = c \/ Below(d, c))
                   /\ \A b \in Dirs : ~(Below(c, b) /\ Below(b, a))
ASSUME ChoicesAssumption ==
  /\ MaySkip \subseteq Dirs /\ MayProtect \subseteq Dirs /\ MayVanish \subseteq Dirs
  /\ MayRefuse \in BOOLEAN

VARIABLES
  folders,    \* folders the user picked
  recursive,  \* include_subfolders
  skipped,    \* directories a walk does not descend into
  excluded,   \* those of them it skips by their path
  protected,  \* protected directories
  direct,     \* TurboScanner is used without the engine: threads only
  disk,       \* directories that can be read
  cancelled,  \* the cancel event
  pc,         \* where the scan thread is
  roots,      \* folders still to be walked
  processes,  \* the pool is one of processes
  future,     \* per folder: its task in the pool
  stack,      \* per folder: directories its walk has still to list
  listed,     \* per folder: directories its walk has listed
  pending,    \* futures not yet taken from wait()
  last,       \* the future at which the loop over the finished ones ended
  ingested,   \* folders whose result was taken
  found,      \* per directory: how often its files are in the result
  told        \* folders reported as unreachable

config   == <<folders, recursive, skipped, excluded, protected, direct>>
walkVars == <<stack, listed>>
vars == <<config, disk, cancelled, pc, roots, processes, future, walkVars, pending, last,
          ingested, found, told>>

Within(d, S)  == \E a \in S : d = a \/ Below(d, a)
Children(d)   == {c \in Dirs : Below(c, d) /\ ~\E b \in Dirs : Below(c, b) /\ Below(b, d)}
Running       == {r \in Dirs : future[r] = "running"}
Finished      == {r \in Dirs : future[r] \in {"done", "raised"}}

Init ==
  /\ folders \in (SUBSET Dirs) \ {{}}
  /\ recursive \in BOOLEAN
  /\ skipped \in SUBSET MaySkip
  /\ excluded \in SUBSET skipped
  /\ protected \in SUBSET MayProtect
  /\ direct \in BOOLEAN
  /\ disk = Dirs /\ cancelled = FALSE
  /\ pc = "folders" /\ roots = {} /\ processes = FALSE
  /\ future = [r \in Dirs |-> "none"]
  /\ stack = [r \in Dirs |-> {}] /\ listed = [r \in Dirs |-> {}]
  /\ pending = {} /\ last = CHOOSE d \in Dirs : TRUE
  /\ ingested = {} /\ told = {}
  /\ found = [d \in Dirs |-> 0]

------------------------------------------------------------------------------
(* The scan thread.                                                         *)

(* _do_scan(): a folder in a protected directory is left out, one that     *)
(* cannot be reached is reported; without any the scan is over.            *)
Folders ==
  /\ pc = "folders"
  /\ LET allowed == IF direct THEN folders
                    ELSE {f \in folders : ~Within(f, protected)}
     IN /\ told' = IF direct THEN told ELSE allowed \ disk
        /\ roots' = IF direct THEN allowed ELSE allowed \cap disk
        /\ pc' = IF roots' = {} THEN "over" ELSE "dedupe"
  /\ UNCHANGED <<config, disk, cancelled, processes, future, walkVars, pending, last,
                 ingested, found>>

(* Variant: only what was picked twice is collapsed. *)
DedupeSame ==
  /\ pc = "dedupe"
  /\ UNCHANGED roots
  /\ pc' = "submit"
  /\ UNCHANGED <<config, disk, cancelled, processes, future, walkVars, pending, last,
                 ingested, found, told>>

(* dedupe_roots().                                                         *)
Dedupe ==
  /\ pc = "dedupe"
  /\ roots' = {r \in roots : ~\E k \in roots : Below(r, k)}
  /\ pc' = "submit"
  /\ UNCHANGED <<config, disk, cancelled, processes, future, walkVars, pending, last,
                 ingested, found, told>>

(* One task per folder that exists.  The engine asks for processes when    *)
(* the user picked several folders.                                        *)
Submit ==
  /\ pc = "submit"
  /\ LET walked == roots \cap disk
     IN /\ pending' = walked
        /\ processes' = (~direct /\ Cardinality(folders) > 1 /\ Cardinality(walked) > 1)
        /\ future' = [r \in Dirs |-> IF r \in walked THEN "queued" ELSE "none"]
        /\ stack' = [r \in Dirs |-> IF r \in walked THEN {r} ELSE {}]
        /\ pc' = IF walked = {} THEN "over" ELSE "wait"
  /\ UNCHANGED <<config, disk, cancelled, roots, listed, last, ingested, found, told>>

(* Variant: the pool is left by its context manager, which waits. *)
AbortJoining ==
  /\ pc \in {"wait", "check"} /\ cancelled /\ Running = {}
  /\ future' = [r \in Dirs |-> IF future[r] = "queued" THEN "dropped" ELSE future[r]]
  /\ pc' = "over"
  /\ UNCHANGED <<config, disk, cancelled, roots, processes, walkVars, pending, last,
                 ingested, found, told>>

(* _collect() sees the cancel: the pool is left, its workers may run on.   *)
Abort ==
  /\ pc \in {"wait", "check"} /\ cancelled
  /\ future' = [r \in Dirs |-> IF future[r] = "queued" THEN "dropped" ELSE future[r]]
  /\ pc' = "over"
  /\ UNCHANGED <<config, disk, cancelled, roots, processes, walkVars, pending, last,
                 ingested, found, told>>

(* No cancel: a quarter of a second is spent in wait().                    *)
LookCancel ==
  /\ pc = "wait" /\ ~cancelled
  /\ pc' = "select"
  /\ UNCHANGED <<config, disk, cancelled, roots, processes, future, walkVars, pending,
                 last, ingested, found, told>>

WaitTimesOut ==
  /\ pc = "select" /\ pending \cap Finished = {}
  /\ pc' = "wait"
  /\ UNCHANGED <<config, disk, cancelled, roots, processes, future, walkVars, pending,
                 last, ingested, found, told>>

(* wait() with FIRST_COMPLETED: all that have finished.  Their order is    *)
(* that of a set, and what follows the loop treats its last one.           *)
WaitFirst ==
  /\ pc = "select"
  /\ \E r \in pending \cap Finished : last' = r
  /\ pending' = pending \ Finished
  /\ pc' = "check"
  /\ UNCHANGED <<config, disk, cancelled, roots, processes, future, walkVars, ingested,
                 found, told>>

(* Variant: the second look at the cancel event is left out. *)
CheckCancelNot ==
  /\ pc = "check"
  /\ pc' = "ingest"
  /\ UNCHANGED <<config, disk, cancelled, roots, processes, future, walkVars, pending,
                 last, ingested, found, told>>

CheckCancel ==
  /\ pc = "check" /\ ~cancelled
  /\ pc' = "ingest"
  /\ UNCHANGED <<config, disk, cancelled, roots, processes, future, walkVars, pending,
                 last, ingested, found, told>>

(* Variant: a walk that failed is passed over in silence. *)
IngestQuietly ==
  /\ pc = "ingest"
  /\ IF future[last] = "done"
     THEN /\ ingested' = ingested \cup {last}
          /\ found' = [d \in Dirs |-> IF d \in listed[last] THEN found[d] + 1 ELSE found[d]]
     ELSE UNCHANGED <<ingested, found>>
  /\ pc' = IF pending = {} THEN "over" ELSE "wait"
  /\ UNCHANGED <<config, disk, cancelled, roots, processes, future, walkVars, pending,
                 last, told>>

(* The result of the last future is taken, or its exception, or that of    *)
(* the store, is reported as an unreachable folder.                        *)
Ingest ==
  /\ pc = "ingest"
  /\ \/ /\ future[last] = "done"
        /\ ingested' = ingested \cup {last}
        /\ found' = [d \in Dirs |-> IF d \in listed[last] THEN found[d] + 1 ELSE found[d]]
        /\ UNCHANGED told
     \/ /\ future[last] = "raised" \/ MayRefuse
        /\ told' = told \cup {last}
        /\ UNCHANGED <<ingested, found>>
  /\ pc' = IF pending = {} THEN "over" ELSE "wait"
  /\ UNCHANGED <<config, disk, cancelled, roots, processes, future, walkVars, pending,
                 last>>

------------------------------------------------------------------------------
(* The workers, the user and the network.                                   *)

Goto(r, point) == future' = [future EXCEPT ![r] = point]

Take(r) ==
  /\ future[r] = "queued" /\ Cardinality(Running) < NumWorkers
  /\ Goto(r, "running")
  /\ UNCHANGED <<config, disk, cancelled, pc, roots, processes, walkVars, pending, last,
                 ingested, found, told>>

(* walk_directory_worker() in a process: its nine arguments end with       *)
(* skip_system, which it takes for the cancel event.                       *)
WalkRaises(r) ==
  /\ future[r] = "running" /\ processes
  /\ Goto(r, "raised")
  /\ UNCHANGED <<config, disk, cancelled, pc, roots, processes, walkVars, pending, last,
                 ingested, found, told>>

(* The walk looks at the cancel event, and returns what it has.            *)
WalkCancelled(r) ==
  /\ future[r] = "running" /\ ~processes /\ cancelled
  /\ Goto(r, "done")
  /\ UNCHANGED <<config, disk, cancelled, pc, roots, processes, walkVars, pending, last,
                 ingested, found, told>>

(* One directory: the folder itself must be readable.                      *)
WalkDir(r, d) ==
  /\ future[r] = "running" /\ ~processes /\ ~cancelled /\ d \in stack[r]
  /\ LET open == d \in disk /\ ~Within(d, excluded)
         more == IF open /\ recursive THEN Children(d) \ skipped ELSE {}
     IN /\ listed' = [listed EXCEPT ![r] = IF open THEN @ \cup {d} ELSE @]
        /\ stack' = [stack EXCEPT ![r] = (@ \ {d}) \cup more]
        /\ IF d = r /\ d \notin disk /\ ~Within(d, excluded)
           THEN Goto(r, "raised") ELSE UNCHANGED future
  /\ UNCHANGED <<config, disk, cancelled, pc, roots, processes, pending, last, ingested,
                 found, told>>

WalkEnds(r) ==
  /\ future[r] = "running" /\ ~processes /\ stack[r] = {}
  /\ Goto(r, "done")
  /\ UNCHANGED <<config, disk, cancelled, pc, roots, processes, walkVars, pending, last,
                 ingested, found, told>>

Cancel ==
  /\ ~cancelled /\ pc # "over"
  /\ cancelled' = TRUE
  /\ UNCHANGED <<config, disk, pc, roots, processes, future, walkVars, pending, last,
                 ingested, found, told>>

Vanish(d) ==
  /\ d \in disk \cap MayVanish
  /\ disk' = {e \in disk : ~Within(e, {d})}
  /\ UNCHANGED <<config, cancelled, pc, roots, processes, future, walkVars, pending, last,
                 ingested, found, told>>

------------------------------------------------------------------------------
ScanThread ==
  \/ Folders \/ Dedupe \/ Submit \/ Abort \/ LookCancel \/ WaitTimesOut \/ WaitFirst
  \/ CheckCancel \/ Ingest

Worker(r) ==
  \/ Take(r) \/ WalkRaises(r) \/ WalkCancelled(r) \/ WalkEnds(r)
  \/ \E d \in Dirs : WalkDir(r, d)

Next ==
  \/ ScanThread \/ Cancel
  \/ \E r \in Dirs : Worker(r)
  \/ \E d \in Dirs : Vanish(d)

Spec == Init /\ [][Next]_vars

(* The scan thread runs; a worker may hang in a read of a dead share.      *)
FairSpec == Spec /\ WF_vars(ScanThread)

------------------------------------------------------------------------------
(* What a walk of folder r is to list.                                     *)
Reach(r) ==
  IF Within(r, excluded) THEN {}
  ELSE {d \in Dirs :
          \/ d = r
          \/ /\ recursive /\ Below(d, r)
             /\ \A x \in skipped : Below(x, r) => ~Within(d, {x})}

Points  == {"folders", "dedupe", "submit", "wait", "select", "check", "ingest",
            "over"}
Futures == {"none", "queued", "running", "done", "raised", "dropped"}

(* Every variable keeps its type, and the pool its size.                   *)
TypeOK ==
  /\ folders \subseteq Dirs /\ recursive \in BOOLEAN /\ direct \in BOOLEAN
  /\ skipped \subseteq Dirs /\ excluded \subseteq skipped /\ protected \subseteq Dirs
  /\ disk \subseteq Dirs /\ cancelled \in BOOLEAN /\ processes \in BOOLEAN
  /\ pc \in Points /\ roots \subseteq Dirs /\ last \in Dirs
  /\ future \in [Dirs -> Futures] /\ Cardinality(Running) <= NumWorkers
  /\ stack \in [Dirs -> SUBSET Dirs] /\ listed \in [Dirs -> SUBSET Dirs]
  /\ pending \subseteq Dirs /\ ingested \subseteq Dirs /\ told \subseteq Dirs
  /\ found \in [Dirs -> Nat]

(* Of a folder everything is taken that can still be read, or nothing: a   *)
(* walk that a cancel cut short is never taken for a whole one.            *)
WholeOrNothing ==
  \A r \in ingested : \A d \in Reach(r) \cap disk : found[d] > 0

(* No file is counted twice, whatever folders overlap.                     *)
FoundOnce == \A d \in Dirs : found[d] <= 1

(* A scan that walks one folder takes it or reports it, unless the folder  *)
(* went away before it had a task.                                         *)
LoneFolderHandled ==
  pc = "over" /\ ~cancelled /\ Cardinality(roots) = 1 =>
    \A r \in roots : future[r] = "none" \/ r \in ingested \cup told

(* What a walk has still to find is below a directory it has to list.      *)
Covered(r) ==
  \A d \in Reach(r) \cap disk : d \in listed[r] \/ Within(d, stack[r])

Complete(r) == Reach(r) \cap disk \subseteq listed[r]

(* The walks: a directory is read only while those above it are, a walk    *)
(* stays in its folder, and one that ends before a cancel is complete.     *)
Walks ==
  /\ \A d \in disk, a \in Dirs : Below(d, a) => a \in disk
  /\ \A r \in Dirs : \A d \in listed[r] \cup stack[r] : d = r \/ Below(d, r)
  /\ \A r \in Dirs : future[r] \in {"queued", "running"} => Covered(r)
  /\ \A r \in Dirs : future[r] = "done" /\ ~cancelled => Complete(r)

(* The collection: the folders walked do not overlap, each is taken once.  *)
Collection ==
  /\ pc \in {"folders", "dedupe", "submit"} =>
       pending = {} /\ ingested = {} /\ \A r \in Dirs : future[r] = "none"
  /\ pc \notin {"folders", "dedupe"} => \A r, k \in roots : ~Below(r, k)
  /\ \A r \in Dirs : future[r] # "none" => r \in roots
  /\ ingested \cup pending \subseteq {r \in Dirs : future[r] # "none"}
  /\ ingested \cap pending = {}
  /\ pc \in {"check", "ingest"} => last \in Finished /\ last \notin pending \cup ingested
  /\ pc = "ingest" /\ future[last] = "done" => Complete(last)
  /\ \A d \in Dirs : found[d] > 0 => \E r \in ingested : d = r \/ Below(d, r)

(* The inductive invariant behind the theorems of Discovery_proofs.        *)
IInv == TypeOK /\ Walks /\ Collection /\ WholeOrNothing /\ FoundOnce

(* A cancel ends the phase even while a worker hangs.                      *)
CancelEnds == cancelled ~> pc = "over"

(* "continue scanning any reachable ones" (turbo_file_engine.py): a folder *)
(* that the user picked, that is not protected and was there all along, is *)
(* scanned.                                                                *)
ReachableScanned ==
  pc = "over" /\ ~cancelled /\ disk = Dirs /\ ~direct =>
    \A f \in folders : Within(f, protected) \/ \A d \in Reach(f) : found[d] > 0
==============================================================================
