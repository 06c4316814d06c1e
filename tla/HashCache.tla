------------------------------- MODULE HashCache -------------------------------
(***************************************************************************)
(* The row of one path in HashCache, the file behind it, and the scans     *)
(* that look its hashes up, compute them and store them.  A scan looks a   *)
(* path up twice (a batch for the whole phase, then the hash worker by     *)
(* itself), and a cancelled scan leaves its worker running: it may store   *)
(* its hash while the next scan is under way.  Every scan has a HashCache  *)
(* of its own, so that its lock does not keep the scans apart: between the *)
(* SELECT and the INSERT of one another may write the row.                 *)
(*                                                                         *)
(* The file is its version, and so is its stat signature: the model takes  *)
(* it that a change of the content changes size, time or inode.  A hash is *)
(* its algorithm and the version it was taken of; a file that changes      *)
(* while it is read gives a hash of Torn content.                          *)
(***************************************************************************)
EXTENDS Integers

CONSTANTS
  Algos,        \* hash algorithms that "auto" may pick
  Modes,        \* subset of {"quick", "verify"}: without and with full hashes
  MaxScans,     \* bound: scans in a behaviour
  MaxVersion    \* bound: versions of the file

ASSUME AlgosAssumption  == "none" \notin Algos
ASSUME ModesAssumption  == Modes \subseteq {"quick", "verify"}
ASSUME LimitsAssumption == MaxScans \in Nat /\ MaxVersion \in Nat \ {0}

VARIABLES
  version,   \* the file's content now
  row,       \* the row in file_hashes; sig 0: there is none
  live,      \* the scan whose thread runs, 0: none
  mode,      \* per scan: its configuration
  start,     \* per scan: the version at its start
  phase,     \* per scan: "quick" or "full"
  pc,        \* per scan: where its treatment of the path is
  algo,      \* per scan: the phase's algorithm
  sig,       \* per scan: signature last taken, 0: stat failed
  began,     \* per scan: version when the file was opened
  hash,      \* per scan: hash computed
  kept,      \* per scan: the other hash of the row, as it was SELECTed
  answer     \* per scan: hash the phase groups the file by

scanVars == <<mode, start, phase, pc, algo, sig, began, hash, kept, answer>>
vars == <<version, row, live, scanVars>>

Scans  == 1..MaxScans
Torn   == 0
NoHash == [algo |-> "none", of |-> 0]
NoRow  == [sig |-> 0, quick |-> NoHash, full |-> NoHash]

Init ==
  /\ version = 1 /\ row = NoRow /\ live = 0
  /\ mode = [s \in Scans |-> "quick"]
  /\ phase = [s \in Scans |-> "quick"]
  /\ start = [s \in Scans |-> 1]
  /\ pc = [s \in Scans |-> "idle"]
  /\ algo = [s \in Scans |-> "none"]
  /\ sig = [s \in Scans |-> 0]
  /\ began = [s \in Scans |-> 1]
  /\ hash = [s \in Scans |-> NoHash] /\ kept = [s \in Scans |-> NoHash]
  /\ answer = [s \in Scans |-> NoHash]

------------------------------------------------------------------------------
(* The table's operations.                                                  *)

Column(s) == IF phase[s] = "quick" THEN row.quick ELSE row.full

(* Variant: get_quick without a look at the algorithm. *)
LookupAnyAlgo(s) ==
  IF sig[s] # 0 /\ row.sig = sig[s] THEN Column(s) ELSE NoHash

(* get_quick, get_many_quick, get_many_full: a row of the same signature,  *)
(* with a hash by the same algorithm.                                      *)
Lookup(s) ==
  IF sig[s] # 0 /\ row.sig = sig[s] /\ Column(s).algo = algo[s]
  THEN Column(s) ELSE NoHash

OtherColumn(s) == IF phase[s] = "quick" THEN row.full ELSE row.quick

(* Variant: an existing hash wins over the new one. *)
UpsertKeepingOld(s) ==
  IF Column(s) # NoHash THEN [row EXCEPT !.sig = sig[s]]
  ELSE IF phase[s] = "quick"
  THEN [sig |-> sig[s], quick |-> hash[s], full |-> kept[s]]
  ELSE [sig |-> sig[s], quick |-> kept[s], full |-> hash[s]]

(* _upsert and set_many_full: the signature and one hash are replaced, the *)
(* other hash is the one SELECTed, whatever signature it was stored under. *)
Upsert(s) ==
  IF phase[s] = "quick"
  THEN [sig |-> sig[s], quick |-> hash[s], full |-> kept[s]]
  ELSE [sig |-> sig[s], quick |-> kept[s], full |-> hash[s]]

------------------------------------------------------------------------------
Goto(s, point) == pc' = [pc EXCEPT ![s] = point]

(* A change of scope clears the table before the scan's first phase.       *)
Start(s, m) ==
  /\ live = 0 /\ pc[s] = "idle" /\ \A r \in Scans : r < s => pc[r] # "idle"
  /\ live' = s
  /\ mode' = [mode EXCEPT ![s] = m]
  /\ start' = [start EXCEPT ![s] = version]
  /\ row' \in {row, NoRow}
  /\ Goto(s, "sig")
  /\ UNCHANGED <<version, phase, algo, sig, began, hash, kept, answer>>

(* The prefetch: stat of every candidate, then the batch lookup.           *)
PrefetchSig(s) ==
  /\ live = s /\ pc[s] = "sig"
  /\ \E a \in Algos : algo' = [algo EXCEPT ![s] = a]
  /\ \E g \in {0, version} : sig' = [sig EXCEPT ![s] = g]
  /\ answer' = [answer EXCEPT ![s] = NoHash]
  /\ Goto(s, "page")
  /\ UNCHANGED <<version, row, live, mode, start, phase, began, hash, kept>>

PrefetchPage(s) ==
  /\ live = s /\ pc[s] = "page"
  /\ hash' = [hash EXCEPT ![s] = Lookup(s)]
  /\ Goto(s, "task")
  /\ UNCHANGED <<version, row, live, mode, start, phase, algo, sig, began, kept, answer>>

(* hash_worker: a prefetched hash is the answer; else the quick phase goes *)
(* through compute_hash_cached, the full phase reads the file at once.     *)
Task(s) ==
  /\ live = s /\ pc[s] = "task"
  /\ IF hash[s] # NoHash
     THEN answer' = [answer EXCEPT ![s] = hash[s]] /\ Goto(s, "hashed")
     ELSE /\ Goto(s, IF phase[s] = "quick" THEN "stat" ELSE "open")
          /\ UNCHANGED answer
  /\ UNCHANGED <<version, row, live, mode, start, phase, algo, sig, began, hash, kept>>

Stat(s) ==
  /\ pc[s] = "stat"
  /\ sig' = [sig EXCEPT ![s] = version]
  /\ Goto(s, "get")
  /\ UNCHANGED <<version, row, live, mode, start, phase, algo, began, hash, kept, answer>>

GetQuick(s) ==
  /\ pc[s] = "get"
  /\ answer' = [answer EXCEPT ![s] = Lookup(s)]
  /\ Goto(s, IF Lookup(s) # NoHash THEN "hashed" ELSE "open")
  /\ UNCHANGED <<version, row, live, mode, start, phase, algo, sig, began, hash, kept>>

OpenFile(s) ==
  /\ pc[s] = "open"
  /\ began' = [began EXCEPT ![s] = version]
  /\ Goto(s, "reading")
  /\ UNCHANGED <<version, row, live, mode, start, phase, algo, sig, hash, kept, answer>>

(* Variant: the signature is taken once the file has been read. *)
ReadFileThenStat(s) ==
  /\ pc[s] = "reading"
  /\ sig' = [sig EXCEPT ![s] = version]
  /\ hash' = [hash EXCEPT ![s] =
                [algo |-> algo[s], of |-> IF version = began[s] THEN version ELSE Torn]]
  /\ Goto(s, "put")
  /\ UNCHANGED <<version, row, live, mode, start, phase, algo, began, kept, answer>>

ReadFile(s) ==
  /\ pc[s] = "reading"
  /\ hash' = [hash EXCEPT ![s] =
                [algo |-> algo[s], of |-> IF version = began[s] THEN version ELSE Torn]]
  /\ Goto(s, "put")
  /\ UNCHANGED <<version, row, live, mode, start, phase, algo, sig, began, kept, answer>>

(* The first half of _upsert, by the worker, and of set_many_full, by the  *)
(* scan thread; a locked database makes them begin again.                  *)
Select(s) ==
  /\ pc[s] \in {"put", "store"}
  /\ phase[s] = "full" => live = s /\ sig[s] # 0
  /\ kept' = [kept EXCEPT ![s] = OtherColumn(s)]
  /\ Goto(s, "store")
  /\ UNCHANGED <<version, row, live, mode, start, phase, algo, sig, began, hash, answer>>

SetQuick(s) ==
  /\ pc[s] = "store" /\ phase[s] = "quick"
  /\ row' = Upsert(s)
  /\ answer' = [answer EXCEPT ![s] = hash[s]]
  /\ Goto(s, "hashed")
  /\ UNCHANGED <<version, live, mode, start, phase, algo, sig, began, hash, kept>>

(* The scan thread stores the results of a batch with the signatures of    *)
(* the prefetch.                                                           *)
SetManyFull(s) ==
  /\ live = s /\ pc[s] = "store" /\ phase[s] = "full"
  /\ row' = Upsert(s)
  /\ answer' = [answer EXCEPT ![s] = hash[s]]
  /\ Goto(s, "hashed")
  /\ UNCHANGED <<version, live, mode, start, phase, algo, sig, began, hash, kept>>

(* A full hash without a signature is not stored, and a failure to store   *)
(* one is ignored.                                                         *)
NotStored(s) ==
  /\ live = s /\ pc[s] \in {"put", "store"} /\ phase[s] = "full"
  /\ answer' = [answer EXCEPT ![s] = hash[s]]
  /\ Goto(s, "hashed")
  /\ UNCHANGED <<version, row, live, mode, start, phase, algo, sig, began, hash, kept>>

(* Unreadable or empty file, locked or closed database: no hash.           *)
NoAnswer(s) ==
  /\ \/ pc[s] \in {"stat", "get", "reading"}
     \/ pc[s] \in {"put", "store"} /\ phase[s] = "quick"
  /\ answer' = [answer EXCEPT ![s] = NoHash]
  /\ Goto(s, "hashed")
  /\ UNCHANGED <<version, row, live, mode, start, phase, algo, sig, began, hash, kept>>

FullPhase(s) ==
  /\ live = s /\ pc[s] = "hashed"
  /\ phase[s] = "quick" /\ mode[s] = "verify" /\ answer[s] # NoHash
  /\ phase' = [phase EXCEPT ![s] = "full"]
  /\ Goto(s, "sig")
  /\ UNCHANGED <<version, row, live, mode, start, algo, sig, began, hash, kept, answer>>

(* The scan's thread ends, after its phases or at a cancel; a worker that  *)
(* has begun goes on.                                                      *)
ScanEnds ==
  /\ live # 0
  /\ live' = 0
  /\ UNCHANGED <<version, row, scanVars>>

(* Someone writes the file.                                                *)
Touch ==
  /\ version < MaxVersion
  /\ version' = version + 1
  /\ UNCHANGED <<row, live, scanVars>>

ScanStep(s) ==
  \/ \E m \in Modes : Start(s, m)
  \/ PrefetchSig(s) \/ PrefetchPage(s) \/ Task(s)
  \/ Stat(s) \/ GetQuick(s) \/ OpenFile(s) \/ ReadFile(s)
  \/ Select(s) \/ SetQuick(s) \/ SetManyFull(s) \/ NotStored(s) \/ NoAnswer(s)
  \/ FullPhase(s)

Next == Touch \/ ScanEnds \/ \E s \in Scans : ScanStep(s)

Spec == Init /\ [][Next]_vars

------------------------------------------------------------------------------
Hashes == [algo : Algos \cup {"none"}, of : Nat]
Points == {"idle", "sig", "page", "task", "stat", "get", "open", "reading", "put",
           "store", "hashed"}

(* Every variable keeps its type. *)
TypeOK ==
  /\ version \in Nat \ {0}
  /\ row \in [sig : Nat, quick : Hashes, full : Hashes]
  /\ live \in Scans \cup {0}
  /\ mode \in [Scans -> {"quick", "verify"}]
  /\ phase \in [Scans -> {"quick", "full"}]
  /\ start \in [Scans -> Nat] /\ began \in [Scans -> Nat] /\ sig \in [Scans -> Nat]
  /\ pc \in [Scans -> Points]
  /\ algo \in [Scans -> Algos \cup {"none"}]
  /\ hash \in [Scans -> Hashes] /\ kept \in [Scans -> Hashes]
  /\ answer \in [Scans -> Hashes]

(* Hash h could have been read from the file since version v.              *)
Sound(h, v) == h.of \in v..version \/ (h.of = Torn /\ v < version)

(* A scan with full hashes has started.                                    *)
Verified == \E s \in Scans : mode[s] = "verify"

(* As long as no scan computes full hashes the cache changes nothing but   *)
(* the time: a row that answers for the file as it is holds the hash of    *)
(* what is in the file, whichever worker of whichever scan stored it.      *)
QuickRight ==
  ~Verified /\ row.sig = version /\ row.quick # NoHash => row.quick.of = version

(* The hash a scan groups the file by is by the phase's algorithm, so that *)
(* it compares with the other files', and, as long as no scan computes     *)
(* full hashes, of content that the file had during this scan.             *)
AnswerSound(s) ==
  answer[s] # NoHash =>
    /\ answer[s].algo = algo[s]
    /\ ~Verified => Sound(answer[s], start[s])

AnswerOfThisScan == \A s \in Scans : AnswerSound(s)

(* Hashes that the write of a scan in phase p carries over.                *)
Carried(p) ==
  {kept[s] : s \in {r \in Scans : pc[r] = "store" /\ pc'[r] = "hashed" /\ phase[r] = p}}

(* What is wrong in a row was there before: a hash that a write changes is *)
(* right, if the signature it is stored with is the file's, unless it is   *)
(* the one that the writer had SELECTed and carries over, and which may be *)
(* of an older signature or have been replaced in the meantime.            *)
FreshWritesRight ==
  [][row'.sig = version' =>
       /\ row'.quick \in {row.quick, NoHash} \cup Carried("full") \/ row'.quick.of = version'
       /\ row'.full \in {row.full, NoHash} \cup Carried("quick") \/ row'.full.of = version']_vars

(* "cache is a pure optimization (never changes semantics)" (the module's  *)
(* docstring): with or without full hashes, what a scan groups a file by   *)
(* is a hash of content that the file had during the scan.                 *)
PureOptimization ==
  \A s \in Scans : answer[s] # NoHash => Sound(answer[s], start[s])

(* What a worker holds: a signature taken before the file was opened, and  *)
(* a hash of what the file held from then on.                              *)
WorkerSound(s) ==
  /\ start[s] \in 1..version
  /\ sig[s] # 0 => sig[s] \in start[s]..version
  /\ pc[s] = "idle" => answer[s] = NoHash /\ sig[s] = 0 /\ mode[s] = "quick"
  /\ pc[s] \notin {"idle", "sig"} => algo[s] # "none"
  /\ pc[s] \in {"get", "open", "reading", "put", "store"} /\ phase[s] = "quick" => sig[s] # 0
  /\ pc[s] = "task" /\ hash[s] # NoHash =>
       hash[s].algo = algo[s] /\ (~Verified => Sound(hash[s], start[s]))
  /\ pc[s] = "reading" => began[s] \in start[s]..version /\ sig[s] <= began[s]
  /\ pc[s] \in {"put", "store"} =>
       hash[s].algo = algo[s] /\ Sound(hash[s], sig[s]) /\ Sound(hash[s], start[s])
  /\ phase[s] = "full" => mode[s] = "verify"

RowSound ==
  /\ row.sig <= version
  /\ ~Verified /\ row.quick # NoHash => row.sig # 0 /\ Sound(row.quick, row.sig)

IInv == (\A s \in Scans : WorkerSound(s)) /\ RowSound /\ AnswerOfThisScan
==============================================================================
