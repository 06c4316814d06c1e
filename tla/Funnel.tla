------------------------------- MODULE Funnel -------------------------------
(***************************************************************************)
(* The funnel of the turbo scanner: the files that were found are put      *)
(* together by size, then by a hash of their first bytes (Tier A), by a    *)
(* quick hash of both ends and, when the user asks for it, by a hash of    *)
(* everything; what is left is shown as groups of exact duplicates.        *)
(*                                                                         *)
(* Each phase reads every candidate once, on a pool. An edit of a file is  *)
(* before or after that read, never anything else to it, so a phase is one *)
(* step and the edits fall between the phases. What the cache answers in   *)
(* place of a read is the subject of HashCache, who stops when of          *)
(* TurboScan. Two different contents are taken to have different hashes.   *)
(***************************************************************************)
EXTENDS Integers, FiniteSets

CONSTANTS FoundPath,     \* the paths the discovery finds
          ResolvesTo,    \* [path -> the file it is]: two paths may be one file
          Fenced,        \* the paths under a protected folder
          Blobs,         \* what a file may hold, see below
          OptionSets,    \* the settings of a scan: sets of Option
          SparsePercent, \* Tier A is skipped below this share of candidates
          EscalateOver,  \* a size group of more bytes gets a longer prefix,
          PrefixSize,    \*   if its files are larger than this
          MaxMishaps     \* the edits, failed reads and lost files of a behaviour

Option == {"dedup", "index_only", "adaptive", "verify"}

\* A content is its size and its bytes: the first 4 KiB, the rest of the first
\* 32 KiB, the second 32 KiB, the last 32 KiB, and all the others.
ASSUME FunnelAssumption ==
    /\ ResolvesTo \in [FoundPath -> FoundPath] /\ IsFiniteSet(FoundPath)
    /\ OptionSets \subseteq SUBSET Option
    /\ \A b \in Blobs : b.size \in Nat
    /\ SparsePercent \in Nat /\ EscalateOver \in Nat /\ PrefixSize \in Nat
    /\ MaxMishaps \in Nat

VARIABLES disk,      \* [file -> what it holds]
          switches,  \* the settings of this scan
          sized,     \* [path found -> the size it had then]
          buckets,   \* the groups of candidates, each a set of paths
          stage,     \* the phase that is next
          stopped,   \* is the cancel event set?
          shown,     \* last_groups of the scanner
          emitted,   \* the groups whose rows it has yielded
          answers,   \* the groups the engine answers
          troubled,  \* the files edited, unreadable or gone during the scan
          mishaps    \* how many of those there were

funnelVars == <<disk, switches, sized, buckets, stage, stopped, shown, emitted,
                answers, troubled, mishaps>>

Original == {ResolvesTo[p] : p \in FoundPath}

FunnelInit ==
    /\ disk \in [Original -> Blobs]
    /\ switches = {} /\ sized = <<>> /\ buckets = {}
    /\ stage = "idle" /\ stopped = FALSE
    /\ shown = {} /\ emitted = {} /\ answers = {}
    /\ troubled = {} /\ mishaps = 0

-----------------------------------------------------------------------------
(* What is read of a file, and how paths are put together.                 *)

Blob(p) == disk[ResolvesTo[p]]

Prefix     == [b \in Blobs |-> <<b.first>>]
LongPrefix == [b \in Blobs |-> <<b.first, b.head, b.second>>]
Ends       == [b \in Blobs |-> <<b.first, b.head, b.tail>>]
Whole      == [b \in Blobs |-> <<b>>]

\* The hash of each of the paths ps, of the part that is read of it; an empty
\* file has none, nor has one whose read fails.
Hashes(ps, part, bad) ==
    [p \in ps |-> IF p \in bad \/ Blob(p).size = 0 THEN <<>> ELSE part[Blob(p)]]

\* The paths of ps with the same hash, where there are two of them.
Alikes(ps, hash) ==
    {S \in {{q \in ps : hash[q] = hash[p]} : p \in ps} : Cardinality(S) > 1}

Candidates == UNION buckets

\* The reads that fail in this phase.
Failing(bad) ==
    /\ mishaps + Cardinality(bad) <= MaxMishaps
    /\ mishaps' = mishaps + Cardinality(bad)
    /\ troubled' = troubled \cup {ResolvesTo[p] : p \in bad}

-----------------------------------------------------------------------------
(* The phases.                                                             *)

Begin(opts) ==
    /\ stage = "idle"
    /\ switches' = opts
    /\ sized' = [p \in FoundPath |-> Blob(p).size]
    /\ stage' = "size"
    /\ UNCHANGED <<disk, buckets, stopped, shown, emitted, answers, troubled, mishaps>>

\* _group_files_by_size. A cancel leaves nothing, and last_groups as it was: empty.
GroupBySize ==
    /\ stage = "size"
    /\ IF stopped THEN buckets' = {} /\ stage' = "convert"
       ELSE buckets' = Alikes(DOMAIN sized, sized) /\ stage' = "distinct"
    /\ UNCHANGED <<disk, switches, sized, stopped, shown, emitted, answers,
                   troubled, mishaps>>

\* Sets with one path of B for each file.
OnePerFile(B) ==
    {S \in SUBSET B : \A p \in B :
        Cardinality({q \in S : ResolvesTo[q] = ResolvesTo[p]}) = 1}

\* The guard against aliases before anything is read, off unless asked for; then
\* a scan that only makes the index ends.
DropAliases ==
    /\ stage = "distinct"
    /\ IF "dedup" \in switches
       THEN \E kept \in [buckets -> SUBSET FoundPath] :
               /\ \A B \in buckets : kept[B] \in OnePerFile(B)
               /\ buckets' = {S \in {kept[B] : B \in buckets} : Cardinality(S) > 1}
       ELSE UNCHANGED buckets
    /\ stage' = IF "index_only" \in switches THEN "convert" ELSE "tierA"
    /\ UNCHANGED <<disk, switches, sized, stopped, shown, emitted, answers,
                   troubled, mishaps>>

\* Not worth it, or cut short by a cancel, which gives back what came in.
SkipTierA ==
    \/ stopped
    \/ Cardinality(Candidates) < 2
    \/ 100 * Cardinality(Candidates) < SparsePercent * Cardinality(DOMAIN sized)

SizeOf(B) == sized[CHOOSE p \in B : TRUE]

Escalated(B) == /\ "adaptive" \in switches
                /\ Cardinality(B) * SizeOf(B) > EscalateOver
                /\ SizeOf(B) > PrefixSize

\* Variant: each pair replaces the one before it under their size.
SurvivorsOverwritten(B, bad) ==
    LET hash == IF Escalated(B) THEN Hashes(B, LongPrefix, bad)
                ELSE Hashes(B, Prefix, bad)
        alike == Alikes(B, hash)
    IN  IF alike = {} THEN {} ELSE CHOOSE S \in alike : TRUE

\* The paths of one size that share their prefix with another. Those whose read
\* failed are put together as if they shared theirs.
Survivors(B, bad) ==
    LET hash == IF Escalated(B) THEN Hashes(B, LongPrefix, bad)
                ELSE Hashes(B, Prefix, bad)
    IN  UNION Alikes(B, hash)

TierA ==
    /\ stage = "tierA"
    /\ IF SkipTierA
       THEN UNCHANGED <<buckets, troubled, mishaps>>
       ELSE \E bad \in SUBSET Candidates :
               /\ Failing(bad)
               /\ buckets' = {Survivors(B, bad) : B \in buckets} \ {{}}
    /\ stage' = "quick"
    /\ UNCHANGED <<disk, switches, sized, stopped, shown, emitted, answers>>

\* With the cancel event set nothing of all is done; a cancel on the way leaves
\* out what comes too late.
CutShort(late, all) == /\ stopped => late = all
                       /\ stopped' = (stopped \/ late # {})

\* _compute_hashes_parallel: the key of a group is the hash alone.
HashPhase(part) ==
    \E bad \in SUBSET Candidates, late \in SUBSET Candidates :
        LET hash == Hashes(Candidates, part, bad)
        IN  /\ Failing(bad)
            /\ CutShort(late, Candidates)
            /\ buckets' = Alikes({p \in Candidates \ late : hash[p] # <<>>}, hash)

QuickHash ==
    /\ stage = "quick"
    /\ HashPhase(Ends)
    /\ stage' = IF "verify" \in switches THEN "full" ELSE "expose"
    /\ UNCHANGED <<disk, switches, sized, shown, emitted, answers>>

FullHash ==
    /\ stage = "full"
    /\ HashPhase(Whole)
    /\ stage' = "expose"
    /\ UNCHANGED <<disk, switches, sized, shown, emitted, answers>>

\* last_groups is made first, then the rows are yielded: without a second path
\* of one file, and none at all once the cancel event is set.
Expose ==
    /\ stage = "expose"
    /\ shown' = buckets
    /\ \E kept \in [buckets -> SUBSET FoundPath] :
          /\ \A B \in buckets : kept[B] \in OnePerFile(B)
          /\ emitted' = IF stopped THEN {}
                        ELSE {S \in {kept[B] : B \in buckets} : Cardinality(S) > 1}
    /\ stage' = "convert"
    /\ UNCHANGED <<disk, switches, sized, buckets, stopped, answers, troubled, mishaps>>

\* What the engine makes of the groups: no protected path, no file that is gone,
\* and two files at least.
Converted(groupsShown, gone) ==
    {S \in {B \ (Fenced \cup gone) : B \in groupsShown} : Cardinality(S) > 1}

Convert ==
    /\ stage = "convert"
    /\ \E gone \in SUBSET UNION shown, late \in SUBSET shown :
          /\ Failing(gone)
          /\ CutShort(late, shown)
          /\ answers' = Converted(shown \ late, gone)
    /\ stage' = "done"
    /\ UNCHANGED <<disk, switches, sized, buckets, shown, emitted>>

-----------------------------------------------------------------------------
(* Meanwhile.                                                              *)

Scanning == stage \notin {"idle", "done"}

CancelFunnel ==
    /\ Scanning /\ ~stopped
    /\ stopped' = TRUE
    /\ UNCHANGED <<disk, switches, sized, buckets, stage, shown, emitted, answers,
                   troubled, mishaps>>

\* Some other program writes a file.
EditFile(f, b) ==
    /\ Scanning /\ mishaps < MaxMishaps /\ disk[f] # b
    /\ disk' = [disk EXCEPT ![f] = b]
    /\ troubled' = troubled \cup {f}
    /\ mishaps' = mishaps + 1
    /\ UNCHANGED <<switches, sized, buckets, stage, stopped, shown, emitted, answers>>

FunnelNext ==
    \/ \E opts \in OptionSets : Begin(opts)
    \/ GroupBySize \/ DropAliases \/ TierA \/ QuickHash \/ FullHash \/ Expose \/ Convert
    \/ CancelFunnel
    \/ \E f \in Original, b \in Blobs : EditFile(f, b)

FunnelSpec == FunnelInit /\ [][FunnelNext]_funnelVars

-----------------------------------------------------------------------------
(* Properties.                                                             *)

Sound(p) == ResolvesTo[p] \notin troubled

\* Of files nobody touched, a group holds such as agree in all that was read of
\* them: in everything after a deep verify, in both ends otherwise.
ShownAlike ==
    \A G \in shown \cup answers : \A p, q \in G :
        Sound(p) /\ Sound(q) =>
            IF "verify" \in switches THEN Blob(p) = Blob(q)
            ELSE Ends[Blob(p)] = Ends[Blob(q)]

Twins(p, q) == /\ ResolvesTo[p] # ResolvesTo[q]
               /\ Blob(p) = Blob(q) /\ Blob(p).size > 0

Aliases(p) == {q \in FoundPath : ResolvesTo[q] = ResolvesTo[p]}

\* A scan that ran to its end shows every two files that are the same, were
\* readable and untouched and are not protected, in one group.
TwinsShown ==
    (stage = "done" /\ ~stopped /\ "index_only" \notin switches) =>
        \A p, q \in FoundPath :
            (/\ Twins(p, q) /\ Sound(p) /\ Sound(q)
             /\ (Aliases(p) \cup Aliases(q)) \cap Fenced = {})
            => \E G \in answers : Aliases(p) \cap G # {} /\ Aliases(q) \cap G # {}

\* The funnel shows exactly the duplicates: none that its reads tell apart,
\* and all that are there, whatever the phases, the settings and the mishaps
\* of other files.
FunnelExact == ShownAlike /\ TwinsShown

\* pages/review_flow/trust_labels.py:12 writes "Verified byte-identical" over
\* every group of this engine (similarity_type "exact").
VerifiedByteIdentical ==
    \A G \in answers : \A p, q \in G : Sound(p) /\ Sound(q) => Blob(p) = Blob(q)

=============================================================================
