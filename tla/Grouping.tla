------------------------------ MODULE Grouping ------------------------------
(***************************************************************************)
(* How the engines other than the exact one make groups out of what they   *)
(* have read of each file: the photo engine over a BK-tree of hashes and a *)
(* union-find, the document and similar-folder engines over every pair and *)
(* a union-find, the video and music engines by a greedy pass, the burst   *)
(* engine by splitting the pictures of a folder at the pauses.             *)
(*                                                                         *)
(* What an engine reads of a file is a record of Contents:                 *)
(*   sig   the bits of its hash, frames, words or names: engines compare   *)
(*         how many of them differ, or what they have in common            *)
(*   aux   its second measure (difference hash, duration, time taken),     *)
(*         compared by the distance between two of them                    *)
(*   size  its bytes, and rank what the choice of the keeper looks at      *)
(*         first (pixels, format and bitrate, sharpness).                  *)
(* Two reads of one path give the same record; no read may also fail.      *)
(***************************************************************************)
EXTENDS Integers, Sequences, FiniteSets, SequencesExt, Ordering

CONSTANTS Under,      \* [root -> the paths the walk of it finds, in order]
          FolderOf,   \* [path -> the folder it is in]
          Chosen,     \* the sequences of roots the user may choose
          Protected,  \* the paths under a protected folder
          Contents,   \* what a file may hold
          Radius,     \* the most bits in which two alike signatures differ
          Tolerance,  \* the farthest two alike second measures may be apart
          MinBurst,   \* the fewest pictures of a burst
          MinFiles    \* the fewest names of a folder that is compared

\* The engines whose records are a dict by path: a path found twice is one key.
ByPath == {"similar_folder", "video", "music"}

ASSUME GroupingAssumption ==
    /\ \A rs \in Chosen : \A i \in DOMAIN rs : rs[i] \in DOMAIN Under
    /\ \A r \in DOMAIN Under : \A i \in DOMAIN Under[r] :
          Under[r][i] \in DOMAIN FolderOf
    /\ \A c \in Contents : IsFiniteSet(c.sig) /\ c.rank \in Nat
                           /\ c.aux \in Nat /\ c.size \in Nat \ {0}
    /\ Radius \in Nat /\ Tolerance \in Nat
    /\ MinBurst \in Nat \ {0} /\ MinFiles \in Nat

VARIABLES engine,   \* the engine that scans, "none" before the first
          todo,     \* the files it found and has not read yet
          records,  \* what it has read: [path, sig, aux, size, rank]
          tree,     \* the BK-tree: [signature -> [items, children]]
          uf,       \* the union-find: [parent, rank], over the records
          outer,    \* the record the comparison has reached
          grouped,  \* the records a greedy group has taken
          groups,   \* the groups found: [members, keepers]
          phase     \* "idle", "read", "compare", "build", "done"

groupingVars == <<engine, todo, records, tree, uf, outer, grouped, groups, phase>>

EmptyForest == [parent |-> <<>>, rank |-> <<>>]

GroupingInit ==
    /\ engine = "none" /\ todo = <<>> /\ records = <<>> /\ tree = <<>>
    /\ uf = EmptyForest /\ outer = 1 /\ grouped = {} /\ groups = <<>>
    /\ phase = "idle"

-----------------------------------------------------------------------------
(* Measures.                                                               *)

HammingDistance(s, t) == Cardinality((s \ t) \cup (t \ s))

Apart(x, y) == IF x < y THEN y - x ELSE x - y

\* Both sets empty are the same; otherwise what they share is at least Radius
\* short of everything they hold.
SharedEnough(s, t) == Cardinality(s \cap t) + Radius >= Cardinality(s \cup t)

\* No more than twice as big as the other.
SizesClose(a, b) == a.size <= 2 * b.size /\ b.size <= 2 * a.size

TimesClose(a, b) == Apart(a.aux, b.aux) <= Tolerance
SigsClose(a, b)  == HammingDistance(a.sig, b.sig) <= Radius

(* What each engine asks of two records.                                   *)
ImagesAlike(a, b)    == SigsClose(a, b) /\ TimesClose(a, b)
DocumentsAlike(a, b) == SigsClose(a, b)
FoldersAlike(a, b)   == SharedEnough(a.sig, b.sig)
VideosAlike(a, b)    == TimesClose(a, b) /\ SizesClose(a, b) /\ SigsClose(a, b)
\* An unknown duration, 0, closes nothing out.
SongsAlike(a, b)     == /\ (a.aux > 0 /\ b.aux > 0) => TimesClose(a, b)
                        /\ SigsClose(a, b)

-----------------------------------------------------------------------------
(* The union-find, with path compression and union by rank.                *)

Root(parent, x) ==
    LET up[y \in DOMAIN parent] == IF parent[y] = y THEN y ELSE up[parent[y]]
    IN  up[x]

Ancestors(parent, x) ==
    LET on[y \in DOMAIN parent] ==
          IF parent[y] = y THEN {} ELSE {y} \cup on[parent[y]]
    IN  on[x]

\* What find(x) leaves: everything on the way hangs from the root.
Found(forest, x) ==
    LET p   == forest.parent
        way == Ancestors(p, x)
        top == Root(p, x)
    IN  [forest EXCEPT !.parent = [y \in DOMAIN p |-> IF y \in way THEN top ELSE p[y]]]

Joined(forest, x, y) ==
    LET seen == Found(Found(forest, x), y)
        rx   == Root(seen.parent, x)
        ry   == Root(seen.parent, y)
    IN  IF rx = ry THEN seen
        ELSE IF seen.rank[rx] < seen.rank[ry]
        THEN [seen EXCEPT !.parent[rx] = ry]
        ELSE [seen EXCEPT !.parent[ry] = rx,
                          !.rank[rx] = IF seen.rank[rx] = seen.rank[ry]
                                       THEN @ + 1 ELSE @]

\* x joined with each of ys, in their order.
JoinedAll(forest, x, ys) ==
    LET upTo[k \in 0..Len(records)] ==
          IF k = 0 THEN forest
          ELSE IF k \in ys THEN Joined(upTo[k - 1], x, k) ELSE upTo[k - 1]
    IN  upTo[Len(records)]

Discrete(n) == [parent |-> [i \in 1..n |-> i], rank |-> [i \in 1..n |-> 0]]

-----------------------------------------------------------------------------
(* The BK-tree: a child hangs from its parent by its distance to it, and   *)
(* every node below that child is at that distance from the parent.        *)

Leaf(i) == [items |-> {i}, children |-> <<>>]

\* The node an addition of v ends at: v itself, or one with no child there.
LastNode(t, top, v) ==
    LET down[n \in DOMAIN t] ==
          LET d == HammingDistance(v, n)
          IN  IF n = v \/ d \notin DOMAIN t[n].children
              THEN n ELSE down[t[n].children[d]]
    IN  down[top]

Extended(f, key, value) ==
    [k \in DOMAIN f \cup {key} |-> IF k = key THEN value ELSE f[k]]

Planted(t, top, v, i) ==
    IF DOMAIN t = {} THEN Extended(t, v, Leaf(i))
    ELSE LET n == LastNode(t, top, v)
         IN  IF n = v THEN [t EXCEPT ![n].items = @ \cup {i}]
             ELSE Extended([t EXCEPT ![n].children = Extended(@, HammingDistance(v, n), v)],
                      v, Leaf(i))

\* Every record in the tree, in the order of the records; the first is the root.
Plant(rs) ==
    LET upTo[k \in 0..Len(rs)] ==
          IF k = 0 THEN <<>> ELSE Planted(upTo[k - 1], rs[1].sig, rs[k].sig, k)
    IN  upTo[Len(rs)]

\* Variant: the radius search leaves out the children at its upper bound.
QueryShort(t, top, v) ==
    LET hits[n \in DOMAIN t] ==
          LET d == HammingDistance(v, n)
          IN  (IF d <= Radius THEN t[n].items ELSE {})
              \cup UNION {hits[t[n].children[e]] :
                            e \in {e \in DOMAIN t[n].children :
                                     d - Radius <= e /\ e < d + Radius}}
    IN  hits[top]
Query(t, top, v) ==
    LET hits[n \in DOMAIN t] ==
          LET d == HammingDistance(v, n)
          IN  (IF d <= Radius THEN t[n].items ELSE {})
              \cup UNION {hits[t[n].children[e]] :
                            e \in {e \in DOMAIN t[n].children :
                                     d - Radius <= e /\ e <= d + Radius}}
    IN  hits[top]

-----------------------------------------------------------------------------
(* A scan.                                                                 *)

\* The walks of the roots in their order: overlapping roots list a file twice.
Walked(rs) == FlattenSeq([i \in DOMAIN rs |-> Under[rs[i]]])
Unprotected(ps) == SelectSeq(ps, LAMBDA p : p \notin Protected)

Scan(e, ps) ==
    /\ phase = "idle"
    /\ engine' = e /\ todo' = ps /\ phase' = "read"
    /\ UNCHANGED <<records, tree, uf, outer, grouped, groups>>

FindImages(rs)    == Scan("image", Unprotected(Walked(rs)))
FindDocuments(rs) == Scan("document", Unprotected(Walked(rs)))
WalkFolders(rs)   == Scan("similar_folder", Unprotected(Walked(rs)))
FindShots(rs)     == Scan("burst", Unprotected(Walked(rs)))
\* The video and music engines never look at what is protected.
FindVideos(rs)    == Scan("video", Walked(rs))
FindSongs(rs)     == Scan("music", Walked(rs))

Paths == {records[i].path : i \in DOMAIN records}

\* Can the engine compare it? A folder with too few names it cannot.
Eligible(c) == engine = "similar_folder" => Cardinality(c.sig) >= MinFiles

ReadOf(p, c) ==
    [path |-> p, sig |-> c.sig, aux |-> c.aux, size |-> c.size, rank |-> c.rank]

\* The first read of a path, and the later ones of a path listed twice.
Measure ==
    /\ phase = "read" /\ todo # <<>>
    /\ Head(todo) \notin Paths
    /\ \E c \in {c \in Contents : Eligible(c)} :
          records' = Append(records, ReadOf(Head(todo), c))
    /\ todo' = Tail(todo)
    /\ UNCHANGED <<engine, tree, uf, outer, grouped, groups, phase>>

MeasureAgain ==
    /\ phase = "read" /\ todo # <<>>
    /\ \E i \in DOMAIN records :
         /\ records[i].path = Head(todo)
         /\ records' = IF engine \in ByPath THEN records ELSE Append(records, records[i])
    /\ todo' = Tail(todo)
    /\ UNCHANGED <<engine, tree, uf, outer, grouped, groups, phase>>

\* The file cannot be read, or is too small or too short to compare.
Skip ==
    /\ phase = "read" /\ todo # <<>>
    /\ Head(todo) \notin Paths
    /\ todo' = SelectSeq(Tail(todo), LAMBDA p : p # Head(todo))
    /\ UNCHANGED <<engine, records, tree, uf, outer, grouped, groups, phase>>

Prepare ==
    /\ phase = "read" /\ todo = <<>>
    /\ phase' = IF records = <<>> THEN "done"
                ELSE IF engine = "burst" THEN "build" ELSE "compare"
    /\ tree' = IF engine = "image" /\ records # <<>> THEN Plant(records) ELSE tree
    /\ uf' = IF engine \in {"image", "document", "similar_folder"}
             THEN Discrete(Len(records)) ELSE uf
    /\ UNCHANGED <<engine, todo, records, outer, grouped, groups>>

Later == (outer + 1)..Len(records)

Advance ==
    /\ outer' = outer + 1
    /\ phase' = IF outer = Len(records) THEN "build" ELSE phase
    /\ UNCHANGED <<engine, todo, records, tree>>

\* The photo engine looks its record up in the tree and joins what it finds.
CompareImages ==
    /\ phase = "compare" /\ engine = "image"
    /\ LET near == Query(tree, records[1].sig, records[outer].sig)
       IN  uf' = JoinedAll(uf, outer,
                           {j \in near \cap Later : TimesClose(records[outer], records[j])})
    /\ Advance
    /\ UNCHANGED <<grouped, groups>>

\* These compare it with all the later ones.
JoinLater(js) ==
    /\ phase = "compare"
    /\ uf' = JoinedAll(uf, outer, js)
    /\ Advance
    /\ UNCHANGED <<grouped, groups>>

CompareDocuments ==
    /\ engine = "document"
    /\ JoinLater({j \in Later : DocumentsAlike(records[outer], records[j])})
CompareFolders ==
    /\ engine = "similar_folder"
    /\ JoinLater({j \in Later : FoldersAlike(records[outer], records[j])})

\* These take every free file that is like this one, if it is free itself.
TakeLater(js) ==
    /\ phase = "compare"
    /\ LET free == js \ grouped
       IN  IF outer \in grouped \/ free = {}
           THEN UNCHANGED <<grouped, groups>>
           ELSE /\ grouped' = grouped \cup free \cup {outer}
                /\ groups' = Append(groups, [members |-> free \cup {outer},
                                             keepers |-> {}])
    /\ Advance
    /\ UNCHANGED uf

CompareVideos ==
    /\ engine = "video"
    /\ TakeLater({j \in Later : VideosAlike(records[outer], records[j])})
CompareSongs ==
    /\ engine = "music"
    /\ TakeLater({j \in Later : SongsAlike(records[outer], records[j])})

-----------------------------------------------------------------------------
(* The groups and their keepers.                                           *)

Size(i) == records[i].size
Rank(i) == records[i].rank

Pairs == (DOMAIN records) \X (DOMAIN records)

\* The photo engine keeps the most pixels, then the most bytes. A picture whose
\* hashes come from the cache has no pixels: rank 0.
BetterPicture == {p \in Pairs : \/ Rank(p[1]) > Rank(p[2])
                                \/ Rank(p[1]) = Rank(p[2]) /\ Size(p[1]) > Size(p[2])}
BetterSong    == {p \in Pairs : Rank(p[1]) > Rank(p[2])}
Bigger        == {p \in Pairs : Size(p[1]) > Size(p[2])}

\* The first one that none of S beats.
Best(S, beats) ==
    CHOOSE i \in S : \A j \in S \ {i} :
        <<i, j>> \in beats \/ (<<j, i>> \notin beats /\ i < j)

One(S, k) == [members |-> S, keepers |-> {k}]

\* The photo and document engines mark every entry with the keeper's path.
OfPath(S, k) == [members |-> S,
                 keepers |-> {i \in S : records[i].path = records[k].path}]

Finish == /\ phase' = "done"
          /\ UNCHANGED <<engine, todo, records, tree, outer, grouped>>

\* get_groups, in the order in which the roots turn up; the single are dropped.
Clusters ==
    LET all   == DOMAIN uf.parent
        Of(i) == {j \in all : Root(uf.parent, j) = Root(uf.parent, i)}
        first == Ascending({i \in all : /\ Cardinality(Of(i)) > 1
                                        /\ \A j \in Of(i) : i <= j})
    IN  [n \in DOMAIN first |-> Of(first[n])]

GroupClusters(made) ==
    /\ phase = "build"
    /\ groups' = [n \in DOMAIN Clusters |-> made[Clusters[n]]]
    /\ uf' = FoldLeft(Found, uf, [n \in DOMAIN uf.parent |-> n])
    /\ Finish

GroupImages == /\ engine = "image"
               /\ GroupClusters([S \in ToSet(Clusters) |-> OfPath(S, Best(S, BetterPicture))])
GroupDocuments == /\ engine = "document"
                  /\ GroupClusters([S \in ToSet(Clusters) |-> OfPath(S, Best(S, Bigger))])
GroupFolders == /\ engine = "similar_folder"
                /\ GroupClusters([S \in ToSet(Clusters) |-> One(S, Best(S, Bigger))])

\* Files that are gone by now are left out, and the groups they leave too small.
GroupTaken(beats) ==
    /\ phase = "build"
    /\ \E gone \in SUBSET Paths :
         LET left == [n \in DOMAIN groups |->
                        {i \in groups[n].members : records[i].path \notin gone}]
             big  == Ascending({n \in DOMAIN groups : Cardinality(left[n]) > 1})
         IN  groups' = [n \in DOMAIN big |-> One(left[big[n]], Best(left[big[n]], beats))]
    /\ Finish
    /\ UNCHANGED uf

GroupVideos == engine = "video" /\ GroupTaken(Bigger)
GroupSongs  == engine = "music" /\ GroupTaken(BetterSong)

Folder(i) == FolderOf[records[i].path]

\* The first record of the folder of i: the folders are taken in that order.
Opener(i) == CHOOSE k \in DOMAIN records :
                Folder(k) = Folder(i) /\ \A l \in 1..(k - 1) : Folder(l) # Folder(i)

Taken(i, j) == records[i].aux < records[j].aux \/ (records[i].aux = records[j].aux /\ i < j)

\* Folder by folder, the pictures of each in the order they were taken.
Shots == Ordered(DOMAIN records,
                 {p \in Pairs : \/ Opener(p[1]) < Opener(p[2])
                                \/ Opener(p[1]) = Opener(p[2]) /\ Taken(p[1], p[2])})

\* The k-th begins a burst: the first of its folder, or one after a pause.
Pause(k) == k > 1 => \/ Folder(Shots[k]) # Folder(Shots[k - 1])
                     \/ records[Shots[k]].aux - records[Shots[k - 1]].aux > Tolerance

\* The pictures from the k-th to the next pause.
Burst(k) == {Shots[m] : m \in {m \in k..Len(Shots) : \A l \in (k + 1)..m : ~Pause(l)}}

\* The sharpest, or the biggest when none can be measured; the earliest of those.
BurstGroup(S) ==
    LET sharp == \E k \in S : Rank(k) > 0
        score == IF sharp THEN [k \in S |-> Rank(k)] ELSE [k \in S |-> Size(k)]
        beats == {p \in S \X S : \/ score[p[1]] > score[p[2]]
                                 \/ score[p[1]] = score[p[2]] /\ Taken(p[1], p[2])}
    IN  One(S, Best(S, beats))

GroupBursts ==
    /\ phase = "build" /\ engine = "burst"
    /\ LET bursts == Ascending({k \in DOMAIN Shots :
                                  /\ Pause(k)
                                  /\ Cardinality(Burst(k)) >= MinBurst
                                  /\ Cardinality(Burst(k)) >= 2})
       IN  groups' = [n \in DOMAIN bursts |-> BurstGroup(Burst(bursts[n]))]
    /\ Finish
    /\ UNCHANGED uf

GroupingNext ==
    \/ \E rs \in Chosen : \/ FindImages(rs) \/ FindDocuments(rs) \/ WalkFolders(rs)
                          \/ FindShots(rs) \/ FindVideos(rs) \/ FindSongs(rs)
    \/ Measure \/ MeasureAgain \/ Skip \/ Prepare
    \/ CompareImages \/ CompareDocuments \/ CompareFolders \/ CompareVideos \/ CompareSongs
    \/ GroupImages \/ GroupDocuments \/ GroupFolders \/ GroupVideos \/ GroupSongs
    \/ GroupBursts

-----------------------------------------------------------------------------
(* Properties.                                                             *)

Members == {groups[n].members : n \in DOMAIN groups}

\* The comparison of an engine with a union-find.
Alike(a, b) == CASE engine = "image"    -> ImagesAlike(a, b)
                 [] engine = "document" -> DocumentsAlike(a, b)
                 [] OTHER               -> FoldersAlike(a, b)

Meet(S, T) == \E i \in S, j \in T : Alike(records[i], records[j])

\* A chain of alike files is one group, and nothing else is: image_formats.py:454
\* ("If A~B and B~C, then {A, B, C} are in the same group").
ChainsGrouped ==
    engine \in {"image", "document", "similar_folder"} =>
        /\ \A S \in Members :
              /\ ~Meet(S, DOMAIN records \ S)
              /\ \A T \in (SUBSET S) \ {{}, S} : Meet(T, S \ T)
        /\ \A i \in DOMAIN records \ UNION Members : ~Meet({i}, DOMAIN records \ {i})

\* The pause between two pictures of a burst is never longer than the gap,
\* and a picture outside it is farther away, or the burst was too short.
BurstsWhole ==
    engine = "burst" =>
        \A S \in Members : \A j \in DOMAIN records :
            LET near == {i \in S : /\ FolderOf[records[i].path] = FolderOf[records[j].path]
                                   /\ Apart(records[i].aux, records[j].aux) <= Tolerance}
            IN  (j \in S) <=> (near # {})

\* A scan that is done has put every file in one group at most, every group
\* has two members and a keeper of one path, and the groups are the ones the
\* engine's comparison asks for: with the tree, the chains the plain
\* comparison of every pair gives, and for bursts no pause inside and no
\* close picture left outside.
GroupsAsCompared ==
    phase = "done" =>
        /\ \A m, n \in DOMAIN groups :
              m # n => groups[m].members \cap groups[n].members = {}
        /\ \A n \in DOMAIN groups :
              /\ Cardinality(groups[n].members) > 1
              /\ groups[n].keepers \subseteq groups[n].members
              /\ Cardinality({records[i].path : i \in groups[n].keepers}) = 1
        /\ ChainsGrouped
        /\ BurstsWhole

=============================================================================
