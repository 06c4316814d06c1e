------------------------------ MODULE MCFunnel ------------------------------
(* A bounded instance of the funnel: three files, one of them under two     *)
(* paths, the second in a protected folder.                                 *)
EXTENDS Funnel

MCFoundPath == {"x", "y", "z", "link"}
MCResolvesTo == [p \in MCFoundPath |-> IF p = "link" THEN "x" ELSE p]

Holding(n, f, s, r) ==
    [size |-> n, first |-> f, head |-> 0, second |-> s, tail |-> s, rest |-> r]

\* One content, one that differs from it in what the longer prefix and the quick
\* hash see, one in what only the full hash sees, one in its first bytes, and a
\* smaller file with the same ends.
MCBlobs == {Holding(2, 0, 0, 0), Holding(2, 0, 1, 0), Holding(2, 0, 0, 1),
            Holding(2, 1, 0, 0), Holding(1, 0, 0, 0)}

MCOptionSets == {{}, {"verify"}, {"adaptive", "verify"}, {"adaptive", "dedup"},
                 {"index_only"}}

=============================================================================
