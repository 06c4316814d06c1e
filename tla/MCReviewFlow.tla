----------------------------- MODULE MCReviewFlow -----------------------------
(***************************************************************************)
(* Four files that one kind of scan takes for two pairs of copies and      *)
(* another for one group of four.                                          *)
(***************************************************************************)
EXTENDS ReviewFlow, TLC

CONSTANTS a, b, c, d

Pairs == {{a, b}, {c, d}}
Kinds == Pairs \cup {{a, b, c, d}}

(* The exchanges of files that make the same copies. *)
Symmetry == {f \in Permutations({a, b, c, d}) : {{f[p] : p \in s} : s \in Pairs} = Pairs}
===============================================================================
