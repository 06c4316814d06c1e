-------------------------------- MODULE Ordering --------------------------------
(***************************************************************************)
(* Lists of the members of a finite set: what sorting it by a key gives,   *)
(* and what a loop in the order of the numbers passes.                     *)
(***************************************************************************)
EXTENDS Integers, FiniteSets

(* The members of S, each after those that are before it.                   *)
Ordered(S, before) ==
  [k \in 1..Cardinality(S) |->
     CHOOSE x \in S : Cardinality({y \in S : <<y, x>> \in before}) = k - 1]

Ascending(S) == Ordered(S, {p \in S \X S : p[1] < p[2]})

=============================================================================
