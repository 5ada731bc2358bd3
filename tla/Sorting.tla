------------------------------- MODULE Sorting -------------------------------
(***************************************************************************)
(* The sorts and the filters of slices that the code calls: sort.Slice     *)
(* with a function that says which of two elements comes first, and the    *)
(* loop that keeps the elements that pass.                                 *)
(***************************************************************************)
EXTENDS Integers, FiniteSets

\* The elements of S from the first to the last; earlier holds the pairs <<a, b>> of
\* which a comes first.  An element's place is one more than how many come before it.
InOrder(S, earlier) ==
  [n \in 1 .. Cardinality(S) |->
     CHOOSE x \in S : Cardinality({y \in S : <<y, x>> \in earlier}) = n - 1]

\* Numbers from the smallest to the largest.
Rising(S) == {e \in S \X S : e[1] < e[2]}

\* The elements of a sequence at the positions at, in their order.
Picked(seq, at) ==
  LET places == InOrder(at, Rising(at)) IN [n \in DOMAIN places |-> seq[places[n]]]
=============================================================================
