--------------------------- MODULE MCReviewStore ---------------------------
(***************************************************************************)
(* Two pairs, two requests under way at a time, three requests in all and  *)
(* two saved runs: a request can be overtaken by another one and by a run. *)
(***************************************************************************)
EXTENDS ReviewStore, TLC

Symmetry == Permutations(Pairs) \cup Permutations(Handlers)
=============================================================================
