----------------------------- MODULE MCSettings -----------------------------
(***************************************************************************)
(* Three requests of any kind and one restart; an alias that the server    *)
(* knows by default and one that it does not.  Of the updates one is out   *)
(* of range and two are coherent with the defaults but not together.       *)
(***************************************************************************)
EXTENDS Settings, TLC

MCAliases == {"kbank", "acme"}
MCCanonicals == {"kasikornbank", "acme corp"}
MCSeed == [a \in MCAliases |-> IF a = "kbank" THEN "kasikornbank" ELSE Absent]
MCUpdates ==
  {[auto |-> 101], [auto |-> 80, cap |-> 0, cross |-> 0], [review |-> 84]}
Symmetry == Permutations(Requests)
=============================================================================
