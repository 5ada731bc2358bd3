----------------------------- MODULE MCMatchJob -----------------------------
(***************************************************************************)
(* Two workers and up to three sources that compete for two destinations,  *)
(* reports after every second source.  The first score function makes two  *)
(* sources contest a destination and leaves the third without candidates;  *)
(* the second gives every source two candidates.                           *)
(***************************************************************************)
EXTENDS MatchJob

MCSources == {1, 2, 3}
MCDests   == {1, 2}
MCCrossPairs == {<<3, 1>>}
MCCalibration == [x \in 0..100 |-> x]
MCInputs  == {<<<<95, 0>>, <<92, 80>>, <<0, 0>>>>, <<<<92, 90>>, <<100, 72>>, <<85, 100>>>>}
MCBatches == {{}, {1, 2, 3}}
=============================================================================
