------------------------- MODULE MCGreedyAssignment -------------------------
(***************************************************************************)
(* Three sources that compete for two destinations, under the default      *)
(* thresholds.  Every score is one of five levels: not a candidate, review *)
(* only, two within the margin above the automatic threshold, exact; the   *)
(* third source is not a candidate, at the threshold or exact.             *)
(***************************************************************************)
EXTENDS GreedyAssignment

MCSources == {1, 2, 3}
MCDests   == {1, 2}
MCCrossPairs == {<<3, 1>>}
MCInputs  ==
  {f \in [MCSources -> [MCDests -> {0, 85, 90, 94, 100}]] :
     \A d \in MCDests : f[3][d] \in {0, 90, 100}}
MCCalibration == [x \in 0..100 |-> x]
=============================================================================
