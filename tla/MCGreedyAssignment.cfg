SPECIFICATION Spec
CONSTANTS
  Sources <- MCSources
  Dests <- MCDests
  CrossPairs <- MCCrossPairs
  Inputs <- MCInputs
  AutoMatchThreshold = 90
  ReviewThreshold = 70
  MarginThreshold = 5
  ExactMatchFloor = 99
  CrossScriptAutoThreshold = 84
  MaxAlternativesPerSource = 5
  EmitUnmatched = TRUE
  CalibrationEnabled = FALSE
  CalibrationMap <- MCCalibration
INVARIANTS
  OneToOne
  LoserHasBetterWinner
  DecisionRuleHolds
  OutcomeIndependentOfArrival
