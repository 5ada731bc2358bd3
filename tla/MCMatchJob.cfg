SPECIFICATION Spec
CONSTANTS
  Sources <- MCSources
  Dests <- MCDests
  CrossPairs <- MCCrossPairs
  Inputs <- MCInputs
  Batches <- MCBatches
  StrategyInputs <- Strategies
  Workers = {w1, w2}
  NoTask = NoTask
  ReportEvery = 2
  AutoMatchThreshold = 90
  ReviewThreshold = 70
  MarginThreshold = 5
  ExactMatchFloor = 99
  CrossScriptAutoThreshold = 84
  MaxAlternativesPerSource = 5
  EmitUnmatched = TRUE
  CalibrationEnabled = FALSE
  CalibrationMap <- MCCalibration
INVARIANTS
  EverySourceInOnePlace
  CompleteUnlessCancelled
  FinalReportMatchesOutcome
PROPERTIES
  NothingAfterFinalReport
  JobReturns
  ImplementsContract
