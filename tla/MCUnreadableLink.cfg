\* Ends after one problem: there is nothing left to do.
CHECK_DEADLOCK FALSE
SPECIFICATION Spec
CONSTANTS
  t1 = t1
  t2 = t2
  tiny = tiny
  NoTerm = NoTerm
  NoKey = NoKey
  Failed = Failed
  Terms = {t1}
  Texts <- MCTexts
  Lowered <- MCLowered
  Collated <- MCCollated
  Microsecond = 2
  ShortTokens = {tiny}
  DefaultResultsPageSize = 2
  MaxResultsPageSize = 3
  MaxResultsPage = 4
  IngestPageSize = 2
  DefaultLimit = 1
  MaxLimit = 3
  DefaultMaxRecords = 5
  CapFrom = 3
  PostingPercent = 50
  AbsoluteCeiling = 3
  FitThresholdObservations = 3
  MinCalibrationObservations = 2
  HoldoutEvery = 5
  PageProblems <- AllPageProblems
  JobProblems <- AllJobProblems
  IngestProblems <- AllIngestProblems
  CandidateProblems <- AllCandidateProblems
  LabelProblems <- AllLabelProblems
INVARIANT CountedRowsAreShown
