SPECIFICATION Spec
CONSTANTS
  Runs = {r1, r2}
  NoRun = NoRun
  Anomalous = {r1}
  Batches = {b1}
  Settings <- MCSettings
  MaxSaves = 2
  Latencies = {0, 20}
CHECK_DEADLOCK FALSE
INVARIANTS
  TypeOK
  OneScheduledRun
  FlagFollowsRun
  StatusIsOfLastRun
  RepeatedOnlyUnheard
  MailIsBounded
PROPERTY
  SchedulerRecovers
