SPECIFICATION Spec
CONSTANTS
  r1 = r1  r2 = r2  a = a  b = b  c = c  d = d  link = link
  Uploads = {1, 2}
  Runs = {r1, r2}
  RowIds = {a, b, c, d}
  Links = {link}
  Outcomes <- MCOutcomes
  MaxFaults = 1
CHECK_DEADLOCK FALSE
INVARIANTS
  DatasetIsOneUpload
  LastSaveStands
  UnracedTableIsLastRun
  StatusTellsOutcome
  SnapshotsAreOfScored
PROPERTY RunsEnd
