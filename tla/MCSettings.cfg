SPECIFICATION Spec
CONSTANTS
  Requests = {r1, r2, r3}
  Aliases <- MCAliases
  Canonicals <- MCCanonicals
  Absent = "absent"
  Seed <- MCSeed
  Mappings = {"default", "other"}
  DefaultMapping = "default"
  Updates <- MCUpdates
  Keep = "keep"
  MaxRestarts = 1
SYMMETRY Symmetry
CHECK_DEADLOCK FALSE
INVARIANTS
  ConfigIsCoherent
  AcknowledgedSurvives
  EngineUsesActive
