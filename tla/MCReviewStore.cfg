SPECIFICATION Spec
CONSTANTS
  Pairs = {p1, p2}
  NoPair = none
  Handlers = {h1, h2}
  MaxSaves = 2
  MaxRequests = 3
SYMMETRY Symmetry
CHECK_DEADLOCK FALSE
INVARIANTS
  IndexIsCurrent
  DecisionsAreLogged
  UnracedLogTellsStory
PROPERTY
  OnlyAskedRowsChange
