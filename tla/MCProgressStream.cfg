SPECIFICATION Spec
CONSTANTS
  Runs = {r1, r2}
  Tabs = {t1}
  Reports = {1}
  BufferSize = 2
CHECK_DEADLOCK FALSE
INVARIANTS
  ListedIsOpen
  NothingMissed
  LastWordIsTrue
  OldEndIgnored
PROPERTY
  PromptTabFinishes
