SPECIFICATION Spec
CONSTANTS
  b1 = b1  b2 = b2  none = none
  Batches = {b1, b2}
  NoBatch = none
  MaxRequests = 3
CHECK_DEADLOCK FALSE
INVARIANT LinkIsOfShownSource
