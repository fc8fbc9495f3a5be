SPECIFICATION Spec
CONSTANTS
  MaxRows = 4
  MaxEnqueues = 6
  PeekLimit = 4
  MaxDisconnects = 0
  MaxCrashes = 0
CHECK_DEADLOCK FALSE
PROPERTIES
  RetainedIsLatest
