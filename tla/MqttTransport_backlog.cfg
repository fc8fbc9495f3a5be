SPECIFICATION FairSpec
CONSTANTS
  MaxRows = 3
  MaxEnqueues = 3
  PeekLimit = 3
  MaxDisconnects = 0
  MaxCrashes = 0
CHECK_DEADLOCK FALSE
PROPERTIES
  BacklogIsDelivered
