SPECIFICATION FairSpec
CONSTANTS
  NoRequest = NoRequest
  Requests = {ctrl}
  Invalid = {}
  Misaddressed = {}
  KeepResults = 1
  MaxDeliveries = 1
  MaxFailures = 1
  MaxCrashes = 0
CHECK_DEADLOCK FALSE
PROPERTIES
  ReceivedIsFollowed
