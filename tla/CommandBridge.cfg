SPECIFICATION FairSpec
CONSTANTS
  NoRequest = NoRequest
  Requests = {ctrl, bad}
  Invalid = {bad}
  Misaddressed = {}
  KeepResults = 1
  MaxDeliveries = 3
  MaxFailures = 1
  MaxCrashes = 1
CHECK_DEADLOCK FALSE
INVARIANTS
  AtMostOnce
  SucceededIsAcked
  FailedIsNotAcked
PROPERTIES
  TerminalIsStable
  ReceivedEnds
