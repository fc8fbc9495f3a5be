SPECIFICATION RemoteFairSpec
CONSTANTS
  Processes = {w1, w2}
  Commands <- MCOneCommand
  DeviceOf <- MCOneDevice
  MaxWebDisconnects = 0
  MaxWebCrashes = 0
  MaxLosses = 0
  MaxRepeats = 0
  MaxPending = 2
CHECK_DEADLOCK FALSE
PROPERTIES
  OutcomeIsRecorded
