SPECIFICATION RemoteSpec
CONSTANTS
  Processes = {w1, w2}
  Commands <- MCCommands
  DeviceOf <- MCDeviceOf
  MaxWebDisconnects = 0
  MaxWebCrashes = 0
  MaxLosses = 0
  MaxRepeats = 0
  MaxPending = 2
CHECK_DEADLOCK FALSE
INVARIANTS
  FailedIsUnsent
