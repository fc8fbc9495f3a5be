SPECIFICATION HostsSpec
CONSTANTS
  MaxRows = 2
  MaxEnqueues = 4
  PeekLimit = 2
  MaxDisconnects = 1
  MaxCrashes = 1
  Callers = {caller1, caller2}
  MaxLeavings = 1
  MaxOpens = 1
  Publishers = {worker, ingest}
  Streams = {stream1}
  MaxRevisions = 4
  Processes = {w1, w2}
  Commands <- MCCommands
  DeviceOf <- MCDeviceOf
  MaxWebDisconnects = 1
  MaxWebCrashes = 1
  MaxLosses = 1
  MaxRepeats = 1
  MaxPending = 2
CHECK_DEADLOCK FALSE
INVARIANTS
  NoSilentLoss
  FirstDeliveryInOrder
  FlaskAnswerIsOwn
  StoreNewestIsSeen
  Audited
  OutcomeIsTrue
  QueuedIsHandled
PROPERTIES
  SpecSpool
  EvictionIsJustified
