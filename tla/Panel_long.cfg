SPECIFICATION Spec
CONSTANTS
  LongPress = 80
  HeldCap = 100
  HeldWidth = 128
  TempLow <- MCTempLow
  TempHigh = 1
  HumiHigh = 1
  AdcHigh = 1
  AdcStep = 2
  Defaults <- MCDefaults
  ByteWidth = 4
  WordWidth = 16
  Requests <- MCRequests
INVARIANTS
  LongPressLeaves
