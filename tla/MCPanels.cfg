SPECIFICATION PanelsSpec
CONSTANTS
  LongPress = 80
  HeldCap = 100
  HeldWidth = 128
  TempLow <- MCTempLow
  TempHigh = 1
  HumiHigh = 1
  AdcHigh = 1
  AdcStep = 2
  Defaults <- MCDefaults
  ByteWidth = 4
  WordWidth = 16
  Requests <- MCRequests
  OledPageCount = 3
  Glyphs <- MCGlyphs
  Torn <- MCTorn
  C51Keys <- MCC51Keys
  C51TempLow <- MCC51TempLow
  C51TempHigh = 1
  C51HumiHigh = 0
  C51AdcHigh = 1
  C51AdcStep = 2
  C51Defaults <- MCC51Defaults
  C51FirstReading <- MCC51FirstReading
  C51Climates <- MCC51Climates
  C51Soils <- MCC51Soils
  C51Backlog = 2
  Byte51 = 3
  Periods51 <- MCPeriods51
  DhtTask = 2
INVARIANTS
  AdjustIsAccepted
  OneStepPerHold
  OledPageIsCurrent
  C51PressIsSeen
  C51ThresholdsOrdered
  C51ReportIsTrue
  C51ScreenIsCurrent
PROPERTIES
  Debounced
  C51PressIsOnce
  C51DueOnTime
