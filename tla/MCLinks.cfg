SPECIFICATION LinksSpec
CONSTANTS
  RingSize = 3
  LineSize = 3
  MaxBytes = 5
  WifiTimeout = 1
  WifiQueue = 4
  WifiSwitches = 2
  LoraPeriod = 3
  Radix = 3
  Word51 = 128
  DigitWeights <- MCDigitWeights
  OtherItems <- MCOtherItems
INVARIANTS
  LinesAreWhole
  LossIsReported
  UploadIsConfirmed
  LoraChipAgrees
  C51WireSaysItem
PROPERTIES
  RingIsFifo
  WifiMoves
  LoraTxEnds
