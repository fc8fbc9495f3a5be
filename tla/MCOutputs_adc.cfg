SPECIFICATION OutputsSpec
CONSTANTS
  Width = 9
  Second = 1
  ServicePeriod = 1
  MaxDelay = 1
  MaxTtl <- MCMaxTtl
  TtlWidth = 3
  Ttls <- MCTtls
  BuzzerModes = {0, 1}
  MaxFields = 2
  DhtWeights <- MCDhtWeights
  DhtDecimals = {0, 3}
  Relays <- MCRelays
  Leds <- MCLeds
  Inputs <- MCInputs
  FineBits = 5
  CoarseWeights <- MCCoarseWeights
INVARIANT
  AdcInTenBits
