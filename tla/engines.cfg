SPECIFICATION MCSpec
CONSTANTS
  Bits = 15
  Lanes = 8
  LimbBits = 16
  BaseLg = 2
  Primes <- MCPrimes
  TrunkBits <- MCTrunkBits
  NT_Z_LO = 60
  NT_Z_HI = 160
  P50_MAX_LG = 7
  P30Lanes = 16
  P30_MAX_LG = 4
  P30_MIN_OPERAND_CAP = 45
  Sessions <- MCSessions
  IntFields <- MCFields
  IntDB = 16
  IntSessions <- MCIntSessions
  Limits <- MCLimits
  Pfa7MinBranch = 8
  Cascade <- MCCascade
INVARIANTS
  NttProducts
  IntFftRight
CHECK_DEADLOCK FALSE
