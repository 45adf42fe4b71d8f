SPECIFICATION MCSpec
CONSTANTS
  L = 8
  B = 8192
  H = 8
  ByteBits = 2
  Factors <- MCFactors
  Stale = {0, 65535}
  Excess <- MCExcess
  FQ8 = 150
  MaxN = 40
  WordBits = 5
  Divisions <- MCDivisions
  Padding = {0, 1, 5}
INVARIANTS PackedRight DivremRight SbnRight
CHECK_DEADLOCK FALSE
