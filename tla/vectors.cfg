SPECIFICATION MCSpec
CONSTANTS
  L = 2
  B = 8
  H = 4
  MaxLimbs = 5
  Digits = {0, 7}
  Words <- LaneWords
  Lengths = {1, 3, 4}
  CarriesIn <- SmallCarries
  D3LogL = 2
  D3Bits = 2
  D3Unroll = 2
  D3Lengths = {1, 2, 3, 4, 5, 6, 7, 8, 9, 10, 11, 12, 13}
  D3Digits = {0, 1, 2, 3}
INVARIANTS CarryResultRight Accounted Footprint QuotientOfPrefix
CHECK_DEADLOCK FALSE
