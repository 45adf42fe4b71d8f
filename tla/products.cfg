SPECIFICATION MCSpec
CONSTANTS
  P = 7681
  U32 = 32768
  W = 4
  MaxLg = 9
  MinOperandCap = 700
  MixTopLg = 7
  MixMinLg = 2
  MixMaxLg = 8
  Sessions <- MCSessions
  L = 8
  B = 128
  H = 64
  Room = 64
  Shapes <- VectorShapes
  Patterns <- VectorPatterns
INVARIANTS
  ProductRight
  ExactFootprint
  MiddleRight
  CarryRight
  LazyRange
  ProductTruncated
  TailsContract
PROPERTIES
  SpectrumKept
CHECK_DEADLOCK FALSE
