CONSTANTS
  T22 = 96
  T33 = 618
  T32_OK = 108
  T42_OK = 132
  Vector = 8
  Budget = 2048
  Shapes <- MCShapes
  Gaps <- MCGaps
  L = 8
  Products <- MCProducts
SPECIFICATION MCSpec
INVARIANTS ClassHonest LaneBudget CallsWellFormed PlanRight NothingTrampled
CHECK_DEADLOCK FALSE
