\* Two reservations of one huge page each, the heap tier on hugetlb pages.
SPECIFICATION Spec
CONSTANTS
  SCRATCH_ALIGN = 2
  PAGE = 4
  OsPage = 4
  HugePage = 8
  StackReserve = 8
  HeapReserve = 8
  HugeTiers = {"heap"}
  ExplicitCommit = FALSE
  Sizes = {3, 4}
  MaxScopes = 2
  MaxBlocks = 2
INVARIANT ZeroAboveDirty
CHECK_DEADLOCK FALSE
