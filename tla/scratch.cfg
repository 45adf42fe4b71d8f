\* Two small reservations: blocks of one and three cells go to the stack tier, of
\* five to the heap tier, so that alignment leaves gaps, requests straddle the
\* dirty mark, and both tiers run out.
SPECIFICATION Spec
CONSTANTS
  SCRATCH_ALIGN = 2
  PAGE = 4
  OsPage = 4
  HugePage = 8
  StackReserve = 6
  HeapReserve = 9
  HugeTiers = {}
  ExplicitCommit = TRUE
  Sizes = {1, 3, 5}
  MaxScopes = 2
  MaxBlocks = 2
INVARIANTS TypeOK ZeroAboveDirty BlocksIntact BlocksSeparate NoLeak LiveCommitted
PROPERTY ImplementsScopedStore
CHECK_DEADLOCK FALSE
