CONSTANTS
  Fields <- MCFields
  DB = 16
  Programs <- MCHalvedPrograms
  Needs <- MCNeeds
  Align = 64
  Page = 32768
SPECIFICATION Spec
INVARIANTS
  PublicEntry
CHECK_DEADLOCK FALSE
