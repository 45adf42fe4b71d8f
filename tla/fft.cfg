CONSTANTS
  Fields <- MCFields
  DB = 16
  Programs <- MCPrograms
  Needs <- MCNeeds
  Align = 64
  Page = 32768
SPECIFICATION Spec
INVARIANTS
  PublicEntry
  PlanServes
  WorkspaceRight
  SizeRight
  SpectrumRight
  RoundTrip
  EmittersAgree
CHECK_DEADLOCK FALSE
