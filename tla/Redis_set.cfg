SPECIFICATION Spec
CONSTANTS
  Setups <- AllSetups
  MaxCalls = 3
  MaxDials = 3
INVARIANTS
  TypeOK
  RepliesMatch
  AckedApplied
  OnlyOurDatabase
PROPERTIES
  SetReturns
