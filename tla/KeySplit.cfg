SPECIFICATION Spec
CONSTANTS
  MaxLength = 12
  MaxStorages = 5
INVARIANTS
  SplitIsExact
  Balanced
  JoinedIsKey
