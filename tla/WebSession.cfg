CONSTANTS
  MaxTokens = 3
  MaxCalls = 3
  MaxReloads = 1
  Candidates = 2
SPECIFICATION Spec
INVARIANTS
  TypeOK
  RestsInAgreement
PROPERTIES
  Settles
  Kept
CHECK_DEADLOCK FALSE
