CONSTANTS
  m1 = m1
  Messages = {m1}
  MaxRetries = 3
SPECIFICATION Spec
INVARIANTS
  TypeOK
  DuplicatesAreLost
PROPERTIES
  Ends
  KeepsPromise
CHECK_DEADLOCK FALSE
