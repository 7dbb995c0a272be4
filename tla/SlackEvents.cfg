CONSTANTS
  m1 = m1
  Messages = {m1}
  MaxDeliveries = 2
  MaxRetries = 3
  MaxCrashes = 1
SPECIFICATION Spec
INVARIANTS
  TypeOK
  RepeatNeedsMiss
PROPERTIES
  Settles
  KeepsPromise
CHECK_DEADLOCK FALSE
