CONSTANTS
  q1 = q1
  c1 = c1
  Requests = {q1}
  Calls = {c1}
  MaxKeys = 2
  MaxFaults = 3
  MaxStops = 1
SPECIFICATION Spec
INVARIANTS
  TypeOK
  SilentStop
PROPERTIES
  CleanExit
  Settles
  KeepsPromise
CHECK_DEADLOCK FALSE
