CONSTANTS
  e1 = e1
  e2 = e2
  e3 = e3
  c1 = c1
  c2 = c2
  Events = {e1, e2, e3}
  Callers = {c1, c2}
  BatchSize = 2
  DefaultRetries = 1
  MaxRetries = 1
SPECIFICATION Spec
PROPERTY TransientRetried
CHECK_DEADLOCK FALSE
