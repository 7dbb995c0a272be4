CONSTANTS
  r1 = r1
  r2 = r2
  o1 = o1
  o2 = o2
  Replicas = {r1, r2}
  Roles = {o1, o2}
  MaxChanges = 3
  MaxFailures = 1
SPECIFICATION Spec
PROPERTIES
  ServesByHand
CHECK_DEADLOCK FALSE
