CONSTANTS
  n1 = n1
  n2 = n2
  p1 = p1
  p2 = p2
  Names = {n1, n2}
  Branches = {"main", "dev"}
  MainBranch = "main"
  Procs = {p1, p2}
  Requests <- MCRequests
  Size <- MCSize
  None = None
  Absent = Absent
  Empty = Empty
  Garbled = Garbled
SPECIFICATION Spec
INVARIANT HostedLocally
