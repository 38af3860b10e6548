SPECIFICATION Spec
CONSTANTS
  p1 = p1
  p2 = p2
  u1 = u1
  u2 = u2
  b1 = b1
  Procs <- TwoProcs
  Users <- TwoUsers
  Bad <- OneBad
  PageSize = 1
  MaxRows = 2
  MaxFaults = 1
INVARIANTS TypeOK CastIsSnapshot
CHECK_DEADLOCK FALSE
