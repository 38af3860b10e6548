SPECIFICATION Spec
CONSTANTS
  u1 = u1
  u2 = u2
  u3 = u3
  a1 = a1
  a2 = a2
  r1 = r1
  r2 = r2
  c1 = c1
  Users <- ThreeUsers
  First <- OneListed
  Adders <- TwoAdders
  Removers <- TwoRemovers
  Copiers <- OneCopier
  PageSize = 2
  MaxFaults = 1
INVARIANTS TypeOK FileIsBook CopyIsWhole
CHECK_DEADLOCK FALSE
SYMMETRY Alike
CONSTRAINT Followed
