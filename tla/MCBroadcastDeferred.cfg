SPECIFICATION Spec
CONSTANTS
  u1 = u1
  u2 = u2
  u3 = u3
  m1 = m1
  m2 = m2
  Users <- ThreeUsers
  Sender = u3
  Settings <- Defaults
  MaxProcs = 2
  MaxHosts = 2
  Faults <- NoFaults
  MaxStalls = 0
  Retriers <- Nobody
  MaxTaken = 2
  MaxForkFails = 0
INVARIANT DeferredIsKept
CHECK_DEADLOCK FALSE
