SPECIFICATION FairSpec
CONSTANTS
  u1 = u1
  u2 = u2
  u3 = u3
  m1 = m1
  m2 = m2
  Users <- ThreeUsers
  Sender = u3
  Settings <- Setups
  MaxProcs = 2
  MaxHosts = 2
  Faults <- AllFaults
  MaxStalls = 1
  Retriers <- TwoManagers
  MaxTaken = 2
  MaxForkFails = 1
INVARIANTS TasksAreChildren NoDuplicate UnsubscribedGetsNothing
PROPERTY BroadcastEnds
CHECK_DEADLOCK FALSE
