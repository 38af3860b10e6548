SPECIFICATION FairSpec
CONSTANTS
  t1 = t1
  t2 = t2
  t3 = t3
  Tasks <- ThreeTasks
  MaxProcs = 0
  MaxFaults = 1
INVARIANTS TypeOK ListIsChildren
PROPERTIES NoZombieStays SpoolingGoesOn
CHECK_DEADLOCK FALSE
