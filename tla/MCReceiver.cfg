CONSTANTS
  Recipients = {r1, r2}
  MaxErrors = 3
  MaxSecond = 2
  Budget = 8
SPECIFICATION FairSpec
INVARIANTS
  QueuedEnvelope
  DoneIsQueued
PROPERTIES
  QueuedUnderLock
  SessionEnds
CHECK_DEADLOCK FALSE
