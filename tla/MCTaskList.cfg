SPECIFICATION Spec
CONSTANTS
  t1 = t1
  t2 = t2
  t3 = t3
  Null = Null
  Tasks <- ThreeTasks
  MaxPid = 3
  Wrap = 2
SYMMETRY Alike
INVARIANTS TypeOK ListIsChildren DeletedIsLeft
PROPERTIES IsQueue TermIsForChild
CHECK_DEADLOCK FALSE
