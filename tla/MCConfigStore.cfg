SPECIFICATION ConfigSpec
CONSTANTS
  a1 = a1
  a2 = a2
  Admins <- TwoAdmins
  Sched = "scheduler"
  Kinds <- AllKinds
  Keys <- TheKeys
  Given <- Guards
  Passing <- ThisRun
  Home <- Homes
  Reads <- TheReads
  Initial <- Firsts
  Edits <- TheEdits
  MaxFaults = 1
  MaxVersion = 2
SYMMETRY Alike
CONSTRAINT Bounded
INVARIANTS ConfigTypeOK 
 
