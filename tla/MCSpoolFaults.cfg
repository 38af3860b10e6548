SPECIFICATION Spec
CONSTANTS
  m1 = m1
  m2 = m2
  r1 = r1
  n1 = n1
  n2 = n2
  c1 = c1
  c2 = c2
  a1 = a1
  Managers <- TwoManagers
  Receivers <- OneReceiver
  Incoming <- OneMessage
  CloneNames <- TwoClones
  MailNames <- OneMail
  MaxRcpts = 2
  MaxTries = 1
  MaxCrashes = 1
  MaxLost = 1
  Turns = {TRUE, FALSE}
  DnsFailures = TRUE
SYMMETRY Alike
CONSTRAINT OneTrouble
INVARIANTS SplitComplete AtMostOnce NoDoubleWork ArchiveComplete
PROPERTIES FinalBeforeMove NoRevival
CHECK_DEADLOCK FALSE
