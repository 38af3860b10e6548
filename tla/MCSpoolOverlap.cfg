SPECIFICATION FairSpec
CONSTANTS
  m1 = m1
  m2 = m2
  r1 = r1
  n1 = n1
  n2 = n2
  c1 = c1
  c2 = c2
  a1 = a1
  Managers <- TwoManagers
  Receivers <- OneReceiver
  Incoming <- OneMessage
  CloneNames <- NoNames
  MailNames <- OneMail
  MaxRcpts = 1
  MaxTries = 0
  MaxCrashes = 0
  MaxLost = 1
  Turns = {TRUE}
  DnsFailures = FALSE
PROPERTIES FollowsLifecycle 
CHECK_DEADLOCK FALSE
