SPECIFICATION Spec
CONSTANTS
  m1 = m1
  m2 = m2
  Managers <- TwoManagers
  Lists <- TwoLists
  People <- TwoPeople
  Settings <- Setups
  Mails <- TwoMails
  Mailbags <- Mailbag
  First <- Listed
  MaxErrors = 0
  MaxReloads = 0
  MaxFaults = 0
PROPERTIES OptionsAreSealed
CHECK_DEADLOCK FALSE
