SPECIFICATION FairSpec
CONSTANTS
  m1 = m1
  m2 = m2
  Managers <- TwoManagers
  Lists <- TwoLists
  People <- TwoPeople
  Settings <- Setups
  Mails <- TwoMails
  Mailbags <- Mailbag
  First <- Listed
  MaxErrors = 0
  MaxReloads = 1
  MaxFaults = 1
INVARIANTS TypeOK LostOnlyInReload CastWasEntitled
PROPERTIES ChangesAreEntitled MailsSettle
CHECK_DEADLOCK FALSE
