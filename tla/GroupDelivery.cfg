SPECIFICATION FairSpec
CONSTANTS
  Admin = admin
  Joiners = {a, b, c}
  Responders = {c}
  Openers = {a}
  Keep = 2
  Page = 2
  ValidIds = {"address", "mls"}
  NoOne = NoOne
  MaxFaults = 1
CHECK_DEADLOCK FALSE
INVARIANTS TypeOK WelcomeForTargetInTime  NewestInPage
PROPERTIES NeverBack CatchesUp
