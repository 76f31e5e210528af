CONSTANTS
  alice = alice
  bob = bob
  m1 = m1
  m2 = m2
  m3 = m3
  Members = {alice}
  Msgs = {m1, m2, m3}
  Keep = 1
  Page = 2
  MaxLog = 3
  MaxTime = 0
  MaxFaults = 0
  NoMsg = NoMsg
  Never = Never
SPECIFICATION FairSpec
PROPERTIES EveryMessageReaches
CHECK_DEADLOCK FALSE
