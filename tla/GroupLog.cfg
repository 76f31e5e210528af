CONSTANTS
  alice = alice
  bob = bob
  m1 = m1
  m2 = m2
  m3 = m3
  Members = {alice}
  Msgs = {m1, m2}
  Keep = 1
  Page = 2
  MaxLog = 3
  MaxTime = 2
  MaxFaults = 1
  NoMsg = NoMsg
  Never = Never
CHECK_DEADLOCK FALSE
SPECIFICATION FairSpec
INVARIANTS DedupWindow ToldIdsRight
PROPERTIES ImplementsBroadcast FirstPageReaches
