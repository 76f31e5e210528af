CONSTANTS
  alice = alice
  bob = bob
  ka = ka
  k1 = k1
  k2 = k2
  Users = {alice, bob}
  Keys = {ka, k1, k2}
  AdminKey = ka
  MaxFaults = 2
  NoKey = NoKey
  NoUser = NoUser
  NoReq = NoReq
SPECIFICATION FairSpec
CHECK_DEADLOCK FALSE
INVARIANTS ApprovedKeyPackage MemberOrLate
PROPERTIES KeyStable MemberInTheEnd
