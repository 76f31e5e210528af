CONSTANTS
  alice = alice
  bob = bob
  a1 = a1
  b1 = b1
  b2 = b2
  m1 = m1
  m2 = m2
  Users <- MCUsers
  Tags <- MCTags
  Owner <- MCOwner
  Ids <- MCIds
  CountsSurbs = TRUE
  MaxSurbs = 2
  PerRequest = 2
  PerPing = 2
  TTL = 1
  MaxTime = 0
  MaxFaults = 1
  NoTag = NoTag
  NoUser = NoUser
  NoMsg = NoMsg
  NoId = NoId
SPECIFICATION Spec
SYMMETRY Symmetry
CHECK_DEADLOCK FALSE
INVARIANTS Accounted DeliveredToOwner DuplicatesNeedFaults
PROPERTIES ImplementsMailbox
