CONSTANTS
  a = a
  b = b
  A = a
  B = b
  Ids = {1, 2, 3}
  Silent = {}
  Author <- MCAuthor
  MaxCommands = 2
  MaxExtras = 1
SPECIFICATION Spec
INVARIANTS TypeOK Consent ConvUsable NothingBeforeAck NoneStranded
PROPERTIES ImplementsConversation
CHECK_DEADLOCK FALSE
