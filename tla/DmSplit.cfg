CONSTANTS
  a = a
  b = b
  A = a
  B = b
  Ids = {1, 2, 3}
  Silent = {}
  Author <- MCAuthor
  MaxCommands = 2
  MaxExtras = 0
SPECIFICATION Spec
INVARIANT SameConversation
CHECK_DEADLOCK FALSE
