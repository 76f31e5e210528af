CONSTANTS
  a = a
  b = b
  A = a
  B = b
  Ids = {1, 2, 3}
  Silent = {3}
  Author <- MCAuthor
  MaxCommands = 2
  MaxExtras = 0
SPECIFICATION FairSpec
CHECK_DEADLOCK FALSE
PROPERTIES HandshakeConcludes
