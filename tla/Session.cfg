SPECIFICATION SessionSpec
CONSTANTS
  u = u
  v = v
  PeerTags = {11}
  GroupTags = {12, 13}
  AppTags <- MCAppTags
  LegacyTags = {11}
  Names = {u, v}
  Gids = {g}
  AppKeys <- MCAppKeys
  Limit = 1
  Window = 1
  TTL = 1
  MaxAsks = 3
  MaxPeerAsks = 2
  MaxTime = 1
INVARIANTS TypeOK ToldStands RaceEnds StoredKeyInTime HeardInTime
CONSTRAINT NotExcused
CHECK_DEADLOCK FALSE
SYMMETRY Symmetry
