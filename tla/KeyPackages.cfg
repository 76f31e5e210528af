CONSTANTS
  alice = alice
  bob = bob
  f1 = f1
  f2 = f2
  k1 = k1
  k2 = k2
  k3 = k3
  k4 = k4
  Users = {alice, bob}
  Fetchers = {f1}
  Target <- MCTarget
  Kps = {k1, k2, k3}
  Batch = 2
  Base = 0
  ExtraBits = 2
  Window = 1
  Life = 2
  MaxTime = 2
  MaxNotices = 1
  MaxTries = 3
  NoKp = NoKp
  NoChallenge = NoChallenge
SPECIFICATION Spec
INVARIANTS GivenOnce ChallengeAge
PROPERTIES LastRowKept
SYMMETRY Symmetry
CHECK_DEADLOCK FALSE
