SPECIFICATION Spec
CONSTANTS
  q1 = q1  q2 = q2  q3 = q3
  Key = {k1}
  k1 = k1
  Req <- Requests
  KeyBodies <- OfKeys
  SettingBodies <- OfSettings
  PoolBodies <- OfPools
  Backlog = {0, 1, 10, 11}
  MaxTime = 1
  MaxOps = 3
  MaxFaults = 1
  Env = {"abort", "redis"}
  Absent = Absent
  Gone = Gone
  Null = Null
SYMMETRY Symmetry
INVARIANT RevokedIsRefused
INVARIANT PoolIsSound
INVARIANT RateIsBounded
PROPERTY SecretIsKept
CHECK_DEADLOCK FALSE
