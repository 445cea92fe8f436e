SPECIFICATION Spec
CONSTANTS
  q1 = q1  q2 = q2
  User = {"a", "b"}
  First = "a"
  Req <- TwoRequests
  Changes <- Bodies
  Ttl = 1
  MaxFailures = 2
  LockFor = 1
  MaxTime = 1
  MaxOps = 3
  MaxFaults = 1
  Env = {"listError", "revokeError", "abort"}
SYMMETRY Symmetry
INVARIANT SessionsAreCurrent
PROPERTY AdminRemains
PROPERTY EndedIsEnded
CHECK_DEADLOCK FALSE
