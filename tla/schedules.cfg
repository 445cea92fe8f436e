SPECIFICATION Spec
CONSTANTS
  d1 = d1  r1 = r1  r2 = r2
  Dep = {d1}
  Replica = {r1, r2}
  Kind <- Kinds
  Ttl = 1
  Lookahead = 3
  MaxPerCycle = 2
  MaxTime = 4
  MaxOps = 2
  MaxFaults = 1
  NoReplica = NoReplica
SYMMETRY Symmetry
INVARIANT OneRunPerInstant
INVARIANT OverlapIsSlow
INVARIANT MissedOnlyInOutage
CHECK_DEADLOCK FALSE
