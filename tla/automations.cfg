SPECIFICATION FairSpec
CONSTANTS
  e1 = e1  e2 = e2
  Replica = {e1, e2}
  Def <- Definitions
  Outside <- OutsideNames
  BatchSize = 2
  MaxEvents = 3
  MaxTime = 1
  MaxFaults = 1
  Env = {"crash", "lapse", "actionFails", "touchFails", "late", "seqFails", "edit"}
INVARIANT OncePerProcess
INVARIANT Debounced
INVARIANT NothingElseIsSkipped
PROPERTY EventsAreEvaluated
CHECK_DEADLOCK FALSE
