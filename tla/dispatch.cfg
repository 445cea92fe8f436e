SPECIFICATION Spec
CONSTANTS
  a = a  b = b  c = c  w1 = w1  w2 = w2  r1 = r1  r2 = r2
  Run <- TwoRuns
  Lane <- ThreeLanes
  Worker <- TwoWorkers
  Lanes <- ServedLanes
  Concurrency <- Slots
  Home <- AllInA
  Weight <- Weights
  Born <- BirthOrder
  Limit <- Limits
  NoLimit = NoLimit
  NoPin = NoPin
  Priorities = {101}
  MaxOps = 2
  MaxTime = 1
  MaxLeases <- LeaseBounds
INVARIANT SlotsSuffice
PROPERTY LimitIsKept
PROPERTY PauseWithholds
PROPERTY FrontIsFirst
PROPERTY ViewIsDispatchOrder
CHECK_DEADLOCK FALSE
