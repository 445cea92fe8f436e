SPECIFICATION Spec
CONSTANTS
  w1 = w1  w2 = w2  s1 = s1  s2 = s2  s3 = s3
  Run = {r1}
  Worker <- TwoWorkers
  Slot <- ThreeSlots
  Host <- SlotHost
  Registered <- TwoWorkers
  Retries = 1
  FlowRetries = 0
  MaxLeases = 4
  Outcomes = {"ok", "error", "suspend", "cancelled"}
  Env = {"overtake"}
  NoWorker = NoWorker
  NoRun = NoRun
INVARIANT AtMostOneExecutor
CHECK_DEADLOCK FALSE
