SPECIFICATION Spec
CONSTANTS
  w1 = w1  w2 = w2  s1 = s1  s2 = s2  s3 = s3
  Run = {r1, r2}
  Worker <- TwoWorkers
  Slot <- ThreeSlots
  Host <- SlotHost
  Registered <- TwoWorkers
  Retries = 0
  FlowRetries = 0
  MaxLeases = 2
  Outcomes = {"ok", "error", "suspend", "cancelled"}
  Env = {"cancel", "retry", "crash", "janitorCrash", "dbError"}
  NoWorker = NoWorker
  NoRun = NoRun
SYMMETRY Symmetry
INVARIANT AtMostOneExecutor
INVARIANT CancelReachesExecutor
PROPERTY CancelStopsStart
PROPERTY TerminalIsFinal
PROPERTY RefinesContract
