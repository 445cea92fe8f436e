SPECIFICATION Spec
CONSTANTS
  w1 = w1  w2 = w2  s1 = s1  s2 = s2  s3 = s3
  Run = {r1}
  Worker <- TwoWorkers
  Slot <- TwoSlots
  Host <- OneEach
  Registered <- OnlyFirst
  Retries = 0
  FlowRetries = 0
  MaxLeases = 2
  Outcomes = {"ok", "error", "cancelled"}
  Env = {"cancel", "retry", "retryLive", "crash", "janitorCrash", "drain",
         "split", "dbError", "lostAck", "bus", "timeout", "renewError"}
  NoWorker = NoWorker
  NoRun = NoRun
INVARIANT NoStaleClaim
