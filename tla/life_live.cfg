SPECIFICATION FairSpec
CONSTANTS
  w1 = w1  w2 = w2  s1 = s1  s2 = s2  s3 = s3
  Run = {r1, r2}
  Worker <- TwoWorkers
  Slot <- TwoSlots
  Host <- OneEach
  Registered <- TwoWorkers
  Retries = 1
  FlowRetries = 0
  MaxLeases = 3
  Outcomes = {"ok", "error", "permanent"}
  Env = {"cancel", "crash", "janitorCrash", "dbError"}
  NoWorker = NoWorker
  NoRun = NoRun
PROPERTY RunsSettle
CHECK_DEADLOCK FALSE
