SPECIFICATION FairSpec
CONSTANTS
  l1 = l1  l2 = l2  p1 = p1  p2 = p2  p3 = p3
  Run = {r1}
  Leader = {l1, l2}
  Request = {p1, p2, p3}
  Retries = 0
  FlowRetries = 1
  MaxLeases = 6
  MaxFaults = 3
  Env = {"crash", "refuse", "timeout", "renewError", "renewFails", "requeue", "cancel"}
  Nobody = Nobody
  PushDispatch = PushDispatch
INVARIANT OneReceiver
INVARIANT ReceiverOwnsRun
PROPERTY VerdictIsFinal
PROPERTY RunsEnd
CHECK_DEADLOCK FALSE
