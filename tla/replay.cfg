SPECIFICATION Spec
CONSTANTS
  a = a  b = b  z = z  g = g  s1 = s1  s2 = s2
  Top = Top  Leaf = Leaf  Fan = Fan  Self = Self  Ping = Ping  Pong = Pong
  Dep = {Top, Leaf, Fan, Self, Ping, Pong}
  Tops = {Top, Fan, Self, Ping}
  Flow <- Flows
  Name = {a, b, z, g}
  MaxRuns = 4
  Slot = {s1, s2}
  Retries = 1
  MaxDepth = 2
  Env = {"crash", "dbError", "lostAck", "error", "split", "permanent", "suspend", "cancel", "retry"}
  MaxFaults = 1
  MaxWork = 3
  NoDep = NoDep
  NoSlot = NoSlot
  NoCache = NoCache
INVARIANT ReplayIsStable
INVARIANT SleepIsKept
INVARIANT OneChildPerCall
 
INVARIANT CyclesAreRefused
PROPERTY RecordedIsFinal
PROPERTY RunsEnd
CHECK_DEADLOCK FALSE
