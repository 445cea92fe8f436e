SPECIFICATION FairSpec
CONSTANTS
  Name = {1, 2}
  Body = {1, 2}
  Repo = {"a"}
  Base = {"x", "y"}
  Reconciler = {"p1"}
  Request = {"q1"}
  MaxEdits = 3
  MaxFailures = 1
  Env = {"clone", "push", "ackLost", "dbError", "crash", "foreign", "overlap"}
INVARIANT SyncedIsInRepo
PROPERTY OnlyItsOwnFiles
PROPERTY Converges
CHECK_DEADLOCK FALSE
