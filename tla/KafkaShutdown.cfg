SPECIFICATION Spec
CONSTANTS
  Members = {m1, m2}
  SyncInterval = 2
  FirstTime = 2
  MaxTime = 2
  MaxErrors = 1
  Gaps = FALSE
CHECK_DEADLOCK FALSE
PROPERTIES
    WorkersJoined
