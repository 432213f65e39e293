SPECIFICATION Spec
CONSTANTS
  Members = {m1, m2}
  SyncInterval = 3
  FirstTime = 3
  MaxTime = 6
  MaxErrors = 0
  Gaps = TRUE
CHECK_DEADLOCK FALSE
PROPERTY Skipped
