SPECIFICATION Spec
CONSTANTS
  Members = {m1, m2}
  SyncInterval = 2
  FirstTime = 1
  MaxTime = 4
  MaxErrors = 1
  Gaps = FALSE
CHECK_DEADLOCK FALSE
INVARIANTS
    WorkersAsAsserted
    ViewIsQuiet
    Contributors
PROPERTIES
    ReceiveReturns
