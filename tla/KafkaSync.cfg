SPECIFICATION Spec
CONSTANTS
  Views <- MCViews
  V6 <- MCV6
  FilterV4 = 2
  FilterV6 = 1
  SyncInterval = 3
  FirstTime = 2
  MaxTime = 6
  MaxFaults = 1
  LosesQueue = FALSE
CHECK_DEADLOCK FALSE
INVARIANTS
    ReceivedIsSent
    FramesAsAnnounced
PROPERTIES
    FramesAreNewer
    SyncFramesArrive
