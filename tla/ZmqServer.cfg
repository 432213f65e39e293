CONSTANTS
    Clients = {c1, c2}
    WdwLen = 2
    ItemTime = 2
    Timeout = 1
    Times <- MCTimes
    Interval = 1
    Liveness = 1
    TimeoutBeats = 1
SPECIFICATION Spec
SYMMETRY MCSymmetry

CHECK_DEADLOCK FALSE
INVARIANTS
    StoreAgrees
    NoTableLost
    SparedOnce
PROPERTIES
    NothingWaitsForTheGone
