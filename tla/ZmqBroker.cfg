SPECIFICATION Spec
CONSTANTS
    MaxOutstanding = 1
    RequestRetries = 2
    RequestTimeout = 1
    Interval = 0
    Liveness = 2
    ReconnectMin = 1
    ReconnectMax = 2
    Linger = 1
    MaxViews = 2
    MaxPubs = 2
    MaxCrashes = 1
    MaxWire = 1
CHECK_DEADLOCK FALSE
INVARIANTS
    RoomForMaster
    NoneForgotten
    BoundedSends
PROPERTIES
    NothingHangs
    PipeDrains
