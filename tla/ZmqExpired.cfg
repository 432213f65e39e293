CONSTANTS
    Clients = {c1, c2}
    WdwLen = 2
    ItemTime = 2
    Timeout = 1
    Times <- MCTimes
    Interval = 1
    Liveness = 1
    TimeoutBeats = 1
SPECIFICATION ExpiredSpec

CHECK_DEADLOCK FALSE
PROPERTY NeverProcessedAgain
