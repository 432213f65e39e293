\* a dump whose last record is the only record of the last interval
SPECIFICATION Spec
CONSTANTS
    Peers = {p1}
    V4Pfxs = {a}
    V6Pfxs = {}
    c1 = c1
    Collectors = {c1}
    CollectorOf <- OneCollector
    DownStates = {"IDLE"}
    Backlog = 1
    MaxInactive = 1
    Deprecated = 2
    Interval = 2
    FirstTime = 4
    LastTime = 6
    MaxLag = 0
    Streams <- OneStream
    Kinds = {"RIB"}
CHECK_DEADLOCK FALSE
INVARIANT FinalIntervalIsWritten
