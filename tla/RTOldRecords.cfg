\* a record of the interval before, older than the RIB merged at its end
SPECIFICATION Spec
CONSTANTS
    Peers = {p1}
    V4Pfxs = {a}
    V6Pfxs = {}
    c1 = c1
    Collectors = {c1}
    CollectorOf <- OneCollector
    DownStates = {"IDLE"}
    Backlog = 1
    MaxInactive = 1
    Deprecated = 2
    Interval = 2
    FirstTime = 4
    LastTime = 6
    MaxLag = 2
    Streams <- OneStream
    Kinds = {"RIB", "PREFIX"}
CHECK_DEADLOCK FALSE
PROPERTY OldRecordsDiscarded
