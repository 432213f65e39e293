\* a corrupted record in the middle of a dump
SPECIFICATION DSpec
CONSTANTS
    Peers = {p1}
    V4Pfxs = {a, b}
    V6Pfxs = {}
    p1 = p1
    p2 = p2
    c1 = c1
    c2 = c2
    Collectors = {c1}
    CollectorOf <- OneCollector
    DownStates = {"IDLE"}
    Backlog = 1
    MaxInactive = 1
    Deprecated = 2
    Interval = 2
    FirstTime = 4
    LastTime = 6
    MaxLag = 0
    Streams <- OneStream
    Kinds = {"RIB", "CORRUPTED"}
CHECK_DEADLOCK FALSE
INVARIANT CorruptedDumpIsDropped
