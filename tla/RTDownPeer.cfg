\* a peer in its first RIB goes down before the interval ends
SPECIFICATION Spec
CONSTANTS
    Peers = {p1}
    V4Pfxs = {a}
    V6Pfxs = {}
    c1 = c1
    Collectors = {c1}
    CollectorOf <- OneCollector
    DownStates = {"IDLE"}
    Backlog = 1
    MaxInactive = 1
    Deprecated = 2
    Interval = 2
    FirstTime = 4
    LastTime = 6
    MaxLag = 0
    Streams <- OneStream
    Kinds = {"RIB", "STATE"}
CHECK_DEADLOCK FALSE
PROPERTY DownPeerStaysDown
