\* two collectors with a peer each: a state message of one merges the dump of
\* the other, and a merge of one walks over the dump in progress of the other
SPECIFICATION DSpec
CONSTANTS
    Peers = {p1, p2}
    V4Pfxs = {a}
    V6Pfxs = {}
    p1 = p1
    p2 = p2
    c1 = c1
    c2 = c2
    Collectors = {c1, c2}
    CollectorOf <- TwoCollectors
    DownStates = {"IDLE"}
    Backlog = 1
    MaxInactive = 1
    Deprecated = 2
    Interval = 1
    FirstTime = 4
    LastTime = 5
    MaxLag = 0
    Streams <- OneStream
    Kinds = {"RIB", "STATE", "EMPTY"}
CHECK_DEADLOCK FALSE
INVARIANTS
    TablesAgree
    NoMixedRibs
SYMMETRY Swap
