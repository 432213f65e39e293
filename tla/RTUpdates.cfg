\* one peer with two prefixes, so that a dump can hold one and not the other;
\* records up to a second late: dumps end, are cut short, overlap updates and
\* span the end of an interval.  The backlog reaches a second back.
SPECIFICATION USpec
CONSTANTS
    Peers = {p1}
    V4Pfxs = {a, b}
    V6Pfxs = {}
    c1 = c1
    Collectors = {c1}
    CollectorOf <- OneCollector
    DownStates = {"IDLE"}
    Backlog = 2
    MaxInactive = 1
    Deprecated = 2
    Interval = 2
    FirstTime = 4
    LastTime = 6
    MaxLag = 1
    Streams <- UpdatesAndRecords
CHECK_DEADLOCK FALSE
INVARIANTS
    TablesAgree
    NoMergeForgotten
    WithdrawalStands
    NothingOutlivesCorruption
PROPERTIES
    BacklogRule
SYMMETRY PfxSymmetry
