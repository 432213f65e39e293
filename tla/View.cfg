\* view: two peers, two IPv4 prefixes and an IPv6 prefix, so that a prefix can
\* be shared or not, lose one of two peers, and sit before or after another in
\* a walk; copy: a prefix of each version, so that the parent may hold leftovers
\* of either version and either peer; iterator: two IPv4 slots and an IPv6 slot,
\* so that a prefix without a match can come first, in the middle or last
SPECIFICATION MCSpec
CONSTANTS
    Peers = {p1, p2}
    V4Pfxs = {a, b}
    V6Pfxs = {c}
    CopyV4Pfxs = {a}
    N4 = 2
    N6 = 1
    NPeers = 2
SYMMETRY Symmetry
INVARIANTS
    CountersExact
    PfxStateFollowsPeers
    PfxPeersHavePeer
    GcFindsInvalid
    LoopsAgree
    VisitsOnceAndOnlyMatches
    WalkIsWalked
PROPERTIES
    ImplementsAbs
    ParentIsSnapshot
