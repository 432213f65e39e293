\* add_pfx_peer may be called for a peer that is not in the view
SPECIFICATION SpecUnknown
CONSTANTS
    Peers = {p1, p2}
    V4Pfxs = {a, b}
    V6Pfxs = {c}
INVARIANT RemovedPeerHasNoPfxPeers
