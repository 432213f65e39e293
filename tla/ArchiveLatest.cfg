CONSTANTS
    Pfx <- MCPfx
    Peers <- MCPeers
    V6 = {"s"}
    DefaultRoutes = {"dflt"}
    Covers <- MCCovers
    MaskLen <- MCMaskLen
    PeerAsn <- MCPeerAsn
    SetSegs <- MCSetSegs
    FullFeedSize <- MCFullFeedSize
    WindowSize = 10
    AsnDigits <- MCAsnDigits
    PfxWindow = 10
    OutInterval = 10
    MinPfx4Len = 8
    MaxPfx4Len = 24
    VisMaskLen = 6
    SubpfxMode = "submoas"
    RoutedWindow = 10
    ReloadFreq = 10
    PeerId <- MCPeerId
    Jobs <- MCJobs
    FirstTime = 105
SPECIFICATION Spec
CHECK_DEADLOCK FALSE
INVARIANTS
    LatestIsComplete
