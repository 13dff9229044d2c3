SPECIFICATION Spec
CONSTANTS
    c1 = c1
    c2 = c2
    ticker = ticker
    request = request
    Conns = {c1, c2}
    Ticker = ticker
    Requesters = {request}
    None = None
    PeerStates <- StalledOrGone
    PingPeriod = 1
    PongWait = 2
    WriteWait = 1
SYMMETRY ConnSymmetry
INVARIANTS
    TypeOK
    RegistryIsOpen
    HeartbeatKeepsReading
PROPERTIES
    BroadcastsAreRounds
    OnlyStalledPeersHoldTheRegistry
