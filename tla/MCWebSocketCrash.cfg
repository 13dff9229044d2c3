SPECIFICATION Spec
CONSTANTS
    c1 = c1
    c2 = c2
    ticker = ticker
    request = request
    Conns = {c1}
    Ticker = ticker
    Requesters = {}
    None = None
    PeerStates <- AllPeers
    PingPeriod = 2
    PongWait = 3
    WriteWait = 1
INVARIANTS
    DaemonSurvives
