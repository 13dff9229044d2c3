SPECIFICATION FairSpec
CONSTANTS
    c1 = c1
    c2 = c2
    ticker = ticker
    request = request
    Conns = {c1}
    Ticker = ticker
    Requesters = {}
    None = None
    PeerStates <- Stalled
    PingPeriod = 2
    PongWait = 3
    WriteWait = 1
PROPERTIES
    ReadErrorsRemove
