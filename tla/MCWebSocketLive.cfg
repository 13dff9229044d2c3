SPECIFICATION FairSpec
CONSTANTS
    c1 = c1
    c2 = c2
    ticker = ticker
    request = request
    Conns = {c1, c2}
    Ticker = ticker
    Requesters = {}
    None = None
    PeerStates <- SilentOrGone
    PingPeriod = 1
    PongWait = 2
    WriteWait = 1
PROPERTIES
    ReadErrorsRemove
    BroadcastsReturn
