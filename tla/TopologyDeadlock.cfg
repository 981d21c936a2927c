SPECIFICATION Spec
CONSTANTS
    x = x  y = y
    h = h
    Addresses = {x, y}
    NoAddress = NoAddress
    SetNames = {}
    NoName = NoName
    Start <- TwoSeeds
    Heard <- Cluster
    Failure <- Failed
    LastEntry = 2
    NoEntry = NoEntry
    Handlers = {h}
    NoWork = NoWork
    Nobody = Nobody
    Srv = Srv
    Closer = Closer
    PoolsConnect = TRUE
    MaxFailures = 1
    MaxRescans = 0
INVARIANTS
    CloseIsNotStuck
CHECK_DEADLOCK FALSE
