SPECIFICATION Spec
CONSTANTS
    x = x  y = y
    h = h
    Addresses = {x, y}
    NoAddress = NoAddress
    SetNames = {}
    NoName = NoName
    Start <- TwoSeeds
    Heard <- Cluster
    Failure <- Failed
    LastEntry = 3
    NoEntry = NoEntry
    Handlers = {}
    NoWork = NoWork
    Nobody = Nobody
    Srv = Srv
    Closer = Closer
    PoolsConnect = TRUE
    MaxFailures = 1
    MaxRescans = 1
INVARIANTS
    TypeOK
    ServersMatchDescription
    DescriptionKnowsGenerations
    NoPoolIsDropped
    EveryServerIsMonitored
SYMMETRY Either
CHECK_DEADLOCK FALSE
