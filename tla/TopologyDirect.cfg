SPECIFICATION FairSpec
CONSTANTS
    x = x  y = y
    h = h
    Addresses = {x}
    NoAddress = NoAddress
    SetNames = {}
    NoName = NoName
    Start <- Direct
    Heard <- OneServer
    Failure <- Failed
    LastEntry = 1
    NoEntry = NoEntry
    Handlers = {h}
    NoWork = NoWork
    Nobody = Nobody
    Srv = Srv
    Closer = Closer
    PoolsConnect = TRUE
    MaxFailures = 3
    MaxRescans = 0
PROPERTIES
    CloseEnds
    PoolsRecover
CHECK_DEADLOCK FALSE
