SPECIFICATION FairSpec
CONSTANTS
    a = a  b = b  c = c
    s = s
    Addresses = {a, b}
    NoAddress = NoAddress
    SetNames = {s}
    NoName = NoName
    Core = a
    Seeds = {a}
    FirstMembers = {a, b}
    TheSet = s
    NoAnswer = NoAnswer
    MaxTerm = 1
    MaxConfig = 3
    MaxProcess = 2
    MaxFailures = 1
PROPERTIES
    Convergence
CHECK_DEADLOCK FALSE
