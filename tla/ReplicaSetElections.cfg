SPECIFICATION FairSpec
CONSTANTS
    a = a  b = b  c = c
    s = s
    Addresses = {a, b, c}
    NoAddress = NoAddress
    SetNames = {s}
    NoName = NoName
    Core = a
    Seeds = {a}
    FirstMembers = {a, b, c}
    TheSet = s
    NoAnswer = NoAnswer
    MaxTerm = 2
    MaxConfig = 1
    MaxProcess = 1
    MaxFailures = 1
PROPERTIES
    NeverAnOlderPrimary
    Convergence
CHECK_DEADLOCK FALSE
