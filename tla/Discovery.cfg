SPECIFICATION Spec
CONSTANTS
    a = a  b = b
    s = s  t = t
    Addresses = {a, b}
    NoAddress = NoAddress
    SetNames = {s, t}
    NoName = NoName
    Heard <- MCHeard
    Starts <- MCStarts
    MaxGeneration = 1
INVARIANTS
    TypeOK
    AtMostOnePrimary
    ServersFitTopology
    MembersAreOfTheSet
    PrimaryIsNewest
PROPERTIES
    TypeIsForGood
