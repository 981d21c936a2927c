SPECIFICATION Spec
CONSTANTS
    a = a  b = b
    Activity = {a, b}
    NoActivity = NoActivity
    Order <- AThenB
    RedGreen = {b}
    Additional = {b}
    Track = {"later"}
    NoTrack = NoTrack
    TrackOf <- LaterTrack
    Entry <- LaterEntry
    After <- LaterAfter
    Plan <- Edited
    FirstPlan <- Chain
    Operator = {"o"}
    PolicyBaseline = 1
    MaxEvidence <- OneAndTwo
    MaxReopenings = 1
    MaxCommits = 2
    MaxEdits = 1
INVARIANTS
    TypeOK
    OneActive
    CompletedIsProved
    StateIsCurrent
    NeverWedged
    NextCanStart
PROPERTIES
    CreditIsFresh
    EvidenceIsKept
CHECK_DEADLOCK FALSE
