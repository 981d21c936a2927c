SPECIFICATION Spec
CONSTANTS
    a = a  b = b
    Last = 5
    Parents <- Merge
    FirstPin = 1
    Mapped = {1, 2, 3, 4, 5}
    Evidence = {"x", "y", "d", "z"}
    Documents = {"d"}
    Content <- Versions
    Suite = {"s", "t"}
    SuiteOf <- Suites
    Activity = {a, b}
    FirstStatus <- OneBegun
    Owner <- Owners
    Passed = {"x", "y"}
    CommandOf <- RanBy
    NoCommand = NoCommand
    Discovers = {"x"}
    Breaks <- Breaking
    Flaky = {3}
    Overrides = FALSE
    MaxProjects = 2
    MaxStatusChanges = 1
INVARIANTS
    TypeOK
    OutcomesAreTrue
    ReviewDecides
    ReportIsTrue
CHECK_DEADLOCK FALSE
