SPECIFICATION Spec
CONSTANTS
    c1 = c1  c2 = c2  c3 = c3
    p1 = p1  p2 = p2
    t1 = t1  t2 = t2
    k1 = k1  k2 = k2
    s1 = s1  s2 = s2
    Callers = {p1}
    Tasks = {t1, t2}
    Controllers = {k1}
    Conns = {c1, c2}
    NoConn = NoConn
    Services = {s1, s2}
    NoService = NoService
    Purposes = {"other"}
    NoPurpose = NoPurpose
    NoTask = NoTask
    MaxPoolSize = 2
    MinPoolSize = 2
    MaxConnecting = 1
    MaxGeneration = 1
    WholeClears = FALSE
    Ageing = TRUE
SYMMETRY Symmetry
INVARIANTS
    AvailableAreUsable
