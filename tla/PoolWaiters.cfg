SPECIFICATION ReturningSpec
CONSTANTS
    c1 = c1  c2 = c2  c3 = c3
    p1 = p1  p2 = p2
    t1 = t1  t2 = t2
    k1 = k1  k2 = k2
    s1 = s1  s2 = s2
    Callers = {p1, p2}
    Tasks = {t1}
    Controllers = {k1}
    Conns = {c1, c2}
    NoConn = NoConn
    Services = {}
    NoService = NoService
    Purposes = {"other"}
    NoPurpose = NoPurpose
    NoTask = NoTask
    MaxPoolSize = 1
    MinPoolSize = 0
    MaxConnecting = 1
    MaxGeneration = 1
    WholeClears = TRUE
    Ageing = FALSE
PROPERTIES
    EveryWaiterIsAnswered
