\* Distinct keys, one name used in two networks; Stop and Start race Listen, Stop is
\* called twice (Stop, then Dispose).
CONSTANTS
    c1 = c1
    c2 = c2
    c3 = c3
    NoConn = NoConn
    Conns = {c1, c2, c3}
    Names = {"a", "b"}
    NetNames = {"n", "m"}
    NameOf <- SharedNameOf
    NetOf <- TwoNetOf
    Tasks = {}
    MaxStops = 2
SPECIFICATION Spec
CHECK_DEADLOCK FALSE
INVARIANTS
    AcceptedStaysRegistered
    StopLeavesAtMostOne
