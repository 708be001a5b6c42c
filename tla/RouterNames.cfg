\* Three connections under one name: who is told the name is theirs?
CONSTANTS
    c1 = c1
    c2 = c2
    c3 = c3
    NoConn = NoConn
    Conns = {c1, c2, c3}
    Names = {"a"}
    NetNames = {"n"}
    NameOf <- SameNameOf
    NetOf <- OneNetOf
    Tasks = {t1}
    MaxStops = 0
SPECIFICATION Spec
INVARIANT NameExclusive
CHECK_DEADLOCK FALSE
