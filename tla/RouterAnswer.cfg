\* What is the first frame a client gets?
CONSTANTS
    c1 = c1
    c2 = c2
    c3 = c3
    NoConn = NoConn
    Conns = {c1, c2}
    Names = {"a"}
    NetNames = {"n"}
    NameOf <- PairNameOf
    NetOf <- PairNetOf
    Tasks = {t1}
    MaxStops = 0
SPECIFICATION Spec
INVARIANT AnswerComesFirst
CHECK_DEADLOCK FALSE
