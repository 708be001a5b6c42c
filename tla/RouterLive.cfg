\* Two connections that ask for one name, with fairness: refusals, evictions, dead
\* entries; Listen goes on and Stop ends it.
CONSTANTS
    c1 = c1
    c2 = c2
    c3 = c3
    NoConn = NoConn
    Conns = {c1, c2}
    Names = {"a"}
    NetNames = {"n"}
    NameOf <- PairNameOf
    NetOf <- PairNetOf
    Tasks = {t1}
    MaxStops = 1
SPECIFICATION FairSpec
INVARIANTS
    TypeOK
    DeadOnlyFromHandshake
    EvictedOnlyByNamesake
PROPERTIES
    EveryConnectionAccepted
    ListenEnds
CHECK_DEADLOCK FALSE
