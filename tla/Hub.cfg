\* An ask and a lost connection; Peer joins or leaves twice.
CONSTANTS
    c1 = c1
    i1 = i1
    Me = Me
    Peer = Peer
    None = None
    Calls = {c1}
    Ids = {i1}
    IdOf <- OneId
    Asks = {c1}
    NoAcks = {}
    MaxBreaks = 1
    MaxChurn = 2
SPECIFICATION FairSpec
CHECK_DEADLOCK FALSE
PROPERTIES
    ImplementsCorrelation
    NoTimeoutNeeded
    AckedIsForwarded
