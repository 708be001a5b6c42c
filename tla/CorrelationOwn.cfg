\* An ask and a call without ack, each with an id of its own, and two lost connections.
CONSTANTS
    c1 = c1
    c2 = c2
    i1 = i1
    i2 = i2
    i3 = i3
    None = None
    Calls = {c1, c2}
    Ids = {i1, i2, i3}
    IdOf <- OwnIds
    Asks = {c1}
    NoAcks = {c2}
    MaxBreaks = 2
SPECIFICATION Spec
CHECK_DEADLOCK FALSE
INVARIANTS
    TypeOK
    OkMeansAccepted
    OkAskWasAnswered
    AnswersComplete
    OnMessageForMessages
