\* Three messages, two receive loops, both queues, every strategy, sizes up to two and no bound.
CONSTANTS
    m1 = m1
    m2 = m2
    m3 = m3
    Messages = {m1, m2, m3}
    Sizes <- SmallSizes
    Loops = 2
SPECIFICATION FairSpec
CHECK_DEADLOCK FALSE
INVARIANTS
    TypeOK
    TakenInOrder
    NewestIsKept
    OnlyWaitPilesUp
    AtMostOneUnsent
PROPERTIES
    SendQueueMoves
    ReceiveLoopMoves
