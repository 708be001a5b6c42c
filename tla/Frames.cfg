\* Two calls, a write in pieces, a timeout, a handler that blocks.
CONSTANTS
    c1 = c1
    c2 = c2
    Null = Null
    Calls = {c1, c2}
    MessageOf <- TwoMessages
    Libraries = {"cs", "cpp"}
    Chunks = {7}
    Window = 20
SPECIFICATION FairSpec
CHECK_DEADLOCK FALSE
INVARIANTS
    FramesIntact
PROPERTIES
    EveryFrameIsRead
    EveryCallEnds
