\* Every option, one break; a failure, a meeting in Dispose and a user who disposes
\* the client in turn.
CONSTANTS
    Options <- EveryOption
    MaxConnects = 2
SPECIFICATION FairSpec
CHECK_DEADLOCK FALSE
INVARIANTS
    TypeOK
    CancelledByOne
PROPERTIES
    DisposedStaysDisposed
    EveryBreakIsReported
    EveryTaskEnds
    EveryLossIsAnswered
