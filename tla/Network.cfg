\* Two messages race: a direct message and a broadcast of its sender, a direct message and a
\* broadcast of its receiver, two direct ones, a round robin message and a random or
\* another round robin one.  Clients come and go.
CONSTANTS
    s1 = s1
    s2 = s2
    s3 = s3
    d1 = d1
    d2 = d2
    b1 = b1
    r1 = r1
    q1 = q1
    q2 = q2
    Clients = {s1, s2, s3}
    Messages = {d1, d2, b1, r1, q1, q2}
    TypeOf <- SixTypeOf
    SenderOf <- SixSenderOf
    TargetOf <- SixTargetOf
    NoAck = {d2, q1, q2}
    Batches = {{d1, b1}, {d2, b1}, {d1, d2}, {r1, q1}, {q1, q2}}
    MaxChurn = 1
SPECIFICATION FairSpec
CHECK_DEADLOCK FALSE
INVARIANTS
    TypeOK
    FrameNamesReceiver
    ReplyBeforeDelivery
    StayersAreServed
    AtMostOnce
    RoundRobinBalanced
PROPERTIES
    EveryTaskEnds
    ImplementsDelivery
