\* A random message and nothing else: who gets it?
CONSTANTS
    s1 = s1
    s2 = s2
    s3 = s3
    d1 = d1
    d2 = d2
    b1 = b1
    r1 = r1
    q1 = q1
    q2 = q2
    Clients = {s1, s2, s3}
    Messages = {r1}
    TypeOf <- OneTypeOf
    SenderOf <- OneSenderOf
    TargetOf <- OneTargetOf
    NoAck = {}
    Batches = {{r1}}
    MaxChurn = 0
SPECIFICATION Spec
CHECK_DEADLOCK FALSE
INVARIANT RandomReachesAnother
