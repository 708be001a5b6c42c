------------------------------ MODULE MCFrames ------------------------------
(* Model checking of modules Frames and WireFormat. *)
EXTENDS Frames, TLC

CONSTANTS c1, c2

\* A broadcast without an acknowledgement and an error with a payload.
TwoMessages ==
    (c1 :> [type |-> 1, correlationId |-> <<200>>, reciever |-> Null,
            sender |-> <<2>>, noAck |-> TRUE, payload |-> Null])
    @@ (c2 :> [type |-> 7, correlationId |-> <<>>, reciever |-> <<3, 4>>,
               sender |-> Null, noAck |-> FALSE, payload |-> <<255, 0>>])

\* Fields around the lengths where a second byte of the length begins.
SomeFields == {Null} \union {[i \in 1..n |-> i % 256] : n \in {0, 1, 255, 256}}

\* A message of the C# library is read as it was written.
ASSUME RoundTrip ==
    \A t \in {0, 7}, c \in SomeFields, p \in SomeFields, a \in BOOLEAN :
        LET m == [type |-> t, correlationId |-> c, reciever |-> p, sender |-> c,
                  noAck |-> a, payload |-> p]
        IN  /\ IsBody(Body(m))
            /\ Parsed(Body(m)) = [type |-> t, correlationId |-> Filled(c),
                                  reciever |-> Filled(p), sender |-> Filled(c),
                                  noAck |-> a, payload |-> Filled(p)]
=============================================================================
