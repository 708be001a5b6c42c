---------------------------- MODULE MCReconnect ----------------------------
(* Small instances of module Reconnect. *)
EXTENDS Reconnect

\* A client with one connection that breaks, disposed by its user.
Client(auto, beat) ==
    [AutoReconnect |-> auto, Heartbeat |-> beat, disposes |-> TRUE,
     connects |-> 1, breaks |-> 1, failures |-> 0, overlaps |-> 1]

\* The same with two connections, without heartbeats: as many states as two
\* heartbeat senders add would not end.
Again == [Client(TRUE, FALSE) EXCEPT !.connects = 2]

\* Two connections: with a failure, with two callers of Dispose that meet, with a
\* user who disposes the client.  One connection: with heartbeats, without
\* reconnection.
EveryOption ==
    {[Again EXCEPT !.failures = 1, !.overlaps = 0, !.disposes = FALSE],
     [Again EXCEPT !.disposes = FALSE], [Again EXCEPT !.overlaps = 0], Client(TRUE, TRUE),
     [Client(FALSE, TRUE) EXCEPT !.failures = 1], [Client(FALSE, FALSE) EXCEPT !.failures = 1]}

\* The options of ReconnectTest.
AsTested == {[Client(TRUE, TRUE) EXCEPT !.overlaps = 0]}

=============================================================================
