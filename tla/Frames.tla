------------------------------- MODULE Frames -------------------------------
(***************************************************************************)
(* One direction of a TCP connection, byte by byte: callers of SendAsync   *)
(* on one side, the receive loop on the other (InternalHubNetworkClient.cs *)
(* 260-289, TcpClient.cs), or callers of send_internal of the C++ library  *)
(* on the sending side (hub_network_client.hpp).                           *)
(*                                                                         *)
(* A write hands its frame to the connection piece by piece, as the peer   *)
(* makes room; a read takes what is there.  A caller of SendAsync that     *)
(* runs into the timeout leaves the lock while its bytes are still under   *)
(* way.  The connection keeps the bytes of one write in order and no more: *)
(* NetworkStream promises nothing for two writes at once.                  *)
(***************************************************************************)
EXTENDS WireFormat, FiniteSets

CONSTANTS
    Calls,      \* calls of SendAsync
    MessageOf,  \* the message of each call
    Libraries,  \* libraries that may be on the sending side: "cs", "cpp"
    Chunks,     \* bound: sizes in which bytes are moved
    Window      \* bound: bytes the connection holds

ASSUME FramesAssumption ==
    /\ MessageOf \in [Calls -> InternalMessages]
    /\ Libraries \subseteq {"cs", "cpp"}
    /\ Chunks \subseteq Nat \ {0}
    /\ Window \in Nat \ {0}
    \* the size of a message is an int
    /\ \A s \in Calls : /\ Len(Body(MessageOf[s])) <= MaxInt
                        /\ Len(CppBody(MessageOf[s])) <= MaxInt

VARIABLES
    lib,        \* the library on the sending side
    pc,         \* where each call is
    pending,    \* bytes each write has still to hand over
    wire,       \* bytes in the connection
    shut,       \* the connection is over
    cut,        \* it broke, or a read timed out with bytes under way
    order,      \* the calls in the order they took _writeLock
    mixed,      \* a frame was begun while an abandoned one was unfinished
    rpc,        \* the receive loop: "size", "body", "busy" or "closed"
    buffer,     \* the bytes it has read for the size or the body
    need,       \* how many it reads
    inbox       \* the messages it has read

vars == <<lib, pc, pending, wire, shut, cut, order, mixed, rpc, buffer, need, inbox>>

senderVars == <<pc, pending, order, mixed>>
readerVars == <<rpc, buffer, need, inbox>>

\* The bytes were no message, and no exception told.
Garbage == "garbage"

FrameOf(s) ==
    Framed(IF lib = "cs" THEN Body(MessageOf[s]) ELSE CppBody(MessageOf[s]))

Init ==
    /\ lib \in Libraries
    /\ pc = [s \in Calls |-> "idle"]
    /\ pending = [s \in Calls |-> <<>>]
    /\ wire = <<>>
    /\ shut = FALSE
    /\ cut = FALSE
    /\ order = <<>>
    /\ mixed = FALSE
    /\ rpc = "size"
    /\ buffer = <<>>
    /\ need = 4
    /\ inbox = <<>>

-----------------------------------------------------------------------------
(* Sending.                                                                *)

\* A caller is past ThrowIfNotConnected and waits for _writeLock.
Call(s) ==
    /\ pc[s] = "idle"
    /\ pc' = [pc EXCEPT ![s] = "lock"]
    /\ UNCHANGED <<lib, pending, wire, shut, cut, order, mixed, readerVars>>

\* Mutant: nothing is locked.
Unlocked_always == TRUE

\* Nobody is inside lock (_writeLock).
Unlocked == \A t \in Calls : pc[t] # "write"

\* It takes the lock and begins to write, behind what earlier callers left.
Write(s) ==
    /\ pc[s] = "lock"
    /\ Unlocked
    /\ IF shut
       THEN /\ pc' = [pc EXCEPT ![s] = "failed"]
            /\ UNCHANGED <<pending, order, mixed>>
       ELSE /\ pc' = [pc EXCEPT ![s] = "write"]
            /\ pending' = [pending EXCEPT ![s] = FrameOf(s)]
            /\ order' = Append(order, s)
            /\ mixed' = (mixed \/ \E t \in Calls : pc[t] = "timeout" /\ pending[t] # <<>>)
    /\ UNCHANGED <<lib, wire, shut, cut, readerVars>>

\* The connection takes the next bytes of a write, its caller there or not.
Transmit(s) ==
    /\ pending[s] # <<>>
    /\ ~shut
    /\ \E n \in Chunks \union {Len(pending[s])} :
          /\ n <= Len(pending[s])
          /\ n <= Window - Len(wire)
          /\ wire' = wire \o SubSeq(pending[s], 1, n)
          /\ pending' = [pending EXCEPT ![s] = SubSeq(@, n + 1, Len(@))]
    /\ UNCHANGED <<lib, pc, shut, cut, order, mixed, readerVars>>

\* The write ends, or fails with the connection.
WriteEnds(s) ==
    /\ pc[s] = "write"
    /\ \/ pending[s] = <<>> /\ pc' = [pc EXCEPT ![s] = "done"]
       \/ pending[s] # <<>> /\ shut /\ pc' = [pc EXCEPT ![s] = "failed"]
    /\ UNCHANGED <<lib, pending, wire, shut, cut, order, mixed, readerVars>>

\* Mutant: the write has no timeout.
MayGiveUp_never(s) == FALSE

\* Timeout of WriteAsync; asio::write of the C++ library waits for ever.
MayGiveUp(s) == lib = "cs" /\ pc[s] = "write" /\ pending[s] # <<>>

\* TimeoutException leaves the lock; nothing stops the write.
GiveUp(s) ==
    /\ MayGiveUp(s)
    /\ pc' = [pc EXCEPT ![s] = "timeout"]
    /\ UNCHANGED <<lib, pending, wire, shut, cut, order, mixed, readerVars>>

-----------------------------------------------------------------------------
(* Receiving.                                                              *)

\* An exception in the receive loop ends the reading.  A client that reconnects
\* disposes of the connection; the router, and a client that does not, leave it open.
Abandon ==
    /\ rpc' = "closed"
    /\ \/ shut' = TRUE /\ wire' = <<>>
       \/ UNCHANGED <<shut, wire>>
    /\ buffer' = <<>>
    /\ UNCHANGED <<need, inbox>>

Reading == rpc \in {"size", "body"} /\ Len(buffer) < need

\* One turn of the loop of TcpClient.ReadAsync.
Read ==
    /\ Reading
    /\ wire # <<>>
    /\ \E n \in Chunks \union {Len(wire), need - Len(buffer)} :
          /\ n <= Len(wire)
          /\ n <= need - Len(buffer)
          /\ buffer' = buffer \o SubSeq(wire, 1, n)
          /\ wire' = SubSeq(wire, n + 1, Len(wire))
    /\ UNCHANGED <<lib, senderVars, shut, cut, rpc, need, inbox>>

\* The size is there; new byte[size] throws if it is negative.
SizeRead ==
    /\ rpc = "size"
    /\ Len(buffer) = 4
    /\ IF ToInt32[buffer] < 0
       THEN Abandon
       ELSE /\ rpc' = "body"
            /\ need' = ToInt32[buffer]
            /\ buffer' = <<>>
            /\ UNCHANGED <<wire, shut, inbox>>
    /\ UNCHANGED <<lib, senderVars, cut>>

\* The loop goes to the next frame with a message, unless a handler of
\* OnMessage does not return (busy).
Hand(msg) ==
    /\ inbox' = Append(inbox, msg)
    /\ rpc' \in {"size", "busy"}
    /\ need' = 4
    /\ buffer' = <<>>
    /\ UNCHANGED <<wire, shut>>

\* The body is there.  Bytes that are no message make the constructor throw
\* or give some message: a short read fills an array with zeros.
BodyRead ==
    /\ rpc = "body"
    /\ Len(buffer) = need
    /\ \/ IsBody(buffer) /\ Hand(Parsed(buffer))
       \/ ~IsBody(buffer) /\ (Hand(Garbage) \/ Abandon)
    /\ UNCHANGED <<lib, senderVars, cut>>

\* Timeout of ReadAsync, for the body only.
BodyTimeout ==
    /\ rpc = "body"
    /\ Reading
    /\ Abandon
    /\ cut' = (cut \/ wire # <<>> \/ \E s \in Calls : pending[s] # <<>>)
    /\ UNCHANGED <<lib, senderVars>>

\* A read of zero bytes: the peer or the network ended the connection.
ReadEnd ==
    /\ Reading
    /\ shut
    /\ wire = <<>>
    /\ Abandon
    /\ UNCHANGED <<lib, senderVars, cut>>

-----------------------------------------------------------------------------
\* The connection ends; what is in it may arrive or not.
Break ==
    /\ ~shut
    /\ shut' = TRUE
    /\ cut' = TRUE
    /\ wire' \in {wire, <<>>}
    /\ UNCHANGED <<lib, senderVars, readerVars>>

SendAsync(s) == Call(s) \/ Write(s) \/ WriteEnds(s) \/ GiveUp(s)

RecieveMessages == Read \/ SizeRead \/ BodyRead \/ BodyTimeout \/ ReadEnd

Next ==
    \/ \E s \in Calls : SendAsync(s) \/ Transmit(s)
    \/ RecieveMessages
    \/ Break

Spec == Init /\ [][Next]_vars

\* The operating system moves bytes, threads run, timers fire.  No caller
\* need call, no handler need block or return, no connection need break.
Fairness ==
    /\ \A s \in Calls :
          /\ WF_vars(Write(s) \/ WriteEnds(s) \/ GiveUp(s))
          /\ WF_vars(Transmit(s))
    /\ WF_vars(RecieveMessages)

FairSpec == Spec /\ Fairness

-----------------------------------------------------------------------------
(* Properties.                                                             *)

\* The message as the C# library reads it: null comes as empty, and from
\* the C++ library sender and reciever change places and every string ends
\* in a zero character.
ReadAs(m) ==
    IF lib = "cs"
    THEN [m EXCEPT !.correlationId = Filled(@), !.reciever = Filled(@),
                   !.sender = Filled(@), !.payload = Filled(@)]
    ELSE [m EXCEPT !.correlationId = Filled(@) \o <<0>>,
                   !.reciever = Filled(m.sender) \o <<0>>,
                   !.sender = Filled(m.reciever) \o <<0>>,
                   !.payload = Filled(@)]

\* Whatever the pieces in which bytes are moved, the receive loop reads the
\* messages of the callers, each whole and in the order the callers took
\* _writeLock, until a frame is begun behind one a timeout abandoned.
FramesIntact ==
    ~mixed =>
        /\ Len(inbox) <= Len(order)
        /\ \A i \in 1..Len(inbox) : inbox[i] = ReadAs(MessageOf[order[i]])

\* A call that got the lock has its message read in the end, even after a
\* TimeoutException told its caller that it failed, unless the connection
\* breaks or is too slow for the read, a handler blocks the receive loop or
\* frames were mixed.  The receive loop gives up for no other reason.
EveryFrameIsRead ==
    \A i \in 1..Cardinality(Calls) :
        Len(order) >= i ~> Len(inbox) >= i \/ mixed \/ cut \/ rpc = "busy"

\* A call of SendAsync ends, although the peer may have stopped reading and
\* callers before it may hold the lock.
EveryCallEnds ==
    \A s \in Calls :
        lib = "cs" /\ pc[s] = "lock" ~> pc[s] \in {"done", "timeout", "failed"}

=============================================================================
