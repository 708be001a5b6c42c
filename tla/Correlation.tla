----------------------------- MODULE Correlation -----------------------------
(***************************************************************************)
(* How a client matches what it receives to the calls that wait for it     *)
(* (Client/HubNetworkClient.cs).                                           *)
(*                                                                         *)
(* The calls of an application run concurrently with each other and with   *)
(* the receive loops, which hand every frame to OnInternalMessage.  The    *)
(* router and the receiver of a message are modelled by the frames they    *)
(* send back; the connection may be lost and restored, and what was on its *)
(* way over it is lost.                                                    *)
(*                                                                         *)
(* Every connection starts a receive loop of its own.  Nobody waits for    *)
(* that of the connection before: Dispose waits for a task that ended at   *)
(* its first await (InternalHubNetworkClient.cs:320, 353).  It may still   *)
(* hand out a frame it read before the loss, and it may find the new       *)
(* connection and read from it beside the new loop.                        *)
(*                                                                         *)
(* Heartbeats, which OnInternalMessage ignores, and messages that answer   *)
(* no call are left out.  Two loops that tear a frame apart between them   *)
(* make both fail on what they get: the connection is lost then.           *)
(***************************************************************************)
EXTENDS Naturals, Sequences

CONSTANTS
    Calls,      \* calls of SendMessageAsync and SendDirectWaitReponseAsync
    Ids,        \* correlation ids
    IdOf,       \* the id a call uses
    Asks,       \* calls of SendDirectWaitReponseAsync
    NoAcks,     \* calls of SendMessageAsync with noack
    None,       \* no call, no frame
    MaxBreaks   \* how often the connection is lost (bound)

Kinds == {"ack", "error", "response"}

\* A frame that carries the id of a call, and which call's message it is about.
Frames == [kind : Kinds, call : Calls]

\* The application gave several calls the same id (Message.CorrelationId).
Reused(c) == \E d \in Calls \ {c} : IdOf[d] = IdOf[c]

ASSUME CallsAssumption ==
    /\ IdOf \in [Calls -> Ids]
    /\ Asks \subseteq Calls /\ NoAcks \subseteq Calls \ Asks
    /\ \A c \in Asks : ~Reused(c)   \* Guid.NewGuid()
    /\ None \notin Calls \union Frames
    /\ MaxBreaks \in Nat

VARIABLES
    pc,                 \* where a call is
    ackTasks,           \* _ackTasks
    directResponses,    \* _directResponses
    ack,                \* the frame that completed the task of RegisterAck
    response,           \* the result of the task of RegisterResponse
    at,                 \* where the message of a call, or the answer to it, is
    sentOn,             \* the connection the message was written to
    up,                 \* the connection exists
    breaks,             \* connections lost so far: the number of this one
    wire,               \* frames on their way to the client
    readers,            \* connections whose receive loop runs
    hand,               \* the frame a receive loop has read and not handed out yet
    \* History variables: no guard reads them.
    accepted,           \* calls whose message the router found a receiver for
    answered,           \* calls whose message was answered
    handled,            \* frames OnInternalMessage was called with
    raised,             \* those it passed to OnMessage
    disturbed,          \* calls that lost their message or their connection, or had
                        \* the receive loop of an earlier connection beside them
    missed              \* calls whose answer did not get to the connection

clientVars == <<pc, ackTasks, directResponses, ack, response>>
linkVars == <<at, sentOn, up, breaks, wire>>
loopVars == <<readers, hand>>
history == <<accepted, answered, handled, raised, disturbed, missed>>
vars == <<clientVars, linkVars, loopVars, history>>

\* The receive loops, by the number of their connection.
Loops == 0..MaxBreaks

TypeOK ==
    /\ pc \in [Calls -> {"idle", "write", "ack", "response", "ok", "failed", "timeout"}]
    /\ ackTasks \in [Ids -> Calls \union {None}]
    /\ directResponses \in [Ids -> Calls \union {None}]
    /\ ack \in [Calls -> Frames \union {None}]
    /\ response \in [Calls -> [kind : {"ack", "response"}, call : Calls] \union {None}]
    /\ at \in [Calls -> {"client", "router", "receiver", "answer", "gone"}]
    /\ sentOn \in [Calls -> Nat]
    /\ up \in BOOLEAN
    /\ breaks \in Loops
    /\ wire \in Seq(Frames)
    /\ readers \subseteq Loops
    /\ hand \in [Loops -> Frames \union {None}]
    /\ accepted \subseteq Calls /\ answered \subseteq Calls
    /\ disturbed \subseteq Calls /\ missed \subseteq Calls
    /\ handled \subseteq Frames /\ raised \subseteq Frames

Init ==
    /\ pc = [c \in Calls |-> "idle"]
    /\ ackTasks = [id \in Ids |-> None]
    /\ directResponses = [id \in Ids |-> None]
    /\ ack = [c \in Calls |-> None]
    /\ response = [c \in Calls |-> None]
    /\ at = [c \in Calls |-> "client"]
    /\ sentOn = [c \in Calls |-> 0]
    /\ up = TRUE
    /\ breaks = 0
    /\ wire = <<>>
    /\ readers = {0}
    /\ hand = [k \in Loops |-> None]
    /\ accepted = {} /\ answered = {} /\ handled = {} /\ raised = {}
    /\ disturbed = {} /\ missed = {}

HasEnded(c) == pc[c] \in {"ok", "failed", "timeout"}

-----------------------------------------------------------------------------
(* A call.                                                                 *)

\* RegisterAck and RegisterResponse: TryAdd, whose result is ignored.
TryAdd(tasks, c) == IF tasks[IdOf[c]] = None THEN [tasks EXCEPT ![IdOf[c]] = c] ELSE tasks

\* The call registers what it waits for.  An application retries a message
\* under its old id only after the call before has ended.
Start(c) ==
    /\ pc[c] = "idle"
    /\ \A d \in Calls : IdOf[d] = IdOf[c] => pc[d] = "idle" \/ HasEnded(d)
    /\ ackTasks' = IF c \in NoAcks THEN ackTasks ELSE TryAdd(ackTasks, c)
    /\ directResponses' = IF c \in Asks THEN TryAdd(directResponses, c) ELSE directResponses
    /\ pc' = [pc EXCEPT ![c] = "write"]
    /\ disturbed' = IF readers \subseteq {breaks} THEN disturbed ELSE disturbed \union {c}
    /\ UNCHANGED <<ack, response, linkVars, loopVars, accepted, answered, handled, raised,
                   missed>>

\* Mutant: the flag is read the wrong way round.
Awaited_inverted(c) == IF c \in NoAcks THEN "ack" ELSE "ok"

\* The task SendMessageAsync awaits: without ack it is Task.CompletedTask.
Awaited(c) == IF c \in NoAcks THEN "ok" ELSE "ack"

\* _client.SendAsync(...)
Write(c) ==
    /\ pc[c] = "write"
    /\ \* The frame goes out, or into a connection that is lost but not yet known to be.
       \/ pc' = [pc EXCEPT ![c] = Awaited(c)]
       \* No connection, an error, or a timeout after which the frame still goes out.
       \/ pc' = [pc EXCEPT ![c] = "failed"]
    /\ \/ /\ up
          /\ at' = [at EXCEPT ![c] = "router"]
          /\ sentOn' = [sentOn EXCEPT ![c] = breaks]
          /\ UNCHANGED disturbed
       \/ /\ ~up \/ pc'[c] = "failed"
          /\ disturbed' = disturbed \union {c}
          /\ UNCHANGED <<at, sentOn>>
    /\ UNCHANGED <<ackTasks, directResponses, ack, response, up, breaks, wire, loopVars,
                   accepted, answered, handled, raised, missed>>

\* await ack, await res: the task has a result or, for an error, an exception.
Resume(c) ==
    /\ \/ /\ pc[c] = "ack" /\ ack[c] # None /\ ack[c].kind # "error"
          /\ pc' = [pc EXCEPT ![c] = IF c \in Asks THEN "response" ELSE "ok"]
       \/ /\ pc[c] = "ack" /\ ack[c] # None /\ ack[c].kind = "error"
          /\ pc' = [pc EXCEPT ![c] = "failed"]
       \/ /\ pc[c] = "response" /\ response[c] # None
          /\ pc' = [pc EXCEPT ![c] = "ok"]
    /\ UNCHANGED <<ackTasks, directResponses, ack, response, linkVars, loopVars, history>>

WaitsInVain(c) ==
    \/ pc[c] = "ack" /\ ack[c] = None
    \/ pc[c] = "response" /\ response[c] = None

\* Mutant: a call that times out removes its entries.
Expire_tidy(c) ==
    /\ WaitsInVain(c)
    /\ pc' = [pc EXCEPT ![c] = "timeout"]
    /\ ackTasks' = [ackTasks EXCEPT ![IdOf[c]] = None]
    /\ directResponses' = [directResponses EXCEPT ![IdOf[c]] = None]
    /\ UNCHANGED <<ack, response, linkVars, loopVars, history>>

\* Timeout(_opts.Timeout, ...) throws.  The entries of the call stay.
Expire(c) ==
    /\ WaitsInVain(c)
    /\ pc' = [pc EXCEPT ![c] = "timeout"]
    /\ UNCHANGED <<ackTasks, directResponses, ack, response, linkVars, loopVars, history>>

-----------------------------------------------------------------------------
(* The receive loops.                                                      *)

\* A frame of a call completes the acknowledgement that waits under its id.
CompletesAck(f) == ackTasks[IdOf[f.call]] # None

\* _ackTasks.TryRemove(msg.CorrelationId, out var tcs)
TakeAck(f) ==
    LET c == ackTasks[IdOf[f.call]] IN
    /\ ackTasks' = [ackTasks EXCEPT ![IdOf[f.call]] = None]
    /\ ack' = [ack EXCEPT ![c] = f]
    /\ UNCHANGED <<directResponses, response, raised>>

CompletesResponse(f) == directResponses[IdOf[f.call]] # None

\* _directResponses.TryRemove(msg.CorrelationId, out var resp)
TakeResponse(f) ==
    LET c == directResponses[IdOf[f.call]] IN
    /\ directResponses' = [directResponses EXCEPT ![IdOf[f.call]] = None]
    /\ response' = [response EXCEPT ![c] = f]
    /\ UNCHANGED <<ackTasks, ack, raised>>

\* OnMessage?.Invoke(...)
Raise(f) ==
    /\ raised' = raised \union {f}
    /\ UNCHANGED <<ackTasks, directResponses, ack, response>>

\* Mutant: the responses are looked up before the acks.
Dispatch_swapped(f) ==
    \/ CompletesResponse(f) /\ TakeResponse(f)
    \/ ~CompletesResponse(f) /\ CompletesAck(f) /\ TakeAck(f)
    \/ ~CompletesResponse(f) /\ ~CompletesAck(f) /\ Raise(f)

Dispatch(f) ==
    \/ CompletesAck(f) /\ TakeAck(f)
    \/ ~CompletesAck(f) /\ CompletesResponse(f) /\ TakeResponse(f)
    \/ ~CompletesAck(f) /\ ~CompletesResponse(f) /\ Raise(f)

\* A receive loop reads the next frame, that of an earlier connection too: all read
\* from _client.
Read(k) ==
    /\ k \in readers
    /\ hand[k] = None
    /\ wire # <<>>
    /\ wire' = Tail(wire)
    /\ hand' = [hand EXCEPT ![k] = Head(wire)]
    /\ UNCHANGED <<clientVars, at, sentOn, up, breaks, readers, history>>

\* It hands the frame out, whatever happened to the connection since.
OnInternalMessage(k) ==
    /\ k \in readers
    /\ hand[k] # None
    /\ Dispatch(hand[k])
    /\ handled' = handled \union {hand[k]}
    /\ hand' = [hand EXCEPT ![k] = None]
    /\ UNCHANGED <<pc, linkVars, readers, accepted, answered, disturbed, missed>>

\* The loop of a lost connection ends: it finds the source cancelled, or its wait for
\* a connection throws.
LoopEnds(k) ==
    /\ k \in readers
    /\ k < breaks
    /\ hand[k] = None
    /\ readers' = readers \ {k}
    /\ UNCHANGED <<clientVars, linkVars, hand, history>>

-----------------------------------------------------------------------------
(* The router, the receivers and the connection.                           *)

\* The router writes a frame to the connection the message came from.
Reply(c, kind) ==
    wire' = IF up /\ sentOn[c] = breaks
            THEN Append(wire, [kind |-> kind, call |-> c]) ELSE wire

\* Mutant: the ack depends on the flag the wrong way round.
Accept_inverted(c) ==
    /\ at[c] = "router"
    /\ at' = [at EXCEPT ![c] = "receiver"]
    /\ accepted' = accepted \union {c}
    /\ IF c \in NoAcks THEN Reply(c, "ack") ELSE UNCHANGED wire
    /\ UNCHANGED <<clientVars, sentOn, up, breaks, loopVars, answered, handled, raised,
                   disturbed, missed>>

\* SendDirect: the ack is written before the message is forwarded.
Accept(c) ==
    /\ at[c] = "router"
    /\ at' = [at EXCEPT ![c] = "receiver"]
    /\ accepted' = accepted \union {c}
    /\ IF c \in NoAcks THEN UNCHANGED wire ELSE Reply(c, "ack")
    /\ UNCHANGED <<clientVars, sentOn, up, breaks, loopVars, answered, handled, raised,
                   disturbed, missed>>

\* SendDirect: No reciever.
Refuse(c) ==
    /\ at[c] = "router"
    /\ at' = [at EXCEPT ![c] = "gone"]
    /\ Reply(c, "error")
    /\ UNCHANGED <<clientVars, sentOn, up, breaks, loopVars, history>>

\* The receiver's application may answer with a Direct message under the same id.
AnswerCall(c) ==
    /\ at[c] = "receiver"
    /\ at' = [at EXCEPT ![c] = "answer"]
    /\ answered' = answered \union {c}
    /\ UNCHANGED <<clientVars, sentOn, up, breaks, wire, loopVars, accepted, handled, raised,
                   disturbed, missed>>

\* The router forwards the answer to whatever connection has the client's name.
\* It may be another one's, or nobody's, although the client is connected: after
\* a loss, even one long before the call, and after a write to it that took longer
\* than the timeout.
ForwardAnswer(c) ==
    /\ at[c] = "answer"
    /\ at' = [at EXCEPT ![c] = "gone"]
    /\ \/ /\ up
          /\ wire' = Append(wire, [kind |-> "response", call |-> c])
          /\ UNCHANGED missed
       \/ /\ missed' = missed \union {c}
          /\ UNCHANGED wire
    /\ UNCHANGED <<clientVars, sentOn, up, breaks, loopVars, accepted, answered, handled,
                   raised, disturbed>>

\* The connection is lost with all that is on its way, not with what was read.
Break ==
    /\ up
    /\ breaks < MaxBreaks
    /\ up' = FALSE
    /\ breaks' = breaks + 1
    /\ wire' = <<>>
    /\ \E lost \in SUBSET {c \in Calls : at[c] = "router"} :
          at' = [c \in Calls |-> IF c \in lost THEN "gone" ELSE at[c]]
    /\ disturbed' = disturbed \union {c \in Calls : pc[c] # "idle"}
    /\ UNCHANGED <<clientVars, sentOn, loopVars, accepted, answered, handled, raised, missed>>

\* Reconnect: ConnectAsync starts a receive loop (StartRecieve).
Restore ==
    /\ ~up
    /\ up' = TRUE
    /\ readers' = readers \union {breaks}
    /\ UNCHANGED <<clientVars, at, sentOn, breaks, wire, hand, history>>

-----------------------------------------------------------------------------
Call(c) == Start(c) \/ Write(c) \/ Resume(c) \/ Expire(c)

Outside(c) == Accept(c) \/ Refuse(c) \/ AnswerCall(c) \/ ForwardAnswer(c)

Next ==
    \/ \E c \in Calls : Call(c) \/ Outside(c)
    \/ \E k \in Loops : Read(k) \/ OnInternalMessage(k) \/ LoopEnds(k)
    \/ Break \/ Restore

Spec == Init /\ [][Next]_vars

-----------------------------------------------------------------------------
(* Properties.                                                             *)

\* A call that returns was accepted by the router, although not every frame with
\* its id says so: an error does not, and an ack may be late, of an earlier call
\* with the same id that timed out.  It is then the same message, sent again, that
\* was accepted.
OkMeansAccepted ==
    \A c \in Calls \ NoAcks : pc[c] = "ok" =>
        \E f \in Frames : /\ ack[c] = f /\ f.kind # "error"
                          /\ f.call \in accepted /\ IdOf[f.call] = IdOf[c]

\* An ask that returns has had the ack and the answer of its own message, each once
\* and no error, on whatever connections and by whatever receive loops they came.
\* What SendDirectWaitReponseAsync returns is the answer; only a call that had an
\* earlier receive loop beside it, or lost its connection, may have got them in the
\* other order, and then returns the ack.
OkAskWasAnswered ==
    \A c \in Asks : pc[c] = "ok" =>
        /\ {ack[c], response[c]} = [kind : {"ack", "response"}, call : {c}]
        /\ c \in answered
        /\ c \notin disturbed => response[c].kind = "response"

\* No frame is wasted, unless the id is used again: an ack, an error or an answer that
\* was handled has completed what waits for it.  For a disturbed call frames may come
\* in the other order: an answer then completes the acknowledgement and the ack comes
\* too late for anybody, but one of an ask still completes the response.
AnswersComplete ==
    \A f \in handled : ~Reused(f.call) =>
        /\ f.call \in Asks => f \in {ack[f.call], response[f.call]}
        /\ f.call \notin disturbed =>
              /\ f.kind \in {"ack", "error"} /\ f.call \notin NoAcks => ack[f.call] = f
              /\ f.kind = "response" /\ f.call \in Asks => response[f.call] = f

\* OnMessage is raised for messages: never for a frame of an ask, however late and in
\* whatever order they come, nor for the ack or error of another call that asked for
\* one, unless the call was disturbed.
OnMessageForMessages ==
    \A f \in raised : ~Reused(f.call) =>
        /\ f.call \notin Asks
        /\ f.kind = "response" \/ f.call \in disturbed \/ (f.kind = "error" /\ f.call \in NoAcks)

\* What an undisturbed call waits for has to come: its ack or error, and the answer
\* once there is one, unless that did not get to the connection.
IsDue(c) ==
    /\ c \notin disturbed
    /\ pc[c] = "ack" \/ (pc[c] = "response" /\ c \in answered \ missed)

\* An undisturbed call needs no timeout: once written it is acked or refused, and an
\* ask that was answered returns, unless its answer did not get to the connection:
\* the router forwards by name, and after a loss, even one before the call, the name
\* may be nobody's.  It needs a router that does its part: module Hub.
NoTimeoutNeeded == \A c \in Calls : ~Reused(c) => (IsDue(c) ~> ~IsDue(c))

=============================================================================
