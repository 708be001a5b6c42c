-------------------------------- MODULE Hub --------------------------------
(***************************************************************************)
(* A client, the router and the client it calls: modules Correlation and   *)
(* Network put together.                                                   *)
(*                                                                         *)
(* Module Correlation invents the frames a client gets.  Here the calls    *)
(* and the receive loops of that module are connected to the tasks of       *)
(* module Network, which route the messages of the calls (Direct messages  *)
(* of Me to Peer) and the answers to them (Direct messages of Peer to Me)  *)
(* and whose replies are the frames.  What only shows here: a name of the  *)
(* network, the connection it is registered for and the connection the     *)
(* client believes in are three things.                                    *)
(***************************************************************************)
EXTENDS Naturals, Sequences, FiniteSets

CONSTANTS
    Me, Peer,   \* names of the two clients
    Calls,      \* as in module Correlation
    Ids,
    IdOf,
    Asks,
    NoAcks,
    None,
    MaxBreaks,  \* how often Me loses its connection (bound)
    MaxChurn    \* how often Peer joins and leaves (bound)

Names == {Me, Peer}

\* The message of a call and the answer to it.
Messages == Calls \X {"call", "answer"}

ASSUME HubAssumption ==
    /\ Me # Peer
    /\ \A c \in Calls : <<c, "call">> # None /\ <<c, "answer">> # None

VARIABLES
    \* Calls and receive loops of Me: module Correlation.
    pc, ackTasks, directResponses, ack, response, readers, hand,
    \* The router: module Network, where the place of a task is called pc.
    values, rrIndex, task, todo, index, reciever, writing, churn,
    replies, sent, failedTo, stayed, picks, changed,
    \* What connects them.
    up,          \* Me takes itself for connected
    breaks,      \* connections of Me lost so far: the number of this one
    sentOn,      \* the connection the message of a call was written to
    wire,        \* frames on their way to Me
    transit,     \* a message is "unsent", "sent" to the router or "lost"
    entry,       \* the connection Me is registered with, when it is a member
    captured,    \* the connection a task found registered for Me
    loops,       \* connections of Me the router reads from
    \* History variables: no guard reads them.
    handled, raised, disturbed, missed

clientVars == <<pc, ackTasks, directResponses, ack, response>>
routerVars == <<values, rrIndex, task, todo, index, reciever, writing, churn,
                replies, sent, failedTo, stayed, picks, changed>>
linkVars == <<up, breaks, sentOn, wire>>
pathVars == <<transit, entry, captured, loops>>
loopVars == <<readers, hand>>
history == <<handled, raised, disturbed, missed>>
vars == <<clientVars, routerVars, linkVars, pathVars, loopVars, history>>

-----------------------------------------------------------------------------
(* The two modules.                                                        *)

N == INSTANCE Network WITH
        Clients  <- Names,
        TypeOf   <- [m \in Messages |-> "Direct"],
        SenderOf <- [m \in Messages |-> IF m[2] = "call" THEN Me ELSE Peer],
        TargetOf <- [m \in Messages |-> IF m[2] = "call" THEN Peer ELSE Me],
        NoAck    <- {m \in Messages : m[1] \in NoAcks},
        Batches  <- {Messages},
        pc       <- task

\* Both the router and Peer are past the reply to the message of c.
Forwarded(c) == task[<<c, "call">>] \in {"send", "done"}

\* The router found Peer: it has written the message to it, tried to, or will.
Accepted(c) ==
    /\ Forwarded(c)
    /\ \/ task[<<c, "call">>] = "send"
       \/ sent[<<c, "call">>] # <<>>
       \/ Peer \in failedTo[<<c, "call">>]

\* Where module Correlation has the message of c, or the answer to it.
At(c) ==
    IF transit[<<c, "call">>] = "unsent" THEN "client"
    ELSE IF transit[<<c, "call">>] = "sent" /\ ~Forwarded(c) THEN "router"
    ELSE IF transit[<<c, "call">>] = "lost" \/ ~Accepted(c) THEN "gone"
    ELSE IF transit[<<c, "answer">>] = "unsent" THEN "receiver"
    ELSE IF task[<<c, "answer">>] # "done" THEN "answer" ELSE "gone"

C == INSTANCE Correlation WITH
        at       <- [c \in Calls |-> At(c)],
        accepted <- {c \in Calls : Accepted(c)},
        answered <- {c \in Calls : transit[<<c, "answer">>] # "unsent"}

ASSUME HubCallsAssumption == C!CallsAssumption

Init ==
    /\ pc = [c \in Calls |-> "idle"]
    /\ ackTasks = [id \in Ids |-> None]
    /\ directResponses = [id \in Ids |-> None]
    /\ ack = [c \in Calls |-> None]
    /\ response = [c \in Calls |-> None]
    /\ up = TRUE
    /\ breaks = 0
    /\ sentOn = [c \in Calls |-> 0]
    /\ wire = <<>>
    /\ transit = [m \in Messages |-> "unsent"]
    /\ entry = 0
    /\ captured = [m \in Messages |-> 0]
    /\ loops = {0}
    /\ readers = {0}
    /\ hand = [k \in C!Loops |-> None]
    /\ handled = {} /\ raised = {} /\ disturbed = {} /\ missed = {}
    /\ N!Init
    /\ Me \in N!Members

-----------------------------------------------------------------------------
(* Me.                                                                     *)

Begin(c) ==
    /\ UNCHANGED <<routerVars, pathVars>>
    /\ C!Start(c)

\* A call goes on after its ack or its answer.
Resume(c) ==
    /\ UNCHANGED <<routerVars, pathVars>>
    /\ C!Resume(c)

Expire(c) ==
    /\ UNCHANGED <<routerVars, pathVars>>
    /\ C!Expire(c)

\* SendAsync of a call: the frame gets to the router, or does not.
WriteCall(c) ==
    /\ UNCHANGED <<routerVars, entry, captured, loops>>
    /\ \E w \in {"unsent", "sent"} : transit' = [transit EXCEPT ![<<c, "call">>] = w]
    /\ C!Write(c)

\* A receive loop, the newest or one of an earlier connection, reads a frame ...
Read(k) ==
    /\ UNCHANGED <<routerVars, pathVars>>
    /\ C!Read(k)

\* ... and hands it out ...
OnInternalMessage(k) ==
    /\ UNCHANGED <<routerVars, pathVars>>
    /\ C!OnInternalMessage(k)

\* ... or ends, when its connection is lost.
LoopEnds(k) ==
    /\ UNCHANGED <<routerVars, pathVars>>
    /\ C!LoopEnds(k)

\* The connection is lost, with the frames and messages on it.  The router does
\* not know yet.
Break ==
    /\ up
    /\ breaks < MaxBreaks
    /\ up' = FALSE
    /\ breaks' = breaks + 1
    /\ wire' = <<>>
    /\ \E lost \in SUBSET {m \in Calls \X {"call"} : transit[m] = "sent" /\ task[m] = "new"} :
          transit' = [m \in Messages |-> IF m \in lost THEN "lost" ELSE transit[m]]
    /\ disturbed' = disturbed \union {c \in Calls : pc[c] # "idle"}
    /\ UNCHANGED <<clientVars, routerVars, sentOn, entry, captured, loops, loopVars, handled,
                   raised, missed>>

\* Reconnect: the router reads the Init frame, starts its receive loop and adds
\* the client, unless the name is taken, if only by its own lost connection.
\* Handshake compares the correlation id, which the refusal has too: Me takes
\* itself for connected in both cases.
Reconnect ==
    /\ ~up
    /\ up' = TRUE
    /\ readers' = readers \union {breaks}
    /\ loops' = loops \union {breaks}
    /\ \/ /\ Me \notin N!Members
          /\ values' \in N!Orders(N!Members \union {Me})
          /\ changed' = TRUE
          /\ entry' = breaks
       \/ /\ Me \in N!Members
          /\ UNCHANGED <<values, changed, entry>>
    /\ UNCHANGED <<clientVars, rrIndex, task, todo, index, reciever, writing, churn, replies,
                   sent, failedTo, stayed, picks, breaks, sentOn, wire, transit, captured,
                   hand, history>>

-----------------------------------------------------------------------------
(* Peer.                                                                   *)

\* Its application answers a message that arrived, if only after the write of it
\* had timed out.
Answer(c) ==
    /\ transit[<<c, "answer">>] = "unsent"
    /\ sent[<<c, "call">>] # <<>> \/ Peer \in failedTo[<<c, "call">>]
    /\ transit' = [transit EXCEPT ![<<c, "answer">>] = "sent"]
    /\ UNCHANGED <<clientVars, routerVars, linkVars, entry, captured, loops, loopVars, history>>

PeerComesOrGoes ==
    /\ N!Join(Peer) \/ N!Leave(Peer)
    /\ UNCHANGED <<clientVars, linkVars, pathVars, loopVars, history>>

-----------------------------------------------------------------------------
(* The router.                                                             *)

\* A frame written to connection k of Me arrives if that is still the
\* connection.  It does so too when the write only seems to fail because it
\* takes longer than the timeout.
Arrives(k, frame) ==
    wire' = IF up /\ k = breaks THEN Append(wire, frame) ELSE wire

\* The task of m starts; TryGetValue finds the connection, not the name.
Receive(m) ==
    /\ transit[m] = "sent"
    /\ N!Receive(m)
    /\ captured' = [captured EXCEPT ![m] = entry]
    /\ UNCHANGED <<clientVars, linkVars, transit, entry, loops, loopVars, history>>

\* Mutant: the reply goes to the connection that has the sender's name.
ReplyToCall_byname(c) ==
    /\ N!Reply(<<c, "call">>)
    /\ Arrives(entry, [kind |-> task[<<c, "call">>], call |-> c])
    /\ UNCHANGED <<clientVars, up, breaks, sentOn, pathVars, loopVars, history>>

\* Ack or Error for a call, to the connection its message came from.
ReplyToCall(c) ==
    /\ N!Reply(<<c, "call">>)
    /\ Arrives(sentOn[c], [kind |-> task[<<c, "call">>], call |-> c])
    /\ UNCHANGED <<clientVars, up, breaks, sentOn, pathVars, loopVars, history>>

\* Ack or Error for an answer, to Peer.
ReplyToAnswer(c) ==
    /\ N!Reply(<<c, "answer">>)
    /\ missed' = IF task[<<c, "answer">>] = "error" THEN missed \union {c} ELSE missed
    /\ UNCHANGED <<clientVars, linkVars, pathVars, loopVars, handled, raised, disturbed>>

Address(m) ==
    /\ N!Address(m)
    /\ UNCHANGED <<clientVars, linkVars, pathVars, loopVars, history>>

\* The message of a call is written to Peer.
WriteToPeer(c) ==
    /\ N!Write(<<c, "call">>, Peer)
    /\ UNCHANGED <<clientVars, linkVars, pathVars, loopVars, history>>

\* An answer is written to the connection that had the name when its task began.
WriteToMe(c) ==
    /\ N!Write(<<c, "answer">>, Me)
    /\ Arrives(captured[<<c, "answer">>], [kind |-> "response", call |-> c])
    /\ missed' = IF wire' = wire THEN missed \union {c} ELSE missed
    /\ UNCHANGED <<clientVars, up, breaks, sentOn, pathVars, loopVars, handled, raised,
                   disturbed>>

\* The router's receive loop of a lost connection ends, and with it the registration of
\* whatever connection has the name.
ReceiveLoopEnds(k) ==
    /\ k \in loops
    /\ k < breaks
    /\ loops' = loops \ {k}
    /\ N!Remove(Me)
    /\ UNCHANGED <<clientVars, rrIndex, task, todo, index, reciever, writing, churn, replies,
                   sent, failedTo, picks, linkVars, transit, entry, captured, loopVars, history>>

Task(m) ==
    \/ Receive(m) \/ Address(m)
    \/ \E c \in Calls :
          \/ m = <<c, "call">> /\ (ReplyToCall(c) \/ WriteToPeer(c))
          \/ m = <<c, "answer">> /\ (ReplyToAnswer(c) \/ WriteToMe(c))

-----------------------------------------------------------------------------
Next ==
    \/ \E c \in Calls : Begin(c) \/ WriteCall(c) \/ Resume(c) \/ Expire(c) \/ Answer(c)
    \/ \E k \in C!Loops : Read(k) \/ OnInternalMessage(k) \/ LoopEnds(k)
    \/ Break \/ Reconnect
    \/ PeerComesOrGoes
    \/ \E m \in Messages : Task(m)
    \/ \E k \in loops : ReceiveLoopEnds(k)

Spec == Init /\ [][Next]_vars

\* Calls that can go on, the receive loop of the connection and the tasks of the router
\* do.  Nothing is assumed of the receive loops of earlier connections.
Fairness ==
    /\ WF_vars(Read(breaks) \/ OnInternalMessage(breaks))
    /\ \A c \in Calls : WF_vars(WriteCall(c)) /\ WF_vars(Resume(c))
    /\ \A m \in Messages : WF_vars(Task(m))

FairSpec == Spec /\ Fairness

-----------------------------------------------------------------------------
(* Properties.                                                             *)

\* What module Correlation takes for granted of its environment is what the router
\* and Peer do: every step of them is one of its steps or changes nothing it has.
ImplementsCorrelation == C!Spec

\* What is shown of calls in module Correlation, with this router and this Peer: a
\* call that returns was passed on, an ask that returns had the ack and the answer of
\* Peer to its message, no frame is wasted, and OnMessage is raised for messages only.
CallsAreSound ==
    /\ C!OkMeansAccepted /\ C!OkAskWasAnswered
    /\ C!AnswersComplete /\ C!OnMessageForMessages

\* A message whose caller has the ack is not forgotten: it is written to Peer, or a
\* write to Peer fails.  (SendDirect acks before it forwards.)
AckedIsForwarded ==
    \A c \in Calls : ack[c] = [kind |-> "ack", call |-> c] ~>
        sent[<<c, "call">>] # <<>> \/ Peer \in failedTo[<<c, "call">>]

\* Of a call that kept its connection and had no earlier receive loop beside it: the
\* ack or the error always comes, and the answer too, unless the router refused it or
\* wrote it to another connection, because the name was not this connection's.
NoTimeoutNeeded == C!NoTimeoutNeeded

=============================================================================
