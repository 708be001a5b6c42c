----------------------------- MODULE Reconnect -----------------------------
(***************************************************************************)
(* How InternalHubNetworkClient keeps a connection on the client's side     *)
(* (InternalHubNetworkClient.cs).  Every successful ConnectAsync starts a   *)
(* receive loop, a heartbeat sender and a Reconnect loop; on a loss         *)
(* Reconnect disposes the client, makes a new CancellationTokenSource and   *)
(* connects again, which starts three more.  Tasks of earlier connections   *)
(* may still run, on the same events, flags and socket.                     *)
(*                                                                         *)
(* Dispose is not atomic and holds no lock: _cts.Cancel() and _cts.Dispose() *)
(* are steps of their own, and each reads the field _cts again.  Kept are   *)
(* the state of the current source and which waits no cancellation reaches  *)
(* any more, because theirs was disposed or replaced before it was          *)
(* cancelled.  A cancellation decides every wait in the same step.          *)
(***************************************************************************)
EXTENDS Integers

CONSTANTS
    Options,        \* the options of a client, each with the bounds it is run to
    MaxConnects     \* bound: connections made with any options

\* AutoReconnect and Heartbeat of ClientSocketOptions; whether the user disposes
\* the client; and bounds on connections made, connections the network or the
\* router breaks, attempts and reads that fail otherwise, and calls of Cancel
\* that meet another caller between its Cancel and Dispose.
ASSUME OptionsAssumption ==
    Options \subseteq [AutoReconnect : BOOLEAN, Heartbeat : BOOLEAN, disposes : BOOLEAN,
                      connects : 1..MaxConnects, breaks : Nat, failures : Nat, overlaps : Nat]

ASSUME BoundsAssumption == MaxConnects \in Nat \ {0}

VARIABLES
    opts,           \* _opts, with the bounds
    connected,      \* _connected
    lost,           \* the ManualResetEvent _connectionLost
    restored,       \* the ManualResetEvent _connectionRestored
    newMessage,     \* the AutoResetEvent _newMessage
    cancelled,      \* Cancel was called on the current _cts
    disposed,       \* Dispose was called on the current _cts
    deaf,           \* tasks whose wait no Cancel of the current _cts ends
    link,           \* the socket of _client
    connects,       \* ConnectAsync calls that started tasks
    pc,             \* where the user of the client and each task is
    breaks,         \* connections broken so far
    failures,       \* attempts and reads failed otherwise so far
    overlaps,       \* calls of Cancel that came between another caller's Cancel and Dispose
    \* History variables: no guard reads them.
    reported,       \* OnDisconnected was raised since the last break or, without
                    \* AutoReconnect, since the client connected
    owed,           \* no OnConnected was raised since the last break
    attended,       \* ConnectAsync started the tasks since the socket connected
    erased          \* the last _connectionLost.Reset() undid the report of a loss

events == <<connected, lost, restored>>
source == <<cancelled, disposed>>
where == <<pc, deaf>>
bounds == <<breaks, failures, overlaps>>
history == <<reported, owed, attended, erased>>
others == <<opts, events, newMessage, source, link, connects, bounds, history>>
vars == <<where, others>>

Connections == 1..MaxConnects
Receivers == {"receive"} \X Connections
Heartbeats == {"heartbeat"} \X Connections
Reconnectors == {"reconnect"} \X Connections
Tasks == Receivers \union Heartbeats \union Reconnectors
User == <<"user", 0>>
\* Who calls ConnectAsync and Dispose.
Owners == Reconnectors \union {User}

\* _heartbeatTask, _rcvTask and _reconnectTask.
Latest == {t \in Tasks : t[2] = connects}

\* Where a caller of Dispose and ConnectAsync is in them, and where a task that
\* calls EmitDisconnectAndWait is.
Calls ==
    {"dispose", "release", "reset", "joining", "connect", "connecting", "shaking", "starting"}
Loop == {"none", "new", "loop", "emit", "emitted", "blocked", "ended"}

UserLabels == {"idle", "failed", "done", "disposed"} \union Calls
ReceiverLabels == {"waiting", "reading"} \union Loop
HeartbeatLabels == {"waiting", "writing", "listening", "delay"} \union Loop
ReconnectorLabels ==
    {"none", "new", "loop", "ended", "watching", "disposeHere", "releaseHere",
     "resetHere", "stuck", "restore", "clear", "signal", "retry", "delay"} \union Calls

PcOK ==
    /\ pc = [a \in Tasks \union {User} |-> pc[a]]
    /\ pc[User] \in UserLabels
    /\ \A t \in Receivers : pc[t] \in ReceiverLabels
    /\ \A t \in Heartbeats : pc[t] \in HeartbeatLabels
    /\ \A t \in Reconnectors : pc[t] \in ReconnectorLabels

TypeOK ==
    /\ opts \in Options
    /\ <<connected, lost, restored>> \in BOOLEAN \X BOOLEAN \X BOOLEAN
    /\ newMessage \in BOOLEAN /\ cancelled \in BOOLEAN /\ disposed \in BOOLEAN
    /\ deaf \subseteq Tasks
    /\ link \in {"none", "up", "down"}
    /\ connects \in 0..opts.connects
    /\ PcOK
    /\ breaks \in 0..opts.breaks /\ failures \in 0..opts.failures
    /\ overlaps \in 0..opts.overlaps
    /\ reported \in BOOLEAN /\ owed \in BOOLEAN /\ attended \in BOOLEAN
    /\ erased \in BOOLEAN

Init ==
    /\ opts \in Options
    /\ connected = FALSE /\ lost = FALSE /\ restored = TRUE
    /\ newMessage = FALSE /\ cancelled = FALSE /\ disposed = FALSE /\ deaf = {}
    /\ link = "none" /\ connects = 0
    /\ pc = [a \in Tasks \union {User} |-> IF a = User THEN "idle" ELSE "none"]
    /\ breaks = 0 /\ failures = 0 /\ overlaps = 0
    /\ reported = FALSE /\ owed = FALSE /\ attended = FALSE /\ erased = FALSE

\* Whoever goes on has no wait of an earlier source any more.
Goto(a, label) == pc' = [pc EXCEPT ![a] = label] /\ deaf' = deaf \ {a}

\* A step that changes nothing else.
Moves(a, label) == Goto(a, label) /\ UNCHANGED others

-----------------------------------------------------------------------------
(* Waiting.  A wait ends when its event is set or the source whose token it *)
(* took is cancelled; taking the token of a disposed source throws.         *)

AtLoop(t) == pc[t] \in {"new", "loop"}

\* The tasks in a wait with a token.
Waiting == {t \in Tasks : pc[t] \in {"waiting", "blocked", "delay", "watching"}}

\* Mutant: the waits are called without the token.
AfterCancel_deaf(t) == pc[t]

\* Where a task goes on when its wait is cancelled: an exception that only the
\* receive loop catches, and only around ReadAsync.
AfterCancel(t) ==
    IF t \notin Waiting \ deaf THEN pc[t]
    ELSE IF pc[t] = "waiting" /\ t \in Receivers THEN "emit"
    ELSE "ended"

\* Mutant: OnDisconnected is raised after the throw, without the finally.
EmitDisconnect_quiet(t) ==
    /\ pc[t] = "emit"
    /\ IF opts.AutoReconnect
       THEN /\ connected' = FALSE
            /\ restored' = (restored /\ ~connected)
            /\ lost' = (lost \/ connected)
            /\ Goto(t, "emitted")
       ELSE Goto(t, "ended") /\ UNCHANGED events
    /\ reported' = (reported \/ opts.AutoReconnect)
    /\ UNCHANGED <<opts, newMessage, source, link, connects, bounds, owed, attended, erased>>

\* Mutant: _connectionLost is not set.
EmitDisconnect_unsignalled(t) ==
    /\ pc[t] = "emit"
    /\ IF opts.AutoReconnect
       THEN /\ connected' = FALSE
            /\ restored' = (restored /\ ~connected)
            /\ Goto(t, "emitted")
            /\ UNCHANGED lost
       ELSE Goto(t, "ended") /\ UNCHANGED events
    /\ reported' = TRUE
    /\ UNCHANGED <<opts, newMessage, source, link, connects, bounds, owed, attended, erased>>

\* EmitDisconnectAndWait, under _connectionLock.
EmitDisconnect(t) ==
    /\ pc[t] = "emit"
    /\ IF opts.AutoReconnect
       THEN /\ connected' = FALSE
            /\ restored' = (restored /\ ~connected)
            /\ lost' = (lost \/ connected)
            /\ Goto(t, "emitted")
       ELSE Goto(t, "ended") /\ UNCHANGED events
    /\ reported' = TRUE
    /\ UNCHANGED <<opts, newMessage, source, link, connects, bounds, owed, attended, erased>>

\* Its wait for _connectionRestored.
AwaitRestored(t) ==
    /\ pc[t] = "emitted"
    /\ \/ (cancelled \/ disposed) /\ Moves(t, "ended")
       \/ cancelled /\ ~disposed /\ restored /\ Moves(t, "loop")
       \/ ~cancelled /\ ~disposed /\ Moves(t, "blocked")

Restored(t) ==
    /\ pc[t] = "blocked" /\ restored
    /\ Moves(t, "loop")

\* What a task does from the call of EmitDisconnectAndWait on.
EmitDisconnectAndWait(t) == EmitDisconnect(t) \/ AwaitRestored(t) \/ Restored(t)

\* A read of a socket without connection throws.
StartOfRead == IF link = "none" THEN "emit" ELSE "reading"

\* WaitForConnection, in the receive loop and in the heartbeat sender.
AfterWait(t) ==
    /\ pc[t] = "waiting" /\ restored
    /\ Moves(t, IF t \in Receivers THEN StartOfRead ELSE "writing")

-----------------------------------------------------------------------------
(* RecieveMessages.                                                        *)

\* The loop condition, then ReadAsync up to the read, WaitForConnection included.
\* The condition does not see that a source is disposed, the token does.
NextRead(t) ==
    /\ t \in Receivers /\ AtLoop(t)
    /\ \/ cancelled /\ Moves(t, "ended")
       \/ ~cancelled /\ disposed /\ Moves(t, "emit")
       \/ ~cancelled /\ ~disposed /\ connected /\ Moves(t, StartOfRead)
       \/ /\ ~cancelled /\ ~disposed /\ ~connected
          /\ Moves(t, IF opts.AutoReconnect THEN "waiting" ELSE "emit")

\* A message arrives.  Only a heartbeat sender looks at _newMessage.
Read(t) ==
    /\ pc[t] = "reading" /\ link = "up"
    /\ newMessage' = opts.Heartbeat
    /\ Goto(t, "loop")
    /\ UNCHANGED <<opts, events, source, link, connects, bounds, history>>

\* The socket reports the end of the connection.
ReadFails(t) ==
    /\ pc[t] = "reading" /\ link = "down"
    /\ Moves(t, "emit")

\* On a connection that stands: a handler of OnMessage throws, a frame cannot be
\* parsed, its rest does not come in time, or two loops read parts of one frame.
ReadThrows(t) ==
    /\ pc[t] = "reading" /\ link = "up"
    /\ failures < opts.failures
    /\ failures' = failures + 1
    /\ newMessage' \in {newMessage, opts.Heartbeat}
    /\ Goto(t, "emit")
    /\ UNCHANGED <<opts, events, source, link, connects, breaks, overlaps, history>>

RecieveMessages(t) == NextRead(t) \/ AfterWait(t) \/ ReadFails(t)

-----------------------------------------------------------------------------
(* HeartbeatSender.  Nothing assigns _heartbeatInterval: it is zero, and the *)
(* wait for a message only looks whether one came since the last look.      *)

NextBeat(t) ==
    /\ t \in Heartbeats /\ AtLoop(t)
    /\ \/ cancelled /\ Moves(t, "ended")
       \/ ~cancelled /\ connected /\ Moves(t, "writing")
       \/ /\ ~cancelled /\ ~connected
          /\ Moves(t, IF ~opts.AutoReconnect THEN "listening" ELSE IF disposed THEN "ended" ELSE "waiting")

\* SendAsync.  An IOException (no connection, or a broken one) is caught, the
\* ObjectDisposedException of a disposed source or stream is not.
Beat(t) ==
    /\ pc[t] = "writing"
    /\ Moves(t, IF connected /\ (cancelled \/ disposed \/ link = "none")
                THEN "ended" ELSE "listening")

\* WaitOneAsync on _newMessage.
Listen(t) ==
    /\ pc[t] = "listening"
    /\ \/ (cancelled \/ disposed) /\ Goto(t, "ended") /\ UNCHANGED newMessage
       \/ ~disposed /\ Goto(t, IF newMessage THEN "delay" ELSE "emit") /\ newMessage' = FALSE
    /\ UNCHANGED <<opts, events, source, link, connects, bounds, history>>

\* Task.Delay for as long as the message took.
BeatDelay(t) ==
    /\ t \in Heartbeats /\ pc[t] = "delay"
    /\ Moves(t, "loop")

HeartbeatSender(t) ==
    NextBeat(t) \/ AfterWait(t) \/ Beat(t) \/ Listen(t) \/ BeatDelay(t)

-----------------------------------------------------------------------------
(* Dispose, called by the user and by Reconnect.                            *)

\* Mutant: the user's ConnectAsync tries again as Reconnect does.
Thrown_alike(a) == "retry"

\* Where the caller of ConnectAsync goes on when it threw.
Thrown(a) == IF a = User THEN "failed" ELSE "retry"

\* The same when it returned.
Returned(a) == IF a = User THEN "done" ELSE "restore"

AtCancel(a) == pc[a] \in {"dispose", "disposeHere"}
AfterCall(a) == IF pc[a] = "dispose" THEN "release" ELSE "releaseHere"

\* _cts.Cancel().
CancelSource(a) ==
    /\ AtCancel(a) /\ ~cancelled /\ ~disposed
    /\ cancelled' = TRUE
    /\ pc' = [b \in DOMAIN pc |-> IF b = a THEN AfterCall(a) ELSE AfterCancel(b)]
    /\ UNCHANGED <<opts, events, newMessage, disposed, deaf, link, connects, bounds, history>>

\* Another caller is between its Cancel and its Dispose: Cancel does nothing.
CancelsAgain(a) ==
    /\ AtCancel(a) /\ cancelled /\ ~disposed
    /\ Goto(a, AfterCall(a))
    /\ overlaps < opts.overlaps
    /\ overlaps' = overlaps + 1
    /\ UNCHANGED <<opts, events, newMessage, source, link, connects, breaks, failures, history>>

\* Mutant: a disposed source is left alone, and Dispose goes on.
CancelThrows_not(a) ==
    /\ AtCancel(a) /\ disposed
    /\ Moves(a, AfterCall(a))

\* Cancel throws on a source that is disposed already.
CancelThrows(a) ==
    /\ AtCancel(a) /\ disposed
    /\ Moves(a, IF a = User THEN "done" ELSE "retry")

\* _cts.Dispose(), of whatever source is the current one by now.
DisposeSource(a) ==
    /\ pc[a] \in {"release", "releaseHere"}
    /\ disposed' = TRUE
    /\ pc' = [pc EXCEPT ![a] = IF pc[a] = "release" THEN "reset" ELSE "resetHere"]
    /\ deaf' = IF cancelled THEN deaf ELSE deaf \union Waiting
    /\ UNCHANGED <<opts, events, newMessage, cancelled, link, connects, bounds, history>>

\* What closing the socket does to its users: their calls throw.
AfterReset(b) ==
    IF pc[b] = "reading" THEN "emit"
    ELSE IF pc[b] \in {"connecting", "shaking"} THEN Thrown(b)
    ELSE pc[b]

\* _client.Reset().  A Reconnect loop that still runs in the thread of
\* _reconnectTask then waits for itself.
ResetSocket(a) ==
    /\ pc[a] \in {"reset", "resetHere"}
    /\ link' = "none"
    /\ pc' = [b \in DOMAIN pc |->
                IF b # a THEN AfterReset(b)
                ELSE IF pc[a] = "resetHere" /\ a \in Latest THEN "stuck"
                ELSE "joining"]
    /\ UNCHANGED <<opts, events, newMessage, source, deaf, connects, bounds, history>>

\* Mutant: Reconnect goes on with the cancelled source.
Join_again(a) ==
    /\ pc[a] = "joining"
    /\ \A t \in Latest : pc[t] # "new"
    /\ Moves(a, IF a = User THEN "disposed" ELSE "connect")

\* Task.WaitAll: the outer tasks end at the first await of the loops.  Only
\* Reconnect goes on, with a new CancellationTokenSource.
Join(a) ==
    /\ pc[a] = "joining"
    /\ \A t \in Latest : pc[t] # "new"
    /\ pc' = [pc EXCEPT ![a] = IF a = User THEN "disposed" ELSE "connect"]
    /\ IF a = User THEN UNCHANGED <<source, deaf>>
       ELSE /\ cancelled' = FALSE /\ disposed' = FALSE
            /\ deaf' = IF cancelled THEN deaf ELSE deaf \union Waiting
    /\ UNCHANGED <<opts, events, newMessage, link, connects, bounds, history>>

Dispose(a) ==
    \/ CancelSource(a) \/ CancelsAgain(a) \/ CancelThrows(a)
    \/ DisposeSource(a) \/ ResetSocket(a) \/ Join(a)

-----------------------------------------------------------------------------
(* ConnectAsync and Handshake, called by the user and by Reconnect.         *)

\* ConnectAsync returns at once when the socket says it is connected, and may
\* say so of a broken one; if not, a used socket does not connect again.  With
\* a disposed source it throws, and the connect it began may still succeed.
Connect(a) ==
    /\ pc[a] = "connect"
    /\ \/ link # "none" /\ Goto(a, Returned(a)) /\ UNCHANGED link
       \/ link = "down" /\ Goto(a, Thrown(a)) /\ UNCHANGED link
       \/ link = "none" /\ ~disposed /\ Goto(a, "connecting") /\ UNCHANGED link
       \/ link = "none" /\ disposed /\ Goto(a, Thrown(a)) /\ link' \in {"none", "up"}
    /\ attended' = (attended /\ link' = link)
    /\ UNCHANGED <<opts, events, newMessage, source, connects, bounds, reported, owed, erased>>

\* The socket connects, and Handshake sends Init with the token of the source.
SendInit(a) ==
    /\ pc[a] = "connecting" /\ link = "none"
    /\ link' = "up"
    /\ attended' = FALSE
    /\ Goto(a, IF cancelled \/ disposed THEN Thrown(a) ELSE "shaking")
    /\ UNCHANGED <<opts, events, newMessage, source, connects, bounds, reported, owed, erased>>

\* The router is away, does not answer in time or answers with something else.
Refused(a) ==
    /\ pc[a] \in {"connecting", "shaking"}
    /\ failures < opts.failures
    /\ failures' = failures + 1
    /\ Goto(a, Thrown(a))
    /\ UNCHANGED <<opts, events, newMessage, source, link, connects, breaks, overlaps, history>>

\* Another task connected this socket, the connection broke, or an older
\* receive loop reads the answer.
AttemptFails(a) ==
    /\ \/ pc[a] = "connecting" /\ link # "none"
       \/ pc[a] = "shaking" /\ link = "down"
       \/ pc[a] = "shaking" /\ \E t \in Receivers : pc[t] = "reading"
    /\ Moves(a, Thrown(a))

\* The tasks of connection n that ConnectAsync starts.
Started(n) ==
    {<<"receive", n>>}
        \union (IF opts.AutoReconnect THEN {<<"reconnect", n>>} ELSE {})
        \union (IF opts.Heartbeat THEN {<<"heartbeat", n>>} ELSE {})

\* The answer comes, and SetConnected.
Connected(a) ==
    /\ pc[a] = "shaking" /\ link = "up" /\ connects < opts.connects
    /\ connected' = TRUE
    /\ Goto(a, "starting")
    /\ UNCHANGED <<opts, lost, restored, newMessage, source, link, connects, bounds, history>>

\* The tasks and OnConnected.
StartTasks(a) ==
    /\ pc[a] = "starting" /\ connects < opts.connects
    /\ connects' = connects + 1
    /\ pc' = [b \in DOMAIN pc |->
                IF b = a THEN Returned(a)
                ELSE IF b \in Started(connects + 1) THEN "new"
                ELSE pc[b]]
    /\ owed' = FALSE
    /\ reported' = (reported /\ opts.AutoReconnect)
    /\ attended' = TRUE
    /\ UNCHANGED <<opts, events, newMessage, source, deaf, link, bounds, erased>>

ConnectAsync(a) ==
    \/ Connect(a) \/ SendInit(a) \/ Refused(a) \/ AttemptFails(a)
    \/ Connected(a) \/ StartTasks(a)

-----------------------------------------------------------------------------
(* Reconnect.                                                              *)

\* The loop condition and the wait for _connectionLost.  If the event is set,
\* the wait may be over before it is awaited: the loop then goes on in the
\* thread of its task, which has not reached an await.
Watch(t) ==
    /\ t \in Reconnectors /\ AtLoop(t)
    /\ \/ Moves(t, IF cancelled \/ disposed THEN "ended" ELSE "watching")
       \/ pc[t] = "new" /\ ~cancelled /\ ~disposed /\ lost /\ Moves(t, "disposeHere")

\* _connectionLost is set.
LossSeen(t) ==
    /\ pc[t] = "watching" /\ lost
    /\ Moves(t, "dispose")

\* SetConnected, a second time.
SetConnected(t) ==
    /\ pc[t] = "restore"
    /\ connected' = TRUE
    /\ Goto(t, "clear")
    /\ UNCHANGED <<opts, lost, restored, newMessage, source, link, connects, bounds, history>>

ResetLost(t) ==
    /\ pc[t] = "clear"
    /\ lost' = FALSE
    /\ erased' = ~connected
    /\ Goto(t, "signal")
    /\ UNCHANGED <<opts, connected, restored, newMessage, source, link, connects, bounds,
                   reported, owed, attended>>

\* _connectionRestored.Set() and OnConnected.
SetRestored(t) ==
    /\ pc[t] = "signal"
    /\ restored' = TRUE
    /\ Goto(t, "loop")
    /\ owed' = FALSE
    /\ UNCHANGED <<opts, connected, lost, newMessage, source, link, connects, bounds,
                   reported, attended, erased>>

\* The catch: a second of delay, with the token of the source.
Retry(t) ==
    /\ t \in Reconnectors
    /\ \/ pc[t] = "retry" /\ Moves(t, IF cancelled \/ disposed THEN "ended" ELSE "delay")
       \/ pc[t] = "delay" /\ Moves(t, "dispose")

Reconnect(t) ==
    Watch(t) \/ LossSeen(t) \/ SetConnected(t) \/ ResetLost(t) \/ SetRestored(t) \/ Retry(t)

-----------------------------------------------------------------------------
(* The user and the network.                                               *)

\* The user calls ConnectAsync, again after it threw.
UserConnects ==
    /\ pc[User] \in {"idle", "failed"}
    /\ Moves(User, "connect")

\* The user disposes the client.
UserDisposes ==
    /\ opts.disposes /\ pc[User] \in {"failed", "done"}
    /\ Moves(User, "dispose")

\* The router ends or the network fails.
Break ==
    /\ link = "up" /\ breaks < opts.breaks
    /\ link' = "down"
    /\ breaks' = breaks + 1
    /\ reported' = (reported /\ ~opts.AutoReconnect)
    /\ owed' = (connects > 0)
    /\ UNCHANGED <<where, opts, events, newMessage, source, connects, failures, overlaps,
                   attended, erased>>

Next ==
    \/ UserConnects \/ UserDisposes \/ Break
    \/ Dispose(User) \/ ConnectAsync(User)
    \/ \E t \in Receivers :
        RecieveMessages(t) \/ EmitDisconnectAndWait(t) \/ Read(t) \/ ReadThrows(t)
    \/ \E t \in Heartbeats : HeartbeatSender(t) \/ EmitDisconnectAndWait(t)
    \/ \E t \in Reconnectors : Reconnect(t) \/ Dispose(t) \/ ConnectAsync(t)

Spec == Init /\ [][Next]_vars

\* Every task gets to run, timers end, a broken connection is reported to who
\* reads from it, and a router that is there answers.
Fairness ==
    /\ WF_vars(Dispose(User) \/ ConnectAsync(User))
    /\ \A t \in Receivers : WF_vars(RecieveMessages(t) \/ EmitDisconnectAndWait(t))
    /\ \A t \in Heartbeats : WF_vars(HeartbeatSender(t) \/ EmitDisconnectAndWait(t))
    /\ \A t \in Reconnectors : WF_vars(Reconnect(t) \/ Dispose(t) \/ ConnectAsync(t))

FairSpec == Spec /\ Fairness

-----------------------------------------------------------------------------
(* Properties.                                                             *)

\* Two callers of Dispose met between Cancel and Dispose of the source.
Overlapped == overlaps > 0

\* Past Cancel, in Dispose.
Replacing(a) ==
    pc[a] \in {"release", "releaseHere", "reset", "resetHere", "stuck", "joining"}

\* One caller of Dispose at a time is past Cancel, unless the second called it
\* while the first was between Cancel and Dispose of the source.
OneReplacer ==
    ~Overlapped => \A a, b \in Owners : Replacing(a) /\ Replacing(b) => a = b

\* The source is cancelled only while it is being replaced or after the user
\* disposed the client, unless two callers overlapped.
CancelledByOne ==
    ~Overlapped => (cancelled <=> pc[User] = "disposed" \/ \E a \in Owners : Replacing(a))

\* A disposed client starts no source of its own any more, unless the user's
\* Dispose and that of Reconnect overlapped.
DisposedStaysDisposed ==
    [][pc[User] = "disposed" /\ ~Overlapped => cancelled' /\ ~Overlapped']_vars

\* OnDisconnected reports every break of a connection that ConnectAsync made,
\* unless the client closes that connection itself or is disposed; without
\* AutoReconnect it may have been raised before, for the same connection.
EveryBreakIsReported ==
    (link = "down" /\ attended) ~> (link # "down" \/ reported \/ pc[User] = "disposed")

\* After the user disposed the client every task ends, unless the user's Dispose
\* and that of Reconnect overlapped.
EveryTaskEnds ==
    (pc[User] = "disposed" /\ ~Overlapped) ~> \A t \in Tasks : pc[t] \in {"none", "ended"}

Disposing == pc[User] \in {"dispose", "release", "reset", "joining", "disposed"}
WaitsForItself == \E t \in Reconnectors : pc[t] = "stuck"
AtBound == connects = opts.connects /\ \E a \in Owners : pc[a] \in {"connecting", "shaking", "starting"}

\* A loss reported between SetConnected and _connectionLost.Reset() is erased:
\* _connected is false, so no later one is signalled either.
Erased == erased /\ ~connected

\* t is not in the inner loop of Reconnect.
AtRest(t) == AtLoop(t) \/ pc[t] \in {"none", "watching", "stuck", "ended"}

\* Two Reconnect loops answer the same loss: each disposes the source and the
\* socket that the other one is connecting with.
Contended == \E t, u \in Reconnectors : t # u /\ ~AtRest(t) /\ ~AtRest(u)

\* ConnectAsync found the socket connected, by an attempt that had thrown: no
\* receive loop was started for it.
Unattended == link # "none" /\ ~attended /\ \A t \in Reconnectors : AtRest(t)

\* A client that lost its connection raises OnConnected again, unless its
\* Reconnect loop waits for itself in Dispose, two of them disturb each other or
\* left it with a socket nobody reads, or an earlier loss was erased.
EveryLossIsAnswered ==
    (owed /\ opts.AutoReconnect)
        ~> \/ ~owed \/ Disposing \/ AtBound
           \/ WaitsForItself \/ Contended \/ Unattended \/ Erased

\* What ReconnectTest waits for (ClientSocketTests.cs): it raises OnConnected.
OnConnectedAgain ==
    (owed /\ opts.AutoReconnect) ~> (~owed \/ Disposing \/ AtBound)

=============================================================================
