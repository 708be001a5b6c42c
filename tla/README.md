# HubNetwork in TLA+

HubNetwork is a message hub: clients connect over TCP to a `Router`, name
themselves and a network, and send each other direct, broadcast, random and
round robin messages through it. The server and the client library are C#
(`src/HubNetwork`), a second client is a C++ header (`src/HubNetwork.Cpp`).
This directory holds TLA+ models of it, their TLC configurations and proofs.

## The system

| Part | State | Operations | Interacts with |
|---|---|---|---|
| `Router` (`Server/Router.cs`) | `_networks` (name to Network), the listener, `_cts`, `_listenTask`, `_serveMessages` | `Start`, `Stop`/`Dispose`, the `Listen` loop (accept, read Init, register, answer), `ServeMessage` | Accepts clients, creates Networks, starts one receive loop per connection, runs each message as a task |
| `Network` (`Server/Network.cs`) | `_clients` (name to connection), `_roundRobinIndex` | `AddClient`, `ProcessMessage` (direct, broadcast, random, round robin), `SendAsync`, `Dispose` | Called by Router tasks in parallel; its disconnect handler runs in the receive loops |
| `InternalHubNetworkClient` | `_connected`, `_connectionLost`, `_connectionRestored`, `_newMessage`, `_cts`, three tasks, the socket | `ConnectAsync`, `Handshake`, `RecieveMessages`, `SendAsync`, `ReadAsync`, `EmitDisconnectAndWait`, `Reconnect`, `HeartbeatSender`, `Dispose` | One per connection on both sides; the router switches reconnection and heartbeat off |
| `HubNetworkClient` | `_ackTasks`, `_directResponses` | `SendMessageAsync`, `SendDirectWaitReponseAsync`, `OnInternalMessage` | The public client; matches acks and responses by correlation id |
| `QueueHubNetworkClient` | two bounded buffers, `_completed` | `OfferMessage`, the `OnMessage` handler, `ProcessOut`, `Complete`, `Fault` | Dataflow block around a `HubNetworkClient` |
| Wire format | none | `MessageStream`, `InternalMessage.ToBytes` and its constructor | Length-prefixed frames, shared with the C++ codec |
| `TaskExtentions`, `WaitHandleExtentions` | none | `Timeout`, `Cancellable`, `WaitOneAsync` | Used by every wait of the client |
| C++ client | a port of the client, a header | connect, send, receive, heartbeat | Writes the same frames with two names the other way round; does not compile |

What makes it hard: the threads of the router share a registry keyed by *name*
while they hold *connections*; receive loops start before registration;
registration comes before the handshake's answer; messages are served in
parallel without limit; every write may fail and a failed write changes the
registry; `Stop` does not wait for `Listen`; the client replaces its own
cancellation source, socket and tasks when it reconnects, in a `Dispose` that takes
no lock, and nothing waits for the receive loop of the connection before; a frame is written and
read in pieces, and a write that times out leaves its bytes under way. `PROJECT.json` lists
each hazard at its line with the properties that cover it.

## The modules

Each component has a module that models it, an `MC` module with the values of
its constants for TLC, one `.cfg` per run, and a `Proofs` module. State keeps
the name it has in the code (`_ackTasks` is `ackTasks`), an action is named
after the method or the part of it that runs without interruption, and the
`map` of `PROJECT.json` gives each definition the lines it models. Variables
under "history" are read by properties only. Constants that bound a model are
marked `(bound)` or `bound:`. Definitions named `X_something` and commented
"Mutant" are plausible bugs in `X`: each shows that a property can fail.

### Router

`Router.tla` models `Server/Router.cs` with the registration half of
`Server/Network.cs` and the receive loops the router runs for its connections.
What matters is who is in the registry, so frames have no contents.

| Code | Model |
|---|---|
| `_networks`, `_clients`, keyed by name | `networks` (generation of the live Network object), `registered`, `gen`; `EntryOf` and `Holder` are the lookups by name |
| `Listen` | `lpc`, `cur`; `StartListener`, `Accept`, `ReadInit`, `Hook`, `TryAdd`, `Answer` and their failures, one step per call another thread can come between |
| receive loop of a connection | `rcv`; `ReceiveFails` raises `OnDisconnected`, whose handler removes by name; `ReceiveStops` |
| `ServeMessage` | `task`: a captured connection; `Serve`, `WriteDone`, `WriteFails` (which removes by name) |
| `Stop` | `spc`, `nets`, `at`, `doomed`: `Cancel`, `WaitListen` (returns at once: `_listenTask` is the outer task of an async lambda), the disposal of each network and client |
| the client's end | `peer`, `inited`, `backlog`: connect, send Init, close |

A `Network` object that `Stop` disposed and a later one of the same name are
told apart by their generation: `Listen` may still hold the old one. The owner
may call `Stop` before, while or after `Start` runs; a Listen that was never
started has nothing to end, and one started after the Stop ends (`ListenEnds`).

### Network

`Network.tla` models how `Server/Network.cs` routes a message. Every message is
a task of its own, between whose steps the others and the members change.
`values` is the dictionary in the order it enumerates, which a join may change
in any way (`Orders`, external). `Snapshot`, `Draw`, `Advance` and `ElementAt`
are the separate reads of `Count`, `Values` and the index. `reciever` is the
field `SendAsync` overwrites in a message that all sends of a broadcast share.
A name and its connection are one here; modules Router and Hub have them apart.
`Batches` says which of the messages come in one behaviour, so that one run has all
four types in pairs without having all of them at once (`Together`).

`Delivery.tla` is what a network promises, without saying how it chooses: a
message is accepted or refused by who is a member when it comes, the sender is
told, the receivers are chosen once among the members of that moment, and each
of them gets the message once or is dropped. `ImplementsDelivery` maps Network
to it. The retry loops, the lock and the stale index of Network are stuttering
there: a message stays "ready" until one read of `Values` settles its receivers,
and a message whose loop ends because nobody is left was sent to nobody. A Random
message may be given to its own sender, as `Network.cs:97` draws it; that this is
not what `RandomTest` expects is `RandomReachesAnother`, a finding below.

### Correlation

`Correlation.tla` models `Client/HubNetworkClient.cs`: calls that register under
an id (`TryAdd`), write, wait and time out (`Start`, `Write`, `Resume`,
`Expire`), against the receive loops, which read a frame (`Read`) and hand it out
(`OnInternalMessage`, with `TakeAck`, `TakeResponse` and `Raise` for its
branches). The router and the receiver appear as the frames they send: an ack
goes to the connection the message came from, an answer to whichever connection
has the name, which is how an answer can arrive without its ack.

Every connection has a receive loop, and `Dispose` does not wait for it
(`InternalHubNetworkClient.cs:320, 353`: the task it waits for ended at the first
await). `readers` are the loops that run and `hand` is the frame each has read.
`Break` takes what is on the wire and nothing that was read; the loop of an earlier
connection may hand its frame out after the new loop handed out later ones, read
from the new connection beside it, or end (`LoopEnds`). The ack of an ask and its
answer may then be handed out in the other order: the answer completes the
acknowledgement, the ack the response, and `SendDirectWaitReponseAsync` returns the
ack. A call that lost its message or its connection, or had an earlier loop beside
it when it began, is `disturbed`, and the properties say which part of them holds of
it: `OkAskWasAnswered` that both frames came and were used, once each, and only of
other calls that the result is the answer.

- A call that times out leaves its entry behind, since `Timeout` tells nobody.
  A late frame then completes a task nobody awaits, and an answer whose ack was
  lost is swallowed as that ack. Both are in the model.
- `TaskExtentions.Timeout` never awaits the task it makes for the token, so a
  cancellation does not end the wait; only time does.
- Left out: heartbeats and frames that answer no call, a client that asks
  itself, and two calls with one id at the same time (a repetition after the
  call has ended is in).

### Hub

`Hub.tla` puts Correlation and Network together: the calls and the receive loops
of a client `Me`, the tasks of the router, and the client `Peer` it calls. Each
step is a step of one of the two modules (`C!Start`, `N!Receive`, ...) joined to
what carries its frame. Correlation invents its environment (`Accept`, `Refuse`,
`ForwardAnswer`, `Break`); here that environment is the router, and
`ImplementsCorrelation` shows that the router does nothing else. What the two
modules cannot say alone:

- an ack goes to the connection the message was read from (`sentOn`), an answer
  to the connection that had the name when its task looked it up (`captured`),
  and frames get to the client over its newest connection only (`breaks` numbers them);
- the router learns of a lost connection when its receive loop fails
  (`ReceiveLoopEnds`), not before; a client that reconnects earlier is refused by
  its own entry. `Handshake` takes the refusal for an answer, and when the old
  receive loop ends it removes the name: the client takes itself for connected
  and nobody can reach it until it connects again. Nothing in the repository
  promises otherwise, so this is a remark and no finding. An answer to a call made
  in that state is refused or written to another connection although the connection
  of the call lasts: `NoTimeoutNeeded` claims nothing for it (`missed`). Without heartbeats a
  connection that is lost without an end of stream is never noticed.

### WireFormat and Frames

`WireFormat.tla` has the codecs as operators on bytes: `Body` and `Framed` are
`InternalMessage.ToBytes` and `MessageStream.ToArray`, `Parsed` is the
constructor that reads them, `CppBody` is `to_bytes` of the C++ library. The C++
library writes sender before reciever and ends strings in a zero byte, so the C#
side reads the two names the other way round, with a zero character each
(`ReadAs` in module Frames). A null string or array comes as an empty one.

`Frames.tla` is one direction of a connection, byte by byte: callers of
`SendAsync` (or of the C++ `send_internal`) share `_writeLock`; `Transmit` moves a
piece of a frame as the connection has room; `Read` is one turn of the loop of
`TcpClient.ReadAsync`; `SizeRead`, `BodyRead`, `BodyTimeout` and `ReadEnd` are
`InternalHubNetworkClient.ReadAsync` with its errors. `Abandon` is what follows a
failed read: a client that reconnects closes the socket, the router's side, and a
client that does not, leave it open and unread. `GiveUp` is the timeout of a
write: it leaves the lock while the rest of the frame is still under way. A frame
that is begun behind such a rest (`mixed`) is beyond what `NetworkStream` promises;
the model lets the two go out in any interleaving and the properties end there.

### QueueClient

`QueueClient.tla` models `Client/QueueHubNetworkClient.cs`. Its two queues share
no state but their end, so a behaviour has one of them (`side`), with a strategy
and a size. `Begin`, `RemoveOld` and `Offer` are the handler and `OfferMessage`;
the comparison of `Count` and what follows are separate steps. The handler is
called by receive loops, of which as many as `Loops` may be in it at once
(`MayBegin`): that of an earlier connection and the new one. `ahead` keeps, for each
message, those whose call had ended when its own began; order (`TakenInOrder`) and
"newest" (`IsNewest`) are meant by it, and two messages handed out at once have none.
The bound of the queue holds with `Discard` and `RemoveOld` while no two calls
overlap (`OneByOne`): a second loop past `Count` adds its message too. `Consume` is a
linked target, `ReceiveNext`, `Send` and `SendFails` are `ProcessOut`,
`Complete`, `CompleteBuffers` and `Fault` end the client. Which of several
waiting takers gets a message is left open. What reading the code for it showed:

- the handler's `Receive` blocks the receive loop until the client is completed
  when the queue was emptied after `Count` was read (a handler in "room" with an
  empty buffer); `ReceiveLoopMoves` says that nothing else does;
- `ProcessOut` starts before `ConnectAsync` and ends with the first failed send;
- `Fault` disposes `_cts` and leaves the queues uncompleted, so that a later
  `Complete` throws;
- with `Wait` the receive queue applies no back-pressure, since nobody awaits
  the handler.

### Reconnect

`Reconnect.tla` models `InternalHubNetworkClient.cs` on the client's side. Every
`ConnectAsync` that succeeds starts a receive loop, a heartbeat sender and a
Reconnect loop; those of earlier connections may still run. Tasks are pairs of a
kind and a connection's number, and `pc` says where each is.

| Code | Model |
|---|---|
| `_connected`, `_connectionLost`, `_connectionRestored`, `_newMessage` | `connected`, `lost`, `restored`, `newMessage` |
| `_cts` | `cancelled` and `disposed` of the current source; `deaf`: tasks in a wait whose source was disposed or replaced before it was cancelled, which no cancellation ends any more |
| `_client` | `link`: no connection, up, or broken |
| `RecieveMessages`, `ReadAsync`, `WaitForConnection` | `NextRead`, `AfterWait`, `Read`, `ReadFails`; `ReadThrows`: what the same catch takes on a connection that stands, an exception of a handler, an unparsable frame, one whose rest is late, or one torn between two loops |
| `EmitDisconnectAndWait` | `EmitDisconnect` (under the lock), `AwaitRestored`, `Restored` |
| `HeartbeatSender` | `NextBeat`, `AfterWait`, `Beat`, `Listen`, `BeatDelay` |
| `Dispose` | `_cts.Cancel()` is `CancelSource`, `CancelsAgain` (between another caller's `Cancel` and `Dispose`: it does nothing) or `CancelThrows`; then `DisposeSource`, `ResetSocket`, `Join`, each on whatever source and socket are current by then |
| `ConnectAsync`, `Handshake` | `Connect`, `SendInit`, `Refused`, `AttemptFails`, `Connected` (`SetConnected`), `StartTasks` (the tasks and `OnConnected`) |
| `Reconnect` | `Watch`, `LossSeen`, then `Dispose` and `ConnectAsync`, then `SetConnected`, `ResetLost`, `SetRestored`; `Retry` is the catch |

Cancelling a source decides every wait that took its token, in the same step.
`disposeHere`, `releaseHere` and `resetHere` are `Dispose` in the thread of `_reconnectTask`,
which is where the first pass of the loop is when the wait for `_connectionLost`
is over before it is awaited. `_newMessage` is kept only with a heartbeat, the
one reader it has. `_heartbeatInterval` is assigned to nothing, so a heartbeat
waits zero milliseconds.

`Dispose` holds no lock, and its first two statements are steps of their own. A
second caller that comes between them is not stopped by the exception that stops
every other one. In particular the user's `Dispose` may come while `Reconnect` is
between the two: it returns, `Reconnect` makes a new source (line 185) and connects
the disposed client again. `overlaps` counts such meetings; `OneReplacer`,
`CancelledByOne`, `DisposedStaysDisposed` and `EveryTaskEnds` say what holds as long
as there was none (`Overlapped`), since after one none of them does. Nothing in the
repository says what a `Dispose` leaves behind, so it is a hazard of
`PROJECT.json` and no finding.

`EveryLossIsAnswered` names the ways in which a client with reconnection never raises
`OnConnected` after a loss:

- its Reconnect loop waits for itself (`WaitsForItself`, finding 3);
- two Reconnect loops answer one loss, and each disposes what the other is
  connecting with, for as long as they meet (`Contended`);
- they end with a socket that is connected and has no receive loop, since
  `ConnectAsync` returns at once (line 293) while the socket says it is connected
  (`Unattended`);
- a loss was reported, by a heartbeat for instance, between the `SetConnected` of
  `Reconnect` (line 189) and `_connectionLost.Reset()` (191). It is erased:
  `_connected` is false, so that a later loss is not signalled either, and the
  receive loop, for which `_connectionRestored` is set, fails again and again
  (`Erased`).

What else the model shows and no property forbids:

- `OnConnected` is raised twice for a reconnection, by `ConnectAsync` and by
  `Reconnect`;
- the user's `Dispose` throws when it comes after both statements of Reconnect's,
  and the client connects again although it was disposed;
- without reconnection a receive loop that a handler's exception ended reports the
  loss of a connection that stands, and the real one later is reported by nobody;
- a connect that `Dispose` abandoned may still succeed and leave an open socket.

## What each run checks

`tlc -workers 2 -config <cfg> <module>`. All are exhaustive for their bounds.

| Run | Instance | Shows |
|---|---|---|
| `router_stop` | three connections in two networks, one name used once in each, two Stops, no tasks | Nothing unregisters another's connection; Stop leaves at most the connection Listen was at. Tasks are left out for size; theorem `DistinctStayRegistered` covers them |
| `router_live` | two connections that ask for one name, one task, one Stop, with fairness | Type correctness; a dead connection in the registry died in its handshake; only a namesake evicts; Listen takes every connection and ends |
| `network_mixed` | three clients, one join or leave, with fairness; in one behaviour come two messages of these pairs: a direct message and a broadcast of one client, a broadcast and a direct message without ack to its sender, the two direct messages, a random and a round robin message, two round robin messages | Addressees, replies, nobody who stayed is missed or served twice; the shared index: balance, the retry loops end; routing implements `Delivery`. Two messages and a leave reach the wrap of the index and its staleness; balance is proved for any number |
| `correlation_own` | an ask and a call without ack, two lost connections, three receive loops | Frames complete the right call, late or not, and what other orders the loops can bring. Repeated ids are covered by theorem `ReturnedWasAccepted` |
| `hub` | one ask, one lost connection, Peer joins or leaves twice, with fairness | The router is the environment Correlation assumes; what is acked is forwarded; an undisturbed call needs its timeout only when the router refused its answer or wrote it to another connection. Theorem `HubImplementsCorrelation` covers any number of losses |
| `frames` | two calls of either library, pieces of seven bytes or the rest, twenty bytes in the connection, with fairness | Whole messages in order, also after a timeout; callers of a peer that does not read end. Frames are longer than the connection holds, and pieces end inside sizes and fields. `RoundTrip` is an assumption TLC evaluates: what the C# library writes it reads, with lengths of 0, 1, 255 and 256 |
| `queue` | three messages, both queues, three strategies, no bound and sizes one and two, two receive loops, with fairness | Order, what each strategy keeps, what a failed send loses, progress of the send queue and of the receive loop |
| `reconnect` | with reconnection, two connections and one break: with a failure (an attempt, or a read on a connection that stands), with two callers of `Dispose` that meet, or with a user who disposes the client; one connection, one break and a user who disposes: with reconnection, heartbeats and a meeting, and without reconnection with a failure, with and without heartbeats; with fairness | Who replaces the source, a disposed client stays so, tasks end, losses are reported and answered |
| `router_names`, `router_answer`, `network_random`, `reconnect_again` | smallest that show it | The findings below |

The bounds: a break, a Stop, a join that meets another actor at every one of its
steps is the interesting case, and one of each suffices for that; two Stops, two
connections and three clients give a stale object, task or entry from an earlier
round and one that replaced it. Where a bound leaves something out, the theorem
for the property covers it, except for the liveness properties. Heartbeats are
checked with one connection only: with two the space passes seventeen million
states. No run therefore has a heartbeat sender that waits until another connection
is there (`AfterWait` of a heartbeat), nor one whose report is erased; the erased
report of a receive loop is in the run, and the theorems of `ReconnectProofs`
include both. A failure and a meeting in `Dispose` are in options of their own for
size. Messages of a network race in pairs for size, since a task meets another through
the members, the index and the lock only; the queue has three messages, of which two are handed out at once and a third
before, after or between.

No run checks for deadlock: clients and owners may stop at any time. Ends that
are not allowed show as violations of the liveness properties.

### Fairness

- Router: `Listen` runs on its own thread, and a receive loop whose socket was
  closed gets the error. A client that connected sends its Init or closes; the
  router reads the size of the first frame without a timeout, so without this
  one silent client holds up all others, and `EveryConnectionAccepted` fails.
  Nobody has to call `Start` or `Stop`.
- Network: the thread pool runs every task, and a write ends, if only by its
  timeout of 30 seconds.
- Hub: the receive loop of the newest connection, the router's tasks and a call that can go on do. None on the
  receive loops of earlier connections (their wait for a read may be for good), on
  `Expire` (a timeout is not needed), `Answer` (nobody has to answer),
  `Reconnect` and `ReceiveLoopEnds` (the router may never notice a loss).
- Frames: a caller that has the lock, or may have it, and its timer; the operating
  system moves the bytes of every write, whether its caller waits or not; the
  receive loop. None on `Break`, on calls, and on a handler that blocks (`rpc`
  "busy" is for good).
- QueueClient: a handler that has begun, `ProcessOut`, and a `BufferBlock` takes what it postponed. None on
  callers, targets and the end.
- Reconnect: each task and the user's call that is under way goes on. None on
  messages (`Read`, `ReadThrows`), breaks and what the user decides.

## What is proved

Checked by `tlapm` for all values of the constants. Every invariant, every action
property and both refinements that a passing run checks are theorems.

| Module | Theorems | Argument |
|---|---|---|
| `RouterProofs` | `TypeCorrect`, `NoHiddenDead`, `OnlyNamesakesEvict`, `DistinctStayRegistered`, `StopSparesAtMostOne` | What the registry has depends on where Listen and Stop are with a connection; the invariants add those places to the properties: between StartRecieve and TryAdd a connection is Listen's, and Stop's remaining work is exactly what is still registered |
| `NetworkProofs` | `TypeCorrect`, `FramesNameTheirReceiver`, `DeliveredAtMostOnce`, `ReplyComesFirst`, `StayersServed`, `RoundRobinIsBalanced` | `MembersInv` (members occur once in `values`), `DeliveryInv` (what a task has sent, is writing and has to do are disjoint and cover who stayed), `ReplyInv` and `ServeInv` (what each label says of them). For balance `TurnInv`: one task has the lock; members the index has passed in this round were chosen once more than the others |
| `DeliveryProofs` | `NetworkImplementsDelivery` | Each action of Network is mapped by a lemma of its own, under the invariants of `NetworkProofs`; the steps of the retry loops and of the lock change no phase, receivers or members, and are stutters |
| `CorrelationProofs` | `TypeCorrect`, `ReturnedWasAccepted`, `ReturnedAskWasAnswered`, `FramesComplete`, `OnlyMessagesRaised` | One invariant `Inv` of six parts. A frame says of its message only what happened (`MessageInv`), is on the wire, in the hand of one loop or handled, once, and a refused message has no other (`FrameInv`); entries and results belong to their id (`AckInv`, `ResponseInv`). `OwnInv`: a call with an id of its own waits in `_ackTasks` until the first of its frames is handled and an ask in `_directResponses` until the second is, in whatever order the loops hand them out; and for an undisturbed call there is one loop, the reply is on its way until the call has it, and the answer stays behind it (`InOrder`) |
| `HubProofs` | `HubImplementsCorrelation`, `HubCallsAreSound` (no property of a run: it says of Hub what run `correlation_own` checks of Correlation) | A router task starts only for a message that was read, and sends once (`TaskOk`); a call that has not written has no message on its way (`CallOk`). Hence an ack, a refusal or an answer the router writes is one that `Accept`, `Refuse` or `ForwardAnswer` allows. The theorems of `CorrelationProofs` then hold of Hub, by an instance of that module |
| `QueueProofs` | `TypeCorrect`, `SentInOrder`, `TakenAsTheyCame`, `WaitAlonePilesUp`, `NewestStays` | `SendInv`: what `ProcessOut` has in hand is the difference of taken and sent. `CameInv`: a message that is ahead of another has ended (`AheadEnded`), and what is in a queue or taken is past its handler (`Handled`). On it stand `LineInv` (in taken, buffer and postponed, one after the other, nothing stands behind what it was ahead of), `RoomInv` (while messages were handed out one by one, and with a strategy that does not wait, a handler about to offer finds room) and `KeptInv` (the message handed out after all others is in reach) |
| `ReconnectProofs` | `TypeCorrect`, `OneReplaces` (not a property of a run: `CancelledByOne` says more), `CancelledWhileReplaced`, `NothingReplacesDisposed` | Until two callers meet, the source is cancelled exactly while one caller is past `Cancel` or the user has disposed the client, and it is disposed unless that caller is still before `_cts.Dispose()` (`Released`); `Cancel` then throws for everybody else, so whoever is past it is alone. Needs which labels a task can have, that nobody replaces after the user's `Dispose` (`NobodyAfterUser`), and that tasks of later connections have not started (`Unstarted`). With `CancelsAgain` the premise ends, for good |
| `FramesProofs` | `MessagesRoundTrip` (of the codec, for every message; run `frames` has its instances as assumption `RoundTrip`), `FramesAreIntact` | Codec: an int is read from its four bytes, a field from a string that goes on behind it, hence the five fields one after the other. Stream: while no frame was begun behind an abandoned one there are bytes `T`, all of the frames begun so far, and places `at` where each ends; `Reader`: what was read and what is in the connection are the next bytes of `T`; `Sender`: only the last call has bytes left, and they are its end. A read that finishes a body therefore ends at the next place, and the codec part says what it read. Once the reader gave the connection up nothing is read any more (`Closed`), whether the socket is closed or left open |

Assumptions, each in the module that declares the constant and evaluated by TLC:
constants have their types, clients are finite, and ids of asks are unique
(`ConnsAssumption`, `MessagesAssumption`, `CallsAssumption`, `OptionsAssumption`,
`BoundsAssumption`), and there is a receive loop and queues have a size
(`LoopsAssumption`, `SizesAssumption`); for Hub the same (`HubCallsAssumption`) and that the two
clients have different names (`HubAssumption`). `FramesAssumption` adds that the
size of each message is an int, since `ToBytes` counts with one and the array
could not be longer.
`NullAssumption` says that null is no string of bytes.

Only model-checked are the liveness properties, for which the prover has no rule
of fairness and ENABLED: `EveryConnectionAccepted` and `ListenEnds` (Router),
`EveryTaskEnds` (Network, Reconnect), `AckedIsForwarded` and `NoTimeoutNeeded`
(Hub), `EveryFrameIsRead` and `EveryCallEnds` (Frames), `SendQueueMoves` and
`ReceiveLoopMoves` (QueueClient), `EveryBreakIsReported` and `EveryLossIsAnswered`
(Reconnect). Induction over data is out of the prover's reach: the fields of a
message are five, and the bytes of a connection grow by the steps of the
specification, so neither part of `FramesProofs` needs it. No module has a
RECURSIVE operator.

## Findings

1. `router_names` (`Network.cs:28`): the disconnect handler of a refused
   connection unregisters the connection that has the name; a third is then
   accepted under the name of the first, which is still served.
2. `router_answer` (`Router.cs:127`): a client is registered before its
   handshake is answered, so a message of another client may be the first frame
   it reads, and its handshake fails.
3. `reconnect_again` (`InternalHubNetworkClient.cs:353`): a Reconnect loop that
   finds the loss already signalled calls `Dispose` in the thread of
   `_reconnectTask`, and waits for itself. `ReconnectTest` expects `OnConnected`.
4. `network_random` (`Network.cs:97`): `SendRandom` draws among all clients, the
   sender included. `RandomTest` waits for the message on the others only.

Also seen, and not a property: `Handshake` accepts a refusal, since it compares
only the correlation id; messages sent without ack still get error frames, which
reach `OnMessage`; nothing promises an order of two messages of one sender;
`ErrorPayload` and `Cancellable` have no callers; an exception in the `async
void` handler of `QueueHubNetworkClient` ends the process.

## What is not modelled

- The C++ client beyond the frames it writes. The header does not compile:
  `concurrent_map::add` inserts a key and a value into a `std::map`
  (hub_network_client.hpp:63), `operator>>(std::string&)` returns nothing
  (message_stream.hpp:61). Read as it stands it could not connect either:
  `read_bytes` (167) fills a copy of its argument, so that every size is 0;
  `create_guid` (183) writes through a pointer nobody set; `_running` and
  `_connected` (140, 145) are never initialised. To the router such a client is one
  that sends its Init and closes, which module Router has.
- `asio` is vendored. It is 110,000 of the 113,000 lines of the repository, so
  that all of the rest is a small share of the lines.
- Options, logging, `ErrorPayload`: constants, output, and code nobody calls.
- Tests: read for what they expect (findings 3 and 4).
- What a string encoding does to a name or an id: strings are the bytes of their
  UTF-8 encoding, and the server compares names as strings.
- Two receive loops that read one stream after a reconnection are in modules
  Correlation and Hub as far as they get whole frames, and in module Reconnect
  (`ReadThrows`) when they tear one; module Frames, which has the bytes, has one loop.
- What a client does after two callers of `Dispose` met: the steps are in module
  Reconnect, and only `EveryBreakIsReported` and `EveryLossIsAnswered` speak of them.

## Plan

Done: Router, Network, Correlation, QueueClient, Reconnect, in the order of how
much of the system depends on each; then Delivery and Hub, the refinement and the
composition; WireFormat and Frames; then the proofs of all
safety properties and refinements. An abstract specification of the registry was
dropped: `AcceptedStaysRegistered`, which is proved, is all it would say. What is
left, in order:

1. `AtMostOnce` and `ReplyBeforeDelivery` stated and proved of `Delivery` itself,
   so that they hold for whatever implements it.
2. The safety half of a liveness property, where there is one: that a message
   whose caller has the ack is on its way, sent or failed (`AckedIsForwarded`).
