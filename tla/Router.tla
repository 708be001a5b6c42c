------------------------------- MODULE Router -------------------------------
(***************************************************************************)
(* The life cycle of the router's connections (Server/Router.cs, the       *)
(* registry half of Server/Network.cs, and the server-side use of          *)
(* InternalHubNetworkClient.cs).                                           *)
(*                                                                         *)
(* Four kinds of threads share the registry of named clients:              *)
(*   - Listen, one loop that accepts connections one at a time, reads      *)
(*     their Init frame, starts their receive loop, registers them and     *)
(*     answers;                                                            *)
(*   - one receive loop per connection, whose failure unregisters a NAME;  *)
(*   - the ServeMessage tasks, which captured a connection from the        *)
(*     registry, write to it later, and on failure unregister its NAME;    *)
(*   - the owner of the router, who calls Start and Stop.                  *)
(* What the frames say and which peer a message is routed to is modelled   *)
(* in module Network; here a task writes to some connection it captured.   *)
(***************************************************************************)
EXTENDS Naturals, FiniteSets

CONSTANTS
    Conns,      \* accepted TCP connections, one InternalHubNetworkClient each
    Names,      \* client names
    NetNames,   \* network names
    NameOf,     \* the name the Init frame of a connection carries
    NetOf,      \* the network name the Init frame of a connection carries
    Tasks,      \* ServeMessage executions that may be in flight at once (bound)
    NoConn,     \* no connection
    MaxStops    \* how often the owner calls Stop (bound)

ASSUME ConnsAssumption ==
    /\ NameOf \in [Conns -> Names]
    /\ NetOf \in [Conns -> NetNames]
    /\ NoConn \notin Conns
    /\ MaxStops \in Nat

VARIABLES
    peer,        \* the client's end of the connection: "new", "open" or "closed"
    inited,      \* connections whose Init frame has reached the router
    listening,   \* the TcpListener is started
    backlog,     \* connections waiting to be accepted
    lpc,         \* where Listen is
    cur,         \* the connection Listen is working on
    rcv,         \* the receive loop of a connection: "off", "on" or "dead"
    hooked,      \* connections whose OnDisconnected handler is attached
    networks,    \* _networks: generation of the live Network object, 0 if none
    gen,         \* generation of the Network object a connection belongs to
    registered,  \* the connections that are in the _clients of their Network
    disposed,    \* connections the router disposed (socket closed)
    task,        \* the write each ServeMessage task is about to do
    cancelled,   \* _cts was cancelled
    spc,         \* where Stop is
    nets,        \* Networks Stop has still to dispose
    at,          \* the Network Stop is disposing, as a set of at most one name
    doomed,      \* connections of that Network Stop has still to dispose
    stops,       \* Stop calls that returned
    \* History variables: no guard reads them.
    told,        \* handshake answer written to a connection
    first,       \* kind of the first frame written to a connection
    admitted,    \* connections AddClient returned true for
    early,       \* connections whose receive loop died before their TryAdd
    failed       \* connections a Network write failed on

peerVars == <<peer, inited, backlog>>
listenVars == <<listening, lpc, cur>>
sessionVars == <<rcv, hooked, gen, disposed>>
stopVars == <<cancelled, spc, nets, at, doomed, stops>>
history == <<told, first, admitted, early, failed>>
vars == <<peerVars, listenVars, sessionVars, networks, registered, task,
          stopVars, history>>

Idle == [to |-> NoConn, gen |-> 0]

TypeOK ==
    /\ peer \in [Conns -> {"new", "open", "closed"}]
    /\ inited \subseteq Conns
    /\ listening \in BOOLEAN
    /\ backlog \subseteq Conns
    /\ lpc \in {"idle", "start", "accept", "read", "hook", "add",
                "accepted", "rejected", "done"}
    /\ cur \in Conns \union {NoConn}
    /\ rcv \in [Conns -> {"off", "on", "dead"}]
    /\ hooked \subseteq Conns
    /\ networks \in [NetNames -> Nat]
    /\ gen \in [Conns -> Nat]
    /\ registered \subseteq Conns
    /\ disposed \subseteq Conns
    \* A write goes through a Network object that was found in _networks.
    /\ task \in [Tasks -> {Idle} \union [to : Conns, gen : Nat \ {0}]]
    /\ cancelled \in BOOLEAN
    /\ spc \in {"idle", "wait", "walk", "dispose"}
    /\ nets \subseteq NetNames
    /\ at \subseteq NetNames
    /\ doomed \subseteq Conns
    /\ stops \in Nat
    /\ told \in [Conns -> {"none", "ok", "error"}]
    /\ first \in [Conns -> {"none", "answer", "data"}]
    /\ admitted \subseteq Conns
    /\ early \subseteq Conns
    /\ failed \subseteq Conns

Init ==
    /\ peer = [c \in Conns |-> "new"]
    /\ inited = {}
    /\ listening = FALSE
    /\ backlog = {}
    /\ lpc = "idle"
    /\ cur = NoConn
    /\ rcv = [c \in Conns |-> "off"]
    /\ hooked = {}
    /\ networks = [n \in NetNames |-> 0]
    /\ gen = [c \in Conns |-> 0]
    /\ registered = {}
    /\ disposed = {}
    /\ task = [t \in Tasks |-> Idle]
    /\ cancelled = FALSE
    /\ spc = "idle"
    /\ nets = {}
    /\ at = {}
    /\ doomed = {}
    /\ stops = 0
    /\ told = [c \in Conns |-> "none"]
    /\ first = [c \in Conns |-> "none"]
    /\ admitted = {}
    /\ early = {}
    /\ failed = {}

-----------------------------------------------------------------------------
(* The registry: Network._clients, a dictionary from names to connections. *)

\* The connections a Network object holds.
Members(net, g) == {d \in registered : NetOf[d] = net /\ gen[d] = g}

\* Mutant: the connection is never given the name of its Init frame.
EntryOf_unnamed(net, g, name) == Members(net, g)

\* The connection a Network object holds for a name, as a set of at most one.
EntryOf(net, g, name) == {d \in Members(net, g) : NameOf[d] = name}

\* The connection that has c's name in c's Network: c itself, another, or none.
Holder(c) == EntryOf(NetOf[c], gen[c], NameOf[c])

Namesakes(c) ==
    {d \in Conns \ {c} : NetOf[d] = NetOf[c] /\ NameOf[d] = NameOf[c]}

\* _clients.TryRemove(client.Name): whatever connection has the name goes.
Unregister(c) == registered' = registered \ Holder(c)

-----------------------------------------------------------------------------
(* Clients: the environment of the router.                                 *)

Connect(c) ==
    /\ peer[c] = "new"
    /\ listening
    /\ peer' = [peer EXCEPT ![c] = "open"]
    /\ backlog' = backlog \union {c}
    /\ UNCHANGED <<inited, listenVars, sessionVars, networks, registered,
                   task, stopVars, history>>

\* InternalHubNetworkClient.Handshake sends Init as its first frame.
SendInit(c) ==
    /\ peer[c] = "open"
    /\ c \notin inited
    /\ inited' = inited \union {c}
    /\ UNCHANGED <<peer, backlog, listenVars, sessionVars, networks,
                   registered, task, stopVars, history>>

\* The client disposes its socket, or the connection is reset.
ClosePeer(c) ==
    /\ peer[c] = "open"
    /\ peer' = [peer EXCEPT ![c] = "closed"]
    /\ UNCHANGED <<inited, backlog, listenVars, sessionVars, networks,
                   registered, task, stopVars, history>>

-----------------------------------------------------------------------------
(* Listen.                                                                 *)

\* Router.Start
Start ==
    /\ lpc = "idle"
    /\ lpc' = "start"
    /\ UNCHANGED <<peerVars, listening, cur, sessionVars, networks,
                   registered, task, stopVars, history>>

\* Mutant: the loop condition is dropped.
NextRound_forever == "accept"

\* while (!_cts.IsCancellationRequested)
NextRound == IF cancelled THEN "done" ELSE "accept"

\* _server.Start() and the first evaluation of the loop condition.  Nothing
\* stops Start() from running after the Stop() that Cancel() triggered.
StartListener ==
    /\ lpc = "start"
    /\ listening' = TRUE
    /\ lpc' = NextRound
    /\ UNCHANGED <<peerVars, cur, sessionVars, networks, registered, task,
                   stopVars, history>>

\* AcceptTcpClientAsync returns a connection; Listen now waits for its Init.
Accept(c) ==
    /\ lpc = "accept"
    /\ listening
    /\ c \in backlog
    /\ backlog' = backlog \ {c}
    /\ cur' = c
    /\ lpc' = "read"
    /\ UNCHANGED <<peer, inited, listening, sessionVars, networks, registered,
                   task, stopVars, history>>

\* AcceptTcpClientAsync throws because the listener was stopped.
AcceptFails ==
    /\ lpc = "accept"
    /\ ~listening
    /\ lpc' = NextRound
    /\ UNCHANGED <<peerVars, listening, cur, sessionVars, networks,
                   registered, task, stopVars, history>>

\* The generation GetOrAdd returns: the Network in the dictionary, or a new
\* one (Stop clears the dictionary, so there is one generation per Stop).
GetOrAdd(net) == IF networks[net] = 0 THEN stops + 1 ELSE networks[net]

\* The Init frame is read: the connection gets its name and its Network, and
\* its receive loop starts (OnMessage handler, StartRecieve).
ReadInit(c) ==
    /\ lpc = "read"
    /\ cur = c
    /\ c \in inited
    /\ gen' = [gen EXCEPT ![c] = GetOrAdd(NetOf[c])]
    /\ networks' = [networks EXCEPT ![NetOf[c]] = GetOrAdd(NetOf[c])]
    /\ rcv' = [rcv EXCEPT ![c] = "on"]
    /\ lpc' = "hook"
    /\ UNCHANGED <<peerVars, listening, cur, hooked, disposed, registered,
                   task, stopVars, history>>

\* Mutant: an exception while reading Init ends the loop.
AfterReadFails_dies == "done"

\* catch (Exception e) around the body of the loop: log and go on.
AfterReadFails == NextRound

\* The connection closes before a whole Init frame is read, the body of the
\* frame times out, or the frame is not an Init: the connection is abandoned.
ReadInitFails(c) ==
    /\ lpc = "read"
    /\ cur = c
    /\ c \in inited \/ peer[c] = "closed"
    /\ lpc' = AfterReadFails
    /\ cur' = NoConn
    /\ UNCHANGED <<peerVars, listening, sessionVars, networks, registered,
                   task, stopVars, history>>

\* Mutant: AddClient forgets to subscribe to OnDisconnected.
Hook_missing(c) ==
    /\ lpc = "hook"
    /\ cur = c
    /\ lpc' = "add"
    /\ UNCHANGED <<peerVars, listening, cur, sessionVars, networks,
                   registered, task, stopVars, history>>

\* Network.AddClient, first statement: client.OnDisconnected += ...
Hook(c) ==
    /\ lpc = "hook"
    /\ cur = c
    /\ hooked' = hooked \union {c}
    /\ lpc' = "add"
    /\ UNCHANGED <<peerVars, listening, cur, rcv, gen, disposed, networks,
                   registered, task, stopVars, history>>

\* Mutant: _clients[client.Name] = client, last one wins.
TryAdd_overwrite(c) ==
    /\ lpc = "add"
    /\ cur = c
    /\ registered' = (registered \ Holder(c)) \union {c}
    /\ admitted' = admitted \union {c}
    /\ lpc' = "accepted"
    /\ UNCHANGED <<peerVars, listening, cur, sessionVars, networks, task,
                   stopVars, told, first, early, failed>>

\* Network.AddClient, second statement: _clients.TryAdd(client.Name, client)
TryAdd(c) ==
    /\ lpc = "add"
    /\ cur = c
    /\ \/ /\ Holder(c) = {}
          /\ registered' = registered \union {c}
          /\ admitted' = admitted \union {c}
          /\ lpc' = "accepted"
       \/ /\ Holder(c) # {}
          /\ lpc' = "rejected"
          /\ UNCHANGED <<registered, admitted>>
    /\ UNCHANGED <<peerVars, listening, cur, sessionVars, networks, task,
                   stopVars, told, first, early, failed>>

\* A frame of this kind is written to c.
Frame(c, kind) == first' = [first EXCEPT ![c] = IF @ = "none" THEN kind ELSE @]

\* The handshake answer is written: the empty frame or the "already connected"
\* error.  The rejected connection is left open, its receive loop running.
Answer(c) ==
    /\ lpc \in {"accepted", "rejected"}
    /\ cur = c
    /\ c \notin disposed
    /\ told' = [told EXCEPT ![c] = IF lpc = "accepted" THEN "ok" ELSE "error"]
    /\ Frame(c, "answer")
    /\ lpc' = NextRound
    /\ cur' = NoConn
    /\ UNCHANGED <<peerVars, listening, sessionVars, networks, registered,
                   task, stopVars, admitted, early, failed>>

\* Writing the answer throws: Listen goes on, the registration stays.
AnswerFails(c) ==
    /\ lpc \in {"accepted", "rejected"}
    /\ cur = c
    /\ lpc' = NextRound
    /\ cur' = NoConn
    /\ UNCHANGED <<peerVars, listening, sessionVars, networks, registered,
                   task, stopVars, history>>

-----------------------------------------------------------------------------
(* Receive loops: RecieveMessages with AutoReconnect off.                  *)

\* Reading fails (closed or disposed socket, malformed frame, body timeout):
\* EmitDisconnectAndWait throws because AutoReconnect is off, its finally
\* block raises OnDisconnected, and the exception ends the loop.  _connected
\* stays true and the socket stays open.
ReceiveFails(c) ==
    /\ rcv[c] = "on"
    /\ rcv' = [rcv EXCEPT ![c] = "dead"]
    /\ IF c \in hooked THEN Unregister(c) ELSE UNCHANGED registered
    /\ early' = IF lpc \in {"hook", "add"} /\ cur = c THEN early \union {c} ELSE early
    /\ UNCHANGED <<peerVars, listenVars, hooked, gen, disposed, networks, task,
                   stopVars, told, first, admitted, failed>>

\* The connection was disposed and the loop condition sees the cancelled _cts:
\* the loop returns without raising OnDisconnected.
ReceiveStops(c) ==
    /\ rcv[c] = "on"
    /\ c \in disposed
    /\ rcv' = [rcv EXCEPT ![c] = "dead"]
    /\ UNCHANGED <<peerVars, listenVars, hooked, gen, disposed, networks,
                   registered, task, stopVars, history>>

-----------------------------------------------------------------------------
(* ServeMessage tasks.                                                     *)

\* Mutant: the result of _networks.TryGetValue is not looked at.
Serve_unchecked(t, s, d) ==
    /\ task[t] = Idle
    /\ rcv[s] # "off"
    /\ told[s] # "none"
    /\ d = s \/ d \in Members(NetOf[s], networks[NetOf[s]])
    /\ task' = [task EXCEPT ![t] = [to |-> d, gen |-> networks[NetOf[s]]]]
    /\ UNCHANGED <<peerVars, listenVars, sessionVars, networks, registered,
                   stopVars, history>>

\* A message read from s, which has its handshake answer, is served: the task
\* looks up the Network object of s's network name and captures a connection
\* to write to, a registered one or (Ack, Error) s itself, registered or not.
Serve(t, s, d) ==
    /\ task[t] = Idle
    /\ rcv[s] # "off"
    /\ told[s] # "none"
    /\ networks[NetOf[s]] # 0
    /\ d = s \/ d \in Members(NetOf[s], networks[NetOf[s]])
    /\ task' = [task EXCEPT ![t] = [to |-> d, gen |-> networks[NetOf[s]]]]
    /\ UNCHANGED <<peerVars, listenVars, sessionVars, networks, registered,
                   stopVars, history>>

\* The write of Network.SendAsync succeeds.
WriteDone(t) ==
    LET c == task[t].to IN
    /\ task[t] # Idle
    /\ c \notin disposed
    /\ Frame(c, "data")
    /\ task' = [task EXCEPT ![t] = Idle]
    /\ UNCHANGED <<peerVars, listenVars, sessionVars, networks, registered,
                   stopVars, told, admitted, early, failed>>

\* It throws (broken or disposed connection, or 30 s with a peer that does not
\* read): Network.SendAsync removes the name from its _clients.
WriteFails(t) ==
    LET c == task[t].to IN
    /\ task[t] # Idle
    /\ registered' = registered \ EntryOf(NetOf[c], task[t].gen, NameOf[c])
    /\ failed' = failed \union {c}
    /\ task' = [task EXCEPT ![t] = Idle]
    /\ UNCHANGED <<peerVars, listenVars, sessionVars, networks, stopVars,
                   told, first, admitted, early>>

-----------------------------------------------------------------------------
(* Stop.                                                                   *)

\* Mutant: Stop forgets _cts.Cancel().
Cancel_missing ==
    /\ spc = "idle"
    /\ stops < MaxStops
    /\ spc' = "wait"
    /\ UNCHANGED <<peerVars, listenVars, sessionVars, networks, registered,
                   task, cancelled, nets, at, doomed, stops, history>>

\* _cts.Cancel(): the first call runs the registered callback, which stops the
\* listener and so resets the connections nobody accepted.  The owner may call
\* Stop before Start: the callback is registered by the constructor.
Cancel ==
    /\ spc = "idle"
    /\ stops < MaxStops
    /\ spc' = "wait"
    /\ cancelled' = TRUE
    /\ \/ /\ ~cancelled
          /\ listening' = FALSE
          /\ backlog' = {}
          /\ peer' = [c \in Conns |-> IF c \in backlog THEN "closed" ELSE peer[c]]
       \/ /\ cancelled
          /\ UNCHANGED <<listening, backlog, peer>>
    /\ UNCHANGED <<inited, lpc, cur, sessionVars, networks, registered, task,
                   nets, at, doomed, stops, history>>

\* Task.WaitAll(_listenTask) waits for the outer task of StartNew(async ...),
\* which ends when Listen first awaits: not for Listen to return.  Before Start
\* _listenTask is a completed task.  Then Stop takes the snapshot
\* _networks.Values.
WaitListen ==
    /\ spc = "wait"
    /\ lpc # "start"
    /\ spc' = "walk"
    /\ nets' = {n \in NetNames : networks[n] # 0}
    /\ UNCHANGED <<peerVars, listenVars, sessionVars, networks, registered,
                   task, cancelled, at, doomed, stops, history>>

\* Network.Dispose takes the snapshot _clients.Values ...
DisposeNetwork(n) ==
    /\ spc = "walk"
    /\ n \in nets
    /\ spc' = "dispose"
    /\ at' = {n}
    /\ doomed' = Members(n, networks[n])
    /\ UNCHANGED <<peerVars, listenVars, sessionVars, networks, registered,
                   task, cancelled, nets, stops, history>>

\* ... disposes its connections one by one ...
DisposeClient(c) ==
    /\ spc = "dispose"
    /\ c \in doomed
    /\ doomed' = doomed \ {c}
    /\ disposed' = disposed \union {c}
    /\ UNCHANGED <<peerVars, listenVars, rcv, hooked, gen, networks, registered,
                   task, cancelled, spc, nets, at, stops, history>>

\* ... and clears _clients, which may have grown since the snapshot.
ClearNetwork(n) ==
    /\ spc = "dispose"
    /\ at = {n}
    /\ doomed = {}
    /\ registered' = registered \ Members(n, networks[n])
    /\ nets' = nets \ {n}
    /\ at' = {}
    /\ spc' = "walk"
    /\ UNCHANGED <<peerVars, listenVars, sessionVars, networks, task, cancelled,
                   doomed, stops, history>>

\* _networks.Clear() and return.  A Network that Listen added after the
\* snapshot is dropped with its clients.
StopReturns ==
    /\ spc = "walk"
    /\ nets = {}
    /\ networks' = [n \in NetNames |-> 0]
    /\ spc' = "idle"
    /\ stops' = stops + 1
    /\ UNCHANGED <<peerVars, listenVars, sessionVars, registered, task,
                   cancelled, nets, at, doomed, history>>

-----------------------------------------------------------------------------
Peers == \E c \in Conns : Connect(c) \/ SendInit(c) \/ ClosePeer(c)

ListenLoop ==
    \/ StartListener \/ AcceptFails
    \/ \E c \in Conns :
          \/ Accept(c) \/ ReadInit(c) \/ ReadInitFails(c)
          \/ Hook(c) \/ TryAdd(c)
          \/ Answer(c) \/ AnswerFails(c)

ServeTask(t) ==
    \/ \E s, d \in Conns : Serve(t, s, d)
    \/ WriteDone(t) \/ WriteFails(t)

Stop ==
    \/ Cancel \/ WaitListen \/ StopReturns
    \/ \E n \in NetNames : DisposeNetwork(n) \/ ClearNetwork(n)
    \/ \E c \in Conns : DisposeClient(c)

Next ==
    \/ Peers
    \/ Start
    \/ ListenLoop
    \/ \E c \in Conns : ReceiveFails(c) \/ ReceiveStops(c)
    \/ \E t \in Tasks : ServeTask(t)
    \/ Stop

Spec == Init /\ [][Next]_vars

\* The thread pool runs Listen and the receive loops whenever they can go on.
\* A client that connected sends its Init or goes away: Handshake sends it
\* right after ConnectAsync.  A receive loop need not fail while its
\* connection is fine, and nobody has to call Start or Stop.
Fairness ==
    /\ WF_vars(ListenLoop)
    /\ \A c \in Conns :
          /\ WF_vars(SendInit(c))
          /\ WF_vars((peer[c] = "closed" \/ c \in disposed) /\ ReceiveFails(c))

FairSpec == Spec /\ Fairness

-----------------------------------------------------------------------------
(* Properties.                                                             *)

\* The router still reads from c and no write to it has failed.
Live(c) == rcv[c] = "on" /\ c \notin disposed \union failed

\* No two connections ask for the same name in the same network.
DistinctNames == \A c \in Conns : Namesakes(c) = {}

\* A connection whose receive loop has ended stays in the registry only if it
\* died inside the handshake, between StartRecieve and TryAdd, or if Stop is
\* disposing it: once AddClient has run, the loop's end and the registration
\* can never miss each other.
\* (Network.AddClient subscribes before it adds; EmitDisconnectAndWait.)
DeadOnlyFromHandshake ==
    \A c \in registered : rcv[c] = "dead" => c \in early \union disposed

\* Before Stop, a connection that AddClient accepted and that is still live
\* is missing from the registry only if a connection with the same name, in
\* the same network, has died or failed a write.  (TryRemove goes by name.)
EvictedOnlyByNamesake ==
    \A c \in admitted :
        (~cancelled /\ Live(c) /\ c \notin registered) =>
            \E d \in Namesakes(c) : rcv[d] = "dead" \/ d \in failed

\* If no two clients share a name, an accepted connection stays registered,
\* under the name it asked for, until it dies, a write to it fails or the
\* router stops: nothing another client does can unregister it.
AcceptedStaysRegistered ==
    DistinctNames =>
        \A c \in admitted : (~cancelled /\ Live(c)) => c \in registered

\* When Stop returns, at most one accepted connection is still live: the one
\* Listen was working on when Stop cancelled it, since Stop does not wait for
\* Listen to finish.
StopLeavesAtMostOne ==
    (DistinctNames /\ stops > 0 /\ spc = "idle") =>
        \A c, d \in admitted : Live(c) /\ Live(d) => c = d

\* Two live connections are never both told that the name is theirs: the
\* second is refused with "Client with name ... already connected"
\* (Server/Router.cs:140).
NameExclusive ==
    \A c \in Conns : \A d \in Namesakes(c) :
        ~(Live(c) /\ Live(d) /\ told[c] = "ok" /\ told[d] = "ok")

\* The first frame a client gets is the answer to its Init: Handshake throws
\* "Error occured during handshake process" on any other
\* (InternalHubNetworkClient.cs:225-230).
AnswerComesFirst == \A c \in Conns : first[c] # "data"

\* While the router runs, every connection is eventually taken out of the
\* accept queue: no earlier client, whatever its handshake does, stops Listen.
EveryConnectionAccepted ==
    \A c \in Conns : (c \in backlog) ~> (c \notin backlog \/ cancelled)

\* After Cancel, a Listen that was started, before Stop or after it, ends,
\* whatever it was doing.
ListenEnds == (cancelled /\ lpc # "idle") ~> (lpc = "done")

=============================================================================
