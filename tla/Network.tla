------------------------------ MODULE Network ------------------------------
(***************************************************************************)
(* Message routing inside one network of the router (Server/Network.cs).   *)
(*                                                                         *)
(* Router.ServeMessage runs ProcessMessage for every received message in a *)
(* task of its own, with no limit on their number and no order between     *)
(* them (the ActionBlock has MaxDegreeOfParallelism = -1).  The tasks      *)
(* interleave with each other and with clients joining (Router.Listen) and *)
(* leaving (receive loops, failed writes).  A client stands for a name and *)
(* the connection that currently has it.                                   *)
(***************************************************************************)
EXTENDS Integers, Sequences, FiniteSets

CONSTANTS
    Clients,    \* names
    Messages,   \* messages the clients send
    TypeOf,     \* InternalMessage.Type
    SenderOf,   \* the client whose receive loop read the message
    TargetOf,   \* InternalMessage.Reciever, which only Direct messages use
    NoAck,      \* messages with the NoAck flag
    Batches,    \* the messages that come in one behaviour, as a set (bound)
    MaxChurn    \* how often clients join and leave (bound)

Types == {"Direct", "Broadcast", "Random", "RoundRobin"}

ASSUME MessagesAssumption ==
    /\ IsFiniteSet(Clients)
    /\ TypeOf \in [Messages -> Types]
    /\ SenderOf \in [Messages -> Clients]
    /\ TargetOf \in [Messages -> Clients]
    /\ NoAck \subseteq Messages
    /\ MaxChurn \in Nat

VARIABLES
    values,      \* _clients.Values, in the order the dictionary enumerates them
    rrIndex,     \* _roundRobinIndex
    pc,          \* where the task of a message is
    todo,        \* clients the task has still to send the message to
    index,       \* the index SendRandom drew
    reciever,    \* msg.Reciever, which SendAsync overwrites for every client
    writing,     \* clients the message is being written to
    churn,       \* joins and leaves so far
    \* History variables: no guard reads them.
    replies,     \* "ack" and "error" frames written to the sender, in order
    sent,        \* frames of the message written to clients, in order
    failedTo,    \* clients a write of the message or of its reply failed on
    stayed,      \* clients that have been members since the task started
    picks,       \* how often round robin chose a client
    changed      \* the members have changed

taskVars == <<pc, todo, index, reciever, writing>>
history == <<replies, sent, failedTo, stayed, picks, changed>>
vars == <<values, rrIndex, taskVars, churn, history>>

Labels == {"new", "ack", "error", "route", "lock", "element", "send", "done"}

Frames == [to : Clients, reciever : Clients]

TypeOK ==
    /\ values \in Seq(Clients)
    /\ rrIndex \in Nat \union {-1}
    /\ pc \in [Messages -> Labels]
    /\ todo \in [Messages -> Seq(Clients)]
    /\ index \in [Messages -> Nat]
    /\ reciever \in [Messages -> Clients]
    /\ writing \in [Messages -> SUBSET Clients]
    /\ churn \in Nat
    /\ replies \in [Messages -> Seq({"ack", "error"})]
    /\ sent \in [Messages -> Seq(Frames)]
    /\ failedTo \in [Messages -> SUBSET Clients]
    /\ stayed \in [Messages -> SUBSET Clients]
    /\ picks \in [Clients -> Nat]
    /\ changed \in BOOLEAN

Elements(q) == {q[i] : i \in 1..Len(q)}

Members == Elements(values)

\* Every order in which a dictionary may enumerate the clients of S.
Orders(S) == {q \in [1..Cardinality(S) -> S] : Elements(q) = S}

\* q, in which nothing occurs twice, without c.
Without(q, c) ==
    IF c \notin Elements(q) THEN q
    ELSE LET k == CHOOSE i \in 1..Len(q) : q[i] = c
         IN  [i \in 1..(Len(q) - 1) |-> q[IF i < k THEN i ELSE i + 1]]

\* The Network has some members already and no message.
Init ==
    /\ \E S \in SUBSET Clients : values \in Orders(S)
    /\ rrIndex = -1
    /\ pc = [m \in Messages |-> "new"]
    /\ todo = [m \in Messages |-> <<>>]
    /\ index = [m \in Messages |-> 0]
    /\ reciever = TargetOf
    /\ writing = [m \in Messages |-> {}]
    /\ churn = 0
    /\ replies = [m \in Messages |-> <<>>]
    /\ sent = [m \in Messages |-> <<>>]
    /\ failedTo = [m \in Messages |-> {}]
    /\ stayed = [m \in Messages |-> {}]
    /\ picks = [c \in Clients |-> 0]
    /\ changed = FALSE

-----------------------------------------------------------------------------
(* Membership.                                                             *)

\* AddClient succeeds.  The new entry may go anywhere in the enumeration, and
\* a dictionary that grows reorders all of it.
Join(c) ==
    /\ c \notin Members
    /\ churn < MaxChurn
    /\ churn' = churn + 1
    /\ values' \in Orders(Members \union {c})
    /\ changed' = TRUE
    /\ UNCHANGED <<rrIndex, taskVars, replies, sent, failedTo, stayed, picks>>

\* _clients.TryRemove(c)
Remove(c) ==
    /\ values' = Without(values, c)
    /\ stayed' = [m \in Messages |-> stayed[m] \ {c}]
    /\ changed' = (changed \/ c \in Members)

\* The receive loop of c ends, or that of another connection of its name.
Leave(c) ==
    /\ c \in Members
    /\ churn < MaxChurn
    /\ churn' = churn + 1
    /\ Remove(c)
    /\ UNCHANGED <<rrIndex, taskVars, replies, sent, failedTo, picks>>

-----------------------------------------------------------------------------
(* ProcessMessage.                                                         *)

GoTo(m, label) == pc' = [pc EXCEPT ![m] = label]

\* Mutant: the NoAck flag is read the wrong way round.
AckFirst_inverted(m, label) == IF m \in NoAck THEN "ack" ELSE label

\* if (!msg.NoAck) await Ack(...)
AckFirst(m, label) == IF m \in NoAck THEN label ELSE "ack"

\* m comes with the messages that have come before it (Batches is a bound).
Together(m) ==
    \E B \in Batches : {k \in Messages : pc[k] # "new"} \union {m} \subseteq B

\* The task of m starts: SendDirect looks its receiver up, the others ack first.
Receive(m) ==
    /\ pc[m] = "new"
    /\ Together(m)
    /\ \/ /\ TypeOf[m] = "Direct"
          /\ TargetOf[m] \in Members
          /\ todo' = [todo EXCEPT ![m] = <<TargetOf[m]>>]
          /\ GoTo(m, AckFirst(m, "send"))
       \/ /\ TypeOf[m] = "Direct"
          /\ TargetOf[m] \notin Members
          /\ GoTo(m, "error")
          /\ UNCHANGED todo
       \/ /\ TypeOf[m] # "Direct"
          /\ GoTo(m, AckFirst(m, "route"))
          /\ UNCHANGED todo
    /\ stayed' = [stayed EXCEPT ![m] = Members]
    /\ UNCHANGED <<values, rrIndex, index, reciever, writing, churn, replies,
                   sent, failedTo, picks, changed>>

\* A write to c throws: SendAsync swallows the exception and removes c.
WriteFails(m, c) ==
    /\ Remove(c)
    /\ failedTo' = [failedTo EXCEPT ![m] = @ \union {c}]

\* Mutant: the task ends with its reply.
AfterReply_forgets(m) == "done"

\* Where the task goes on after its reply: an error ends it.
AfterReply(m) ==
    CASE pc[m] = "error"      -> "done"
      [] pc[m] = "ack" /\ TypeOf[m] = "Direct" -> "send"
      [] pc[m] = "ack" /\ TypeOf[m] # "Direct" -> "route"

\* Ack, or the "No reciever" error: SendAsync to the sender.  The task goes on
\* whether the write succeeds or not.
Reply(m) ==
    /\ pc[m] \in {"ack", "error"}
    /\ GoTo(m, AfterReply(m))
    /\ \/ /\ replies' = [replies EXCEPT ![m] = Append(@, pc[m])]
          /\ UNCHANGED <<values, stayed, changed, failedTo>>
       \/ /\ WriteFails(m, SenderOf[m])
          /\ UNCHANGED replies
    /\ UNCHANGED <<rrIndex, todo, index, reciever, writing, churn, sent, picks>>

\* Mutant: the broadcast includes its sender.
Snapshot_all(m) ==
    /\ pc[m] = "route"
    /\ TypeOf[m] = "Broadcast"
    /\ todo' = [todo EXCEPT ![m] = values]
    /\ GoTo(m, IF todo'[m] = <<>> THEN "done" ELSE "send")
    /\ UNCHANGED <<values, rrIndex, index, reciever, writing, churn, history>>

\* SendBroadcast: the snapshot _clients.Values without the sender.
Snapshot(m) ==
    /\ pc[m] = "route"
    /\ TypeOf[m] = "Broadcast"
    /\ todo' = [todo EXCEPT ![m] = Without(values, SenderOf[m])]
    /\ GoTo(m, IF todo'[m] = <<>> THEN "done" ELSE "send")
    /\ UNCHANGED <<values, rrIndex, index, reciever, writing, churn, history>>

\* while (_clients.Count > 0) in SendRandom and SendRoundRobin: nobody is left.
NobodyLeft(m) ==
    /\ pc[m] = "route"
    /\ TypeOf[m] \in {"Random", "RoundRobin"}
    /\ values = <<>>
    /\ GoTo(m, "done")
    /\ UNCHANGED <<values, rrIndex, todo, index, reciever, writing, churn, history>>

\* _rnd.Next(0, _clients.Count).  A Count that has become 0 since the loop
\* condition draws 0, like the Count of 1 before it.
Draw(m) ==
    /\ pc[m] = "route"
    /\ TypeOf[m] = "Random"
    /\ \E i \in 0..(Len(values) - 1) : index' = [index EXCEPT ![m] = i]
    /\ GoTo(m, "element")
    /\ UNCHANGED <<values, rrIndex, todo, reciever, writing, churn, history>>

\* Somebody is left: SendRoundRobin goes for _roundRobinLock.
WantLock(m) ==
    /\ pc[m] = "route"
    /\ TypeOf[m] = "RoundRobin"
    /\ values # <<>>
    /\ GoTo(m, "lock")
    /\ UNCHANGED <<values, rrIndex, todo, index, reciever, writing, churn, history>>

\* Mutant: the index counts down.
NextIndex_down == IF rrIndex - 1 >= Len(values) THEN 0 ELSE rrIndex - 1

\* Mutant: the index wraps one client too early.
NextIndex_early == IF rrIndex + 1 >= Len(values) - 1 THEN 0 ELSE rrIndex + 1

\* Mutant: the index is clamped instead of reset.
NextIndex_clamped == IF rrIndex + 1 >= Len(values) THEN Len(values) ELSE rrIndex + 1

\* _roundRobinIndex++, reset to 0 when it reaches _clients.Count
NextIndex == IF rrIndex + 1 >= Len(values) THEN 0 ELSE rrIndex + 1

HasLock(m) == TypeOf[m] = "RoundRobin" /\ pc[m] = "element"

\* Under the lock, the index moves on.  Members may still come and go.
Advance(m) ==
    /\ pc[m] = "lock"
    /\ \A k \in Messages : ~HasLock(k)
    /\ rrIndex' = NextIndex
    /\ GoTo(m, "element")
    /\ UNCHANGED <<values, todo, index, reciever, writing, churn, history>>

\* Mutant: an index that is out of range ends the loop.
Retry_never == "done"

\* catch (ArgumentOutOfRangeException) { continue; }
Retry == "route"

\* _clients.Values.ElementAt(...), on a fresh snapshot; the lock is released.
ElementAt(m) ==
    LET i == IF TypeOf[m] = "Random" THEN index[m] ELSE rrIndex IN
    /\ pc[m] = "element"
    /\ \/ /\ i < Len(values)
          /\ todo' = [todo EXCEPT ![m] = <<values[i + 1]>>]
          /\ picks' = IF TypeOf[m] = "RoundRobin"
                      THEN [picks EXCEPT ![values[i + 1]] = @ + 1] ELSE picks
          /\ GoTo(m, "send")
       \/ /\ i >= Len(values)
          /\ GoTo(m, Retry)
          /\ UNCHANGED <<todo, picks>>
    /\ UNCHANGED <<values, rrIndex, index, reciever, writing, churn, replies,
                   sent, failedTo, stayed, changed>>

\* Mutant: SendAsync returns before the write is done, so that the lazy Select
\* of SendBroadcast goes on to the next client.
Address_async(m) ==
    /\ pc[m] = "send"
    /\ todo[m] # <<>>
    /\ reciever' = [reciever EXCEPT ![m] = Head(todo[m])]
    /\ writing' = [writing EXCEPT ![m] = @ \union {Head(todo[m])}]
    /\ todo' = [todo EXCEPT ![m] = Tail(@)]
    /\ UNCHANGED <<values, rrIndex, pc, index, churn, history>>

\* Network.SendAsync: msg.Reciever = client.Name.  InternalHubNetworkClient's
\* SendAsync blocks until the write is done, so one client is served at a time.
Address(m) ==
    /\ pc[m] = "send"
    /\ writing[m] = {}
    /\ todo[m] # <<>>
    /\ reciever' = [reciever EXCEPT ![m] = Head(todo[m])]
    /\ writing' = [writing EXCEPT ![m] = {Head(todo[m])}]
    /\ todo' = [todo EXCEPT ![m] = Tail(@)]
    /\ UNCHANGED <<values, rrIndex, pc, index, churn, history>>

\* Mutant: the break after SendAsync is missing.
AfterWrite_loops(m) ==
    CASE todo[m] # <<>> \/ writing'[m] # {} -> "send"
      [] OTHER -> IF TypeOf[m] \in {"Random", "RoundRobin"} THEN "route" ELSE "done"

\* Mutant: Task.WhenAny instead of Task.WhenAll.
AfterWrite_any(m) == "done"

\* The next client of the broadcast, or break and the end of the method.
AfterWrite(m) == IF todo[m] = <<>> /\ writing'[m] = {} THEN "done" ELSE "send"

\* The message is serialised and written to c under c's _writeLock.
Write(m, c) ==
    /\ c \in writing[m]
    /\ writing' = [writing EXCEPT ![m] = @ \ {c}]
    /\ \/ /\ sent' = [sent EXCEPT ![m] = Append(@, [to |-> c, reciever |-> reciever[m]])]
          /\ UNCHANGED <<values, stayed, changed, failedTo>>
       \/ /\ WriteFails(m, c)
          /\ UNCHANGED sent
    /\ GoTo(m, AfterWrite(m))
    /\ UNCHANGED <<rrIndex, todo, index, reciever, churn, replies, picks>>

-----------------------------------------------------------------------------
Task(m) ==
    \/ Receive(m) \/ Reply(m)
    \/ Snapshot(m)
    \/ NobodyLeft(m) \/ Draw(m) \/ WantLock(m) \/ Advance(m) \/ ElementAt(m)
    \/ Address(m)
    \/ \E c \in Clients : Write(m, c)

Next ==
    \/ \E c \in Clients : Join(c) \/ Leave(c)
    \/ \E m \in Messages : Task(m)

Spec == Init /\ [][Next]_vars

-----------------------------------------------------------------------------
(* The abstract specification.                                             *)

\* The clients m was written to.
Receivers(m) == {sent[m][i].to : i \in 1..Len(sent[m])}

\* A Direct message whose reply is written goes to its receiver, and nobody has
\* chosen yet whom a Random or RoundRobin message goes to.
IsReady(m) ==
    \/ pc[m] \in {"route", "lock", "element"}
    \/ pc[m] = "send" /\ TypeOf[m] = "Direct" /\ todo[m] # <<>>

\* The phase of module Delivery a message is in.
Phase(m) ==
    IF pc[m] = "new" THEN "new"
    ELSE IF pc[m] = "ack" THEN "accepted"
    ELSE IF pc[m] = "error" THEN "refused"
    ELSE IF IsReady(m) THEN "ready"
    ELSE IF pc[m] = "send" THEN "chosen" ELSE "closed"

\* The clients it has still to reach, once they are chosen.
Chosen(m) == IF Phase(m) = "chosen" THEN Elements(todo[m]) \union writing[m] ELSE {}

D == INSTANCE Delivery WITH
        members <- Members,
        phase   <- [m \in Messages |-> Phase(m)],
        chosen  <- [m \in Messages |-> Chosen(m)],
        got     <- [m \in Messages |-> Receivers(m)],
        told    <- replies

-----------------------------------------------------------------------------

\* The thread pool runs every task; a write ends within the 30 s of its timeout.
Fairness == \A m \in Messages : WF_vars(Task(m))

FairSpec == Spec /\ Fairness

-----------------------------------------------------------------------------
(* Properties.                                                             *)

\* The frame a client gets names that client, although the tasks of a broadcast
\* share one mutable message (Network.cs:143).
FrameNamesReceiver ==
    \A m \in Messages : \A i \in 1..Len(sent[m]) : sent[m][i].reciever = sent[m][i].to

\* A message reaches nobody before its sender was told: it has been acked, or
\* asked not to be, or writing the ack to the sender failed.  It is never both
\* refused with an error and delivered.
ReplyBeforeDelivery ==
    \A m \in Messages : Receivers(m) # {} =>
        /\ replies[m] \in {<<>>, <<"ack">>}
        /\ replies[m] = <<>> => m \in NoAck \/ SenderOf[m] \in failedTo[m]

\* No message is delivered twice: a broadcast reaches each client at most once
\* and never its sender, every other message reaches at most one client.
AtMostOnce ==
    \A m \in Messages :
        /\ \A i, j \in 1..Len(sent[m]) : sent[m][i].to = sent[m][j].to => i = j
        /\ TypeOf[m] = "Broadcast" => SenderOf[m] \notin Receivers(m)
        /\ TypeOf[m] # "Broadcast" => Len(sent[m]) <= 1

\* A finished task has not missed a client that was a member all along: a
\* broadcast reached each, a direct message its receiver, and a random or round
\* robin message somebody, unless the write to the client it chose failed (it
\* is not tried again with another).
StayersAreServed ==
    \A m \in Messages : pc[m] = "done" =>
        /\ TypeOf[m] = "Broadcast" => stayed[m] \ {SenderOf[m]} \subseteq Receivers(m)
        /\ TypeOf[m] = "Direct" => (TargetOf[m] \in stayed[m] => TargetOf[m] \in Receivers(m))
        /\ TypeOf[m] \in {"Random", "RoundRobin"} =>
              (stayed[m] # {} /\ failedTo[m] = {} => Receivers(m) # {})

\* A random message reaches another client than its sender when one is there all
\* along and no write fails: RandomTest waits for it on the other clients only
\* (ClientSocketTests.cs:103-109).
RandomReachesAnother ==
    \A m \in Messages :
        (/\ pc[m] = "done"
         /\ TypeOf[m] = "Random"
         /\ stayed[m] \ {SenderOf[m]} # {}
         /\ failedTo[m] = {})
        => Receivers(m) \ {SenderOf[m]} # {}

\* As long as the members stay the same, round robin chooses no member twice
\* more than another, whatever tasks race for the index.
RoundRobinBalanced ==
    ~changed => \A c, d \in Members : picks[c] <= picks[d] + 1

\* However the tasks interleave and whatever they choose by, a network keeps the
\* promises of module Delivery: receivers are members when they are chosen, are
\* chosen once, and get the message once or are removed.
ImplementsDelivery == D!Spec

\* Every task that starts ends: the retry loops of SendRandom and
\* SendRoundRobin cannot spin for ever once the members stop changing.
EveryTaskEnds == \A m \in Messages : pc[m] # "new" ~> pc[m] = "done"

=============================================================================
