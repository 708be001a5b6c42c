---------------------------- MODULE QueueClient ----------------------------
(***************************************************************************)
(* The two queues of QueueHubNetworkClient (Client/QueueHubNetworkClient.cs): *)
(* the OnMessage handler fills the receive queue, for linked targets to take *)
(* from; any number of threads fill the send queue with OfferMessage, and   *)
(* ProcessOut sends what it holds.  Both are BufferBlocks with the same     *)
(* strategies and share no state but the end of the client, so a behaviour  *)
(* shows one of them.                                                       *)
(***************************************************************************)
EXTENDS Integers, Sequences, FiniteSets

CONSTANTS
    Messages,   \* messages that arrive or are offered
    Sizes,      \* MaxReceaveQueueSize or MaxSendQueueSize; -1 is no bound
    Loops       \* receive loops of the client that run at once (bound)

Sides == {"receive", "send"}
Strategies == {"Wait", "Discard", "RemoveOld"}   \* QueueStrategy

ASSUME SizesAssumption == Sizes \subseteq (Nat \ {0}) \union {-1}

ASSUME LoopsAssumption == Loops \in Nat \ {0}

VARIABLES
    side,       \* which queue
    strategy,   \* ReceaveQueueStrategy or SendQueueStrategy
    max,        \* its size
    pc,         \* where the handler or the OfferMessage call of a message is
    buffer,     \* the messages in the BufferBlock
    postponed,  \* offers the BufferBlock will take when it has room
    out,        \* where ProcessOut is
    ending,     \* how far Complete or Fault is
    \* History variables: no guard reads them.
    ahead,      \* the messages whose call had ended when that of a message began
    taken,      \* messages taken from the queue, in order
    sent,       \* messages SendMessageAsync has returned for, in order
    removed,    \* messages removed to make room
    failed      \* a send has failed

options == <<side, strategy, max>>
queue == <<buffer, postponed>>
history == <<ahead, taken, sent, removed, failed>>
vars == <<options, pc, queue, out, ending, history>>

TypeOK ==
    /\ side \in Sides /\ strategy \in Strategies /\ max \in Sizes
    /\ pc \in [Messages -> {"new", "room", "offer", "done", "thrown"}]
    /\ buffer \in Seq(Messages) /\ postponed \in Seq(Messages)
    /\ max # -1 => Len(buffer) <= max
    /\ out \in {"off", "receive", "send", "dead"}
    /\ ending \in {"no", "completing", "completed", "faulted"}
    /\ ahead \in [Messages -> SUBSET Messages]
    /\ taken \in Seq(Messages) /\ sent \in Seq(Messages)
    /\ removed \subseteq Messages
    /\ failed \in BOOLEAN

\* The constructor starts ProcessOut.
Init ==
    /\ side \in Sides /\ strategy \in Strategies /\ max \in Sizes
    /\ pc = [m \in Messages |-> "new"]
    /\ buffer = <<>> /\ postponed = <<>>
    /\ out = IF side = "send" THEN "receive" ELSE "off"
    /\ ending = "no"
    /\ ahead = [m \in Messages |-> {}]
    /\ taken = <<>> /\ sent = <<>>
    /\ removed = {} /\ failed = FALSE

Completed == ending = "completed"

\* Mutant: the block is made without its BoundedCapacity.
HasRoom_always == TRUE

\* The BoundedCapacity of the block is not reached.
HasRoom == max = -1 \/ Len(buffer) < max

-----------------------------------------------------------------------------
(* The OnMessage handler and OfferMessage.                                 *)

\* Mutant: the handler yields before SendAsync, so its caller goes on too early.
InProgress_yields(m) == pc[m] = "room"

\* Its caller is in the call: the handler goes on to SendAsync before it first awaits.
InProgress(m) == pc[m] \in {"room", "offer"}

Ended(m) == pc[m] # "new" /\ ~InProgress(m)

\* A receive loop calls the handler for one message after the other.  Every connection
\* has a loop of its own and none waits for that of the connection before, so the
\* handler may run in several of them.  OfferMessage is called by any thread.
MayBegin(m) == side = "receive" => Cardinality({k \in Messages : InProgress(k)}) < Loops

\* Mutant: Count is compared the wrong way.
Full_over == max > -1 /\ Len(buffer) > max

\* Mutant: room is made in a queue that has some.
Full_not == max > -1 /\ Len(buffer) # max

\* The size is bounded and Count has reached it.
Full == max > -1 /\ Len(buffer) = max

\* The call begins: what it does depends on Count and the strategy.
Begin(m) ==
    /\ pc[m] = "new"
    /\ MayBegin(m)
    /\ ahead' = [ahead EXCEPT ![m] = {k \in Messages : Ended(k)}]
    /\ pc' = [pc EXCEPT ![m] =
                CASE Full /\ strategy = "Discard"   -> "done"
                  [] Full /\ strategy = "RemoveOld" -> "room"
                  [] OTHER                          -> "offer"]
    /\ UNCHANGED <<options, queue, out, ending, taken, sent, removed, failed>>

\* Mutant: return instead of break.
AfterReceive_return == "done"

\* break
AfterReceive == "offer"

\* Receive() takes the first message.  It waits for one when others have taken
\* all that Count counted.
RemoveOld(m) ==
    /\ pc[m] = "room"
    /\ buffer # <<>>
    /\ removed' = removed \union {Head(buffer)}
    /\ buffer' = Tail(buffer)
    /\ pc' = [pc EXCEPT ![m] = AfterReceive]
    /\ UNCHANGED <<options, postponed, out, ending, ahead, taken, sent, failed>>

\* Receive() on a completed block that is empty throws.
RemoveOldThrows(m) ==
    /\ pc[m] = "room"
    /\ buffer = <<>> /\ Completed
    /\ pc' = [pc EXCEPT ![m] = "thrown"]
    /\ UNCHANGED <<options, queue, out, ending, history>>

\* SendAsync or OfferMessage on the BufferBlock: it takes the message, keeps the
\* offer for later, or, when it is completed or the offer came from Post, declines.
Offer(m) ==
    /\ pc[m] = "offer"
    /\ \/ /\ ~Completed /\ HasRoom /\ postponed = <<>>
          /\ buffer' = Append(buffer, m)
          /\ UNCHANGED postponed
       \/ /\ ~Completed /\ (~HasRoom \/ postponed # <<>>)
          /\ postponed' = Append(postponed, m)
          /\ UNCHANGED buffer
       \/ /\ Completed \/ (side = "send" /\ (~HasRoom \/ postponed # <<>>))
          /\ UNCHANGED queue
    /\ pc' = [pc EXCEPT ![m] = "done"]
    /\ UNCHANGED <<options, out, ending, history>>

\* The BufferBlock has room again and takes the offer it has kept longest.
ConsumePostponed ==
    /\ postponed # <<>> /\ HasRoom
    /\ buffer' = Append(buffer, Head(postponed))
    /\ postponed' = Tail(postponed)
    /\ UNCHANGED <<options, pc, out, ending, history>>

-----------------------------------------------------------------------------
(* What leaves the queues.                                                 *)

TakeFirst ==
    /\ buffer # <<>>
    /\ taken' = Append(taken, Head(buffer))
    /\ buffer' = Tail(buffer)

\* A target linked to the receive queue takes a message.
Consume ==
    /\ side = "receive"
    /\ TakeFirst
    /\ UNCHANGED <<options, pc, postponed, out, ending, ahead, sent, removed, failed>>

\* ProcessOut: await _sendBuffer.ReceiveAsync()
ReceiveNext ==
    /\ out = "receive"
    /\ TakeFirst
    /\ out' = "send"
    /\ UNCHANGED <<options, pc, postponed, ending, ahead, sent, removed, failed>>

\* It throws when the queue is completed and empty.
ReceiveThrows ==
    /\ out = "receive"
    /\ buffer = <<>> /\ Completed
    /\ out' = "dead"
    /\ UNCHANGED <<options, pc, queue, ending, history>>

\* Mutant: the loop is missing.
AfterSend_once == "dead"

\* while (true)
AfterSend == "receive"

\* SendMessageAsync returns: the message was acked.
Send ==
    /\ out = "send"
    /\ ending = "no"
    /\ sent' = Append(sent, taken[Len(taken)])
    /\ out' = AfterSend
    /\ UNCHANGED <<options, pc, queue, ending, ahead, taken, removed, failed>>

\* Mutant: the exception is caught and the loop goes on.
AfterFailure_goeson == "receive"

\* Nothing catches the exception: ProcessOut ends.
AfterFailure == "dead"

\* SendMessageAsync throws: no connection, no receiver, no ack in time, or a
\* client that is disposed.
SendFails ==
    /\ out = "send"
    /\ out' = AfterFailure
    /\ failed' = TRUE
    /\ UNCHANGED <<options, pc, queue, ending, ahead, taken, sent, removed>>

-----------------------------------------------------------------------------
(* The end.                                                                *)

\* Complete: _socket.Dispose(), which throws when Fault has called it before.
Complete ==
    /\ ending = "no"
    /\ ending' = "completing"
    /\ UNCHANGED <<options, pc, queue, out, history>>

\* _receaveBuffer.Complete(), _sendBuffer.Complete(): the offers that were kept
\* are let go, the messages in the queue may still be taken.
CompleteBuffers ==
    /\ ending = "completing"
    /\ ending' = "completed"
    /\ postponed' = <<>>
    /\ UNCHANGED <<options, pc, buffer, out, history>>

\* Fault disposes the client and leaves the queues as they are.
Fault ==
    /\ ending = "no"
    /\ ending' = "faulted"
    /\ UNCHANGED <<options, pc, queue, out, history>>

-----------------------------------------------------------------------------
ProcessOut == ReceiveNext \/ ReceiveThrows \/ Send \/ SendFails

Next ==
    \/ \E m \in Messages : Begin(m) \/ RemoveOld(m) \/ RemoveOldThrows(m) \/ Offer(m)
    \/ ConsumePostponed
    \/ Consume
    \/ ProcessOut
    \/ Complete \/ CompleteBuffers \/ Fault

Spec == Init /\ [][Next]_vars

\* Handlers run, ProcessOut runs, SendMessageAsync ends in one way or the other within its
\* timeouts, and a BufferBlock that has room takes the offers it has kept.
\* Nobody has to offer, to take from the receive queue or to end the client.
Fairness ==
    /\ \A m \in Messages : WF_vars(RemoveOld(m) \/ RemoveOldThrows(m) \/ Offer(m))
    /\ WF_vars(ProcessOut)
    /\ WF_vars(ConsumePostponed)

FairSpec == Spec /\ Fairness

-----------------------------------------------------------------------------
(* Properties.                                                             *)

Elements(q) == {q[i] : i \in 1..Len(q)}

\* Received messages are taken in the order they came, also when the queue was
\* full and SendAsync of several handlers waits at once.  Only of those that two
\* receive loops handed out at the same time the order is open.
TakenInOrder ==
    side = "receive" =>
        \A k, l \in 1..Len(taken) : taken[k] \in ahead[taken[l]] => k < l

\* m was handed out after everything else that came.
IsNewest(m) ==
    Ended(m) /\ \A k \in Messages \ {m} : pc[k] = "new" \/ k \in ahead[m]

\* With RemoveOld the message that came last is never lost, whatever linked
\* targets take between the handler's look at Count and its Receive, and whatever
\* receive loops that ran beside each other have put into the queue before.
NewestIsKept ==
    (side = "receive" /\ strategy = "RemoveOld" /\ ending # "completed") =>
        \A m \in Messages :
            IsNewest(m) => m \in Elements(buffer \o postponed) \union Elements(taken)

\* No two messages were handed out at the same time.
OneByOne ==
    \A m, n \in Messages :
        (m # n /\ pc[m] # "new" /\ pc[n] # "new") => m \in ahead[n] \/ n \in ahead[m]

\* Only Wait lets received messages pile up outside the bounded queue, unless a second
\* receive loop calls the handler between Count and SendAsync of the first.
OnlyWaitPilesUp ==
    (side = "receive" /\ strategy # "Wait" /\ OneByOne) => postponed = <<>>

\* Messages are sent in the order they were taken, and at most the one that
\* ended ProcessOut is taken and not sent.
AtMostOneUnsent ==
    side = "send" =>
        /\ Len(taken) \in {Len(sent), Len(sent) + 1}
        /\ \A i \in 1..Len(sent) : sent[i] = taken[i]

\* Every message in the send queue is sent or makes room for another, as long
\* as no send fails.
SendQueueMoves ==
    \A m \in Messages :
        (side = "send" /\ m \in Elements(buffer \o postponed))
            ~> (m \in Elements(sent) \union removed \/ failed \/ ending # "no")

\* A handler ends, and the receive loop goes on to the next frame, unless it
\* waits in Receive because linked targets have taken all that Count counted:
\* then the client reads no frame until its queues are completed.
ReceiveLoopMoves ==
    \A m \in Messages :
        (side = "receive" /\ InProgress(m))
            ~> (~InProgress(m) \/ (buffer = <<>> /\ Len(taken) >= max))

=============================================================================
