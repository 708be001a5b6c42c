------------------------- MODULE CorrelationProofs -------------------------
(* Theorems about module Correlation, for any calls, ids and breaks.       *)
EXTENDS Correlation, TLAPS

\* The frames on their way, those the receive loops have read, and all there are.
OnWire == {wire[i] : i \in 1..Len(wire)}
InHand == {hand[k] : k \in Loops} \ {None}
Flying == OnWire \union InHand
Known == Flying \union handled

\* A frame says that its message was accepted, or answered.
SaysOnly(f, acc, ans) ==
    /\ f.kind = "ack" => f.call \in acc
    /\ f.kind = "response" => f.call \in ans

\* What a frame says of a message has happened to it, and who gets none is sent none.
Sound(f) == SaysOnly(f, accepted, answered) /\ (f.kind = "ack" => f.call \notin NoAcks)

\* Where the messages are.
MessageInv ==
    /\ answered \subseteq accepted
    /\ \A c \in Calls : pc[c] \in {"idle", "write"} => at[c] = "client"
    /\ \A c \in Calls : at[c] \in {"receiver", "answer"} => c \in accepted
    /\ \A c \in Calls : at[c] = "answer" => c \in answered

\* f occurs at most once in q.
Once(q, f) == \A i, j \in 1..Len(q) : q[i] = f /\ q[j] = f => i = j

\* A frame is on its way, in the hand of one loop, or handled.
OnePlace(f) ==
    /\ Once(wire, f)
    /\ f \in OnWire => f \notin InHand \union handled
    /\ \A j, k \in Loops : hand[j] = f /\ hand[k] = f => j = k
    /\ f \in InHand => f \notin handled

\* There is a frame only after the router or the receiver dealt with the message.
IsDealtWith(f) ==
    /\ at[f.call] \notin {"client", "router"}
    /\ at[f.call] # "gone" => f.kind = "ack"

\* Every frame is sound and sent once, and a message that is refused has no other.
FrameInv ==
    /\ \A k \in Loops : hand[k] # None => k \in readers
    /\ \A f \in Known : Sound(f) /\ IsDealtWith(f)
    /\ \A f, g \in Known : f.call = g.call /\ f.kind = "error" => g = f
    /\ \A f \in Frames : OnePlace(f)

\* An entry of _ackTasks is one of a call with that id that has no result yet;
\* a result is a frame that was handled and has the id of the call, and a call goes on
\* only with one that is no error.
AckInv ==
    /\ \A c \in Calls : pc[c] = "idle" => ack[c] = None
    /\ \A id \in Ids : ackTasks[id] # None =>
          /\ IdOf[ackTasks[id]] = id
          /\ ack[ackTasks[id]] = None
          /\ pc[ackTasks[id]] # "idle"
    /\ \A c \in Calls : ack[c] # None => IdOf[ack[c].call] = IdOf[c] /\ ack[c] \in handled
    /\ \A c \in Calls : (pc[c] = "response" \/ (pc[c] = "ok" /\ c \notin NoAcks)) =>
          ack[c] # None /\ ack[c].kind # "error"

\* The same for _directResponses, which holds only asks.
ResponseInv ==
    /\ \A id \in Ids : directResponses[id] # None =>
          /\ directResponses[id] \in Asks
          /\ IdOf[directResponses[id]] = id
          /\ pc[directResponses[id]] # "idle"
    /\ \A c \in Calls : response[c] # None =>
          IdOf[response[c].call] = IdOf[c] /\ response[c] \in handled
    /\ \A c \in Asks : pc[c] = "ok" => response[c] # None

\* The calls that wait for an ack under an id of their own.
Own == {c \in Calls \ NoAcks : ~Reused(c)}

\* Such a call waits in _ackTasks until the first of its frames is handled.
OwnOk(c) ==
    /\ pc[c] # "idle" /\ ack[c] = None => ackTasks[IdOf[c]] = c
    /\ ack[c] = None => \A f \in handled : f.call # c

\* An ask waits in _directResponses until the second is.
AskOk(c) ==
    /\ pc[c] # "idle" /\ response[c] = None => directResponses[IdOf[c]] = c
    /\ response[c] # None => ack[c] \notin {None, response[c]}
    /\ \A f \in handled : f.call = c => f \in {ack[c], response[c]}

\* The answer to a call.
Answer(c) == [kind |-> "response", call |-> c]

\* f says how the router decided on the message of c.
IsReply(f, c) == f.call = c /\ f.kind # "response"

\* Nobody but the loop of the connection a call was begun on reads for an undisturbed
\* one: the router replies over that connection, the reply is on its way until the
\* call has it, and the answer stays behind it.
InOrder(c) ==
    /\ readers \subseteq {breaks}
    /\ at[c] = "router" => up /\ sentOn[c] = breaks
    /\ at[c] \notin {"client", "router"} /\ ack[c] = None => \E f \in Flying : IsReply(f, c)
    /\ \A j \in 1..Len(wire) : IsReply(wire[j], c) =>
          /\ Answer(c) \notin InHand
          /\ \A i \in 1..Len(wire) : wire[i] = Answer(c) => j < i
    /\ ack[c] # None => ack[c].kind # "response"
    /\ \A f \in handled : IsReply(f, c) => ack[c] = f

OwnInv ==
    /\ \A c \in Own : OwnOk(c)
    /\ \A c \in Asks : AskOk(c)
    /\ \A c \in Own : pc[c] # "idle" => c \in disturbed \/ InOrder(c)

Inv == TypeOK /\ MessageInv /\ FrameInv /\ AckInv /\ ResponseInv /\ OwnInv

-----------------------------------------------------------------------------
(* Sequences of frames.                                                    *)

LEMMA AppendElements ==
    ASSUME NEW S, NEW q \in Seq(S), NEW x \in S
    PROVE  /\ Append(q, x) \in Seq(S)
           /\ Len(Append(q, x)) = Len(q) + 1
           /\ Append(q, x)[Len(q) + 1] = x
           /\ \A i \in 1..Len(q) : Append(q, x)[i] = q[i]
  OBVIOUS

LEMMA TailElements ==
    ASSUME NEW S, NEW q \in Seq(S), q # <<>>
    PROVE  /\ Tail(q) \in Seq(S)
           /\ Len(q) \in Nat \ {0}
           /\ Head(q) = q[1]
           /\ Head(q) \in S
           /\ Len(Tail(q)) = Len(q) - 1
           /\ \A i \in 1..(Len(q) - 1) : Tail(q)[i] = q[i + 1]
  OBVIOUS

\* The wire after a reply: unchanged, or longer by one frame.
LEMMA ReplyWire ==
    ASSUME TypeOK, NEW c \in Calls, NEW kind \in Kinds, Reply(c, kind)
    PROVE  /\ wire' \in Seq(Frames)
           /\ \/ wire' = wire
              \/ wire' = Append(wire, [kind |-> kind, call |-> c])
  <1>1. [kind |-> kind, call |-> c] \in Frames
    BY DEF Frames
  <1>2. wire \in Seq(Frames)
    BY DEF TypeOK
  <1> QED
    BY <1>1, <1>2, AppendElements DEF Reply

\* A frame more is on its way.
LEMMA WireAppend ==
    ASSUME wire \in Seq(Frames), NEW f \in Frames, wire' = Append(wire, f)
    PROVE  /\ OnWire' = OnWire \union {f}
           /\ \A g : Once(wire, g) /\ (g \in OnWire => g # f) => Once(wire', g)
  <1>1. /\ Len(wire) \in Nat /\ Len(wire') = Len(wire) + 1 /\ wire'[Len(wire) + 1] = f
        /\ \A i \in 1..Len(wire) : wire'[i] = wire[i]
    BY AppendElements
  <1>2. OnWire' = OnWire \union {f}
    BY <1>1 DEF OnWire
  <1>3. ASSUME NEW g, Once(wire, g), g \in OnWire => g # f,
               NEW i \in 1..Len(wire'), NEW j \in 1..Len(wire'), wire'[i] = g, wire'[j] = g
        PROVE  i = j
    <2>1. CASE g = f
      <3>1. \A k \in 1..Len(wire) : wire'[k] # g
        BY <1>1, <1>3, <2>1 DEF OnWire
      <3> QED
        BY <1>1, <1>3, <3>1
    <2>2. CASE g # f
      <3>1. i \in 1..Len(wire) /\ j \in 1..Len(wire)
        BY <1>1, <1>3, <2>2
      <3> QED
        BY <1>1, <1>3, <3>1 DEF Once
    <2> QED
      BY <2>1, <2>2
  <1> QED
    BY <1>2, <1>3 DEF Once

\* The first frame is read.
LEMMA WireTail ==
    ASSUME wire \in Seq(Frames), wire # <<>>, wire' = Tail(wire)
    PROVE  /\ Head(wire) \in OnWire
           /\ OnWire = {Head(wire)} \union OnWire'
           /\ \A g : Once(wire, g) => Once(wire', g) /\ (g = Head(wire) => g \notin OnWire')
  <1>1. /\ Len(wire) \in Nat \ {0} /\ Head(wire) = wire[1] /\ Len(wire') = Len(wire) - 1
        /\ \A i \in 1..(Len(wire) - 1) : wire'[i] = wire[i + 1]
    BY TailElements
  <1>2. \A i \in 1..Len(wire') : i + 1 \in 1..Len(wire) /\ wire'[i] = wire[i + 1] /\ i + 1 # 1
    BY <1>1
  <1>3. 1 \in 1..Len(wire)
    BY <1>1
  <1>4. \A i \in 1..Len(wire) : i = 1 \/ (i - 1 \in 1..Len(wire') /\ wire[i] = wire'[i - 1])
    BY <1>1
  <1>5. OnWire \subseteq {Head(wire)} \union OnWire'
    <2> SUFFICES ASSUME NEW i \in 1..Len(wire), i # 1 PROVE wire[i] \in OnWire'
      BY <1>1 DEF OnWire
    <2> QED
      BY <1>4 DEF OnWire
  <1>6. {Head(wire)} \union OnWire' \subseteq OnWire
    BY <1>1, <1>2, <1>3 DEF OnWire
  <1>7. ASSUME NEW g, Once(wire, g) PROVE Once(wire', g)
    <2> SUFFICES ASSUME NEW i \in 1..Len(wire'), NEW j \in 1..Len(wire'),
                        wire'[i] = g, wire'[j] = g
                 PROVE  i = j
      BY DEF Once
    <2>1. i + 1 = j + 1
      BY <1>2, <1>7 DEF Once
    <2> QED
      BY <2>1
  <1>8. ASSUME NEW g, Once(wire, g), g = Head(wire) PROVE g \notin OnWire'
    BY <1>1, <1>2, <1>3, <1>8 DEF Once, OnWire
  <1> QED
    BY <1>3, <1>1, <1>5, <1>6, <1>7, <1>8 DEF OnWire

-----------------------------------------------------------------------------
(* Calls and their ids.                                                    *)

\* Asks have ids of their own.
LEMMA AsksAreOwn == Asks \subseteq Own
  BY CallsAssumption DEF Own

\* No other call has the id of such a call.
LEMMA OwnIds ==
    ASSUME NEW c \in Own, NEW d \in Calls, IdOf[d] = IdOf[c]
    PROVE  d = c
  BY DEF Own, Reused

\* TryAdd enters a call under its id, or leaves the entries as they are.
LEMMA TryAddEntries ==
    ASSUME NEW tasks \in [Ids -> Calls \union {None}], NEW c \in Calls
    PROVE  /\ IdOf[c] \in Ids
           /\ TryAdd(tasks, c) \in [Ids -> Calls \union {None}]
           /\ \A id \in Ids \ {IdOf[c]} : TryAdd(tasks, c)[id] = tasks[id]
           /\ tasks[IdOf[c]] = None => TryAdd(tasks, c)[IdOf[c]] = c
           /\ tasks[IdOf[c]] # None => TryAdd(tasks, c)[IdOf[c]] = tasks[IdOf[c]]
  <1>1. IdOf[c] \in Ids
    BY CallsAssumption
  <1> QED
    BY <1>1 DEF TryAdd

\* All frames are frames.
LEMMA KnownAreFrames ==
    ASSUME TypeOK
    PROVE  Known \subseteq Frames
  <1>1. OnWire \subseteq Frames
    BY DEF TypeOK, OnWire
  <1>2. InHand \subseteq Frames
    BY DEF TypeOK, InHand
  <1> QED
    BY <1>1, <1>2 DEF TypeOK, Known, Flying

\* What there is to know of the frame a loop has read.
LEMMA HandFrame ==
    ASSUME Inv, NEW k \in Loops, hand[k] # None
    PROVE  /\ hand[k] \in Frames
           /\ hand[k].kind \in Kinds
           /\ hand[k].call \in Calls
           /\ IdOf[hand[k].call] \in Ids
           /\ hand[k] \in InHand /\ hand[k] \in Known /\ hand[k] \notin handled
           /\ pc[hand[k].call] # "idle"
  <1>1. hand[k] \in Frames /\ hand[k].kind \in Kinds /\ hand[k].call \in Calls
    BY DEF Inv, TypeOK, Frames
  <1>2. hand[k] \in InHand /\ hand[k] \in Known
    BY DEF InHand, Known, Flying
  <1>3. hand[k] \notin handled
    BY <1>1, <1>2 DEF Inv, FrameInv, OnePlace
  <1>4. at[hand[k].call] # "client"
    BY <1>2 DEF Inv, FrameInv, IsDealtWith
  <1> QED
    BY <1>1, <1>2, <1>3, <1>4, CallsAssumption DEF Inv, MessageInv

\* An entry of a call with an id of its own is its own.
LEMMA OwnEntry ==
    ASSUME Inv, NEW c \in Own
    PROVE  /\ c \in Calls /\ IdOf[c] \in Ids /\ c # None
           /\ ackTasks[IdOf[c]] \in {c, None}
           /\ directResponses[IdOf[c]] \in {c, None}
           /\ ack[c] # None => ack[c].call = c /\ ack[c] \in handled
           /\ response[c] # None => response[c].call = c /\ response[c] \in handled
  <1>1. c \in Calls /\ IdOf[c] \in Ids /\ c # None
    BY CallsAssumption DEF Own
  <1>2. ASSUME ackTasks[IdOf[c]] # None PROVE ackTasks[IdOf[c]] = c
    <2>1. ackTasks[IdOf[c]] \in Calls /\ IdOf[ackTasks[IdOf[c]]] = IdOf[c]
      BY <1>1, <1>2 DEF Inv, TypeOK, AckInv
    <2> QED
      BY <2>1, OwnIds
  <1>3. ASSUME directResponses[IdOf[c]] # None PROVE directResponses[IdOf[c]] = c
    <2>1. /\ directResponses[IdOf[c]] \in Calls
          /\ IdOf[directResponses[IdOf[c]]] = IdOf[c]
      BY <1>1, <1>3 DEF Inv, TypeOK, ResponseInv
    <2> QED
      BY <2>1, OwnIds
  <1>4. ASSUME ack[c] # None PROVE ack[c].call = c /\ ack[c] \in handled
    <2>1. ack[c].call \in Calls /\ IdOf[ack[c].call] = IdOf[c] /\ ack[c] \in handled
      BY <1>1, <1>4 DEF Inv, TypeOK, AckInv, Frames
    <2> QED
      BY <2>1, OwnIds
  <1>5. ASSUME response[c] # None PROVE response[c].call = c /\ response[c] \in handled
    <2>1. /\ response[c].call \in Calls /\ IdOf[response[c].call] = IdOf[c]
          /\ response[c] \in handled
      BY <1>1, <1>5 DEF Inv, TypeOK, ResponseInv
    <2> QED
      BY <2>1, OwnIds
  <1> QED
    BY <1>1, <1>2, <1>3, <1>4, <1>5

\* An ask that has no entry any more has a result.
LEMMA AskEntry ==
    ASSUME Inv, NEW c \in Asks, pc[c] # "idle"
    PROVE  /\ ackTasks[IdOf[c]] = None => ack[c] # None
           /\ directResponses[IdOf[c]] = None => response[c] # None
  <1>1. c \in Own /\ c # None /\ OwnOk(c) /\ AskOk(c)
    BY AsksAreOwn, OwnEntry DEF Inv, OwnInv
  <1> QED
    BY <1>1 DEF OwnOk, AskOk

\* Two frames of an ask are not followed by a third.
LEMMA NoThird ==
    ASSUME Inv, NEW c \in Asks, NEW f \in Known, f.call = c, f \notin handled
    PROVE  response[c] = None
  <1> SUFFICES ASSUME response[c] # None PROVE FALSE
    OBVIOUS
  <1>1. c \in Own
    BY AsksAreOwn
  <1>2. ack[c] # None /\ ack[c] # response[c]
    BY DEF Inv, OwnInv, AskOk
  <1>3. /\ ack[c] \in handled /\ ack[c].call = c
        /\ response[c] \in handled /\ response[c].call = c
    BY <1>1, <1>2, OwnEntry
  <1>4. {f, ack[c], response[c]} \subseteq Known /\ Known \subseteq Frames
    BY <1>3, KnownAreFrames DEF Inv, Known
  <1>5. f # ack[c] /\ f # response[c]
    BY <1>3
  <1>6. \A g, h \in {f, ack[c], response[c]} : g # h => g.kind # h.kind
    BY <1>3, <1>4 DEF Frames
  <1>7. \A g \in {f, ack[c], response[c]} : g.kind # "error"
    BY <1>2, <1>3, <1>4, <1>5 DEF Inv, FrameInv
  <1>8. \A g \in {f, ack[c], response[c]} : g.kind \in {"ack", "response"}
    BY <1>4, <1>7 DEF Frames, Kinds
  <1> QED
    BY <1>2, <1>5, <1>6, <1>8

\* A frame that completes a response is one of that ask, and no error.
LEMMA ResponseFrame ==
    ASSUME Inv, NEW k \in Loops, hand[k] # None,
           CompletesResponse(hand[k]), ~CompletesAck(hand[k])
    PROVE  /\ directResponses[IdOf[hand[k].call]] = hand[k].call
           /\ hand[k].call \in Asks
           /\ hand[k].kind \in {"ack", "response"}
           /\ ack[hand[k].call] \notin {None, hand[k]}
           /\ response[hand[k].call] = None
  <1> DEFINE f == hand[k]
             d == directResponses[IdOf[f.call]]
  <1>1. /\ f \in Frames /\ f.kind \in Kinds /\ f.call \in Calls /\ IdOf[f.call] \in Ids
        /\ f \in Known /\ f \notin handled /\ pc[f.call] # "idle"
    BY HandFrame
  <1>2. d # None /\ ackTasks[IdOf[f.call]] = None
    BY DEF CompletesResponse, CompletesAck
  <1>3. d \in Asks /\ IdOf[d] = IdOf[f.call]
    BY <1>1, <1>2 DEF Inv, ResponseInv
  <1>4. d = f.call
    BY <1>1, <1>3, AsksAreOwn, OwnIds
  <1>5. ack[f.call] # None /\ f.call \in Own
    BY <1>1, <1>2, <1>3, <1>4, AskEntry, AsksAreOwn
  <1>6. ack[f.call] \in handled /\ ack[f.call].call = f.call
    BY <1>5, OwnEntry
  <1>7. ack[f.call] \in Known /\ ack[f.call] # f
    BY <1>1, <1>6 DEF Known
  <1>8. f.kind # "error"
    BY <1>1, <1>6, <1>7 DEF Inv, FrameInv
  <1>9. response[f.call] = None
    BY <1>1, <1>3, <1>4, NoThird
  <1> QED
    BY <1>1, <1>3, <1>4, <1>5, <1>7, <1>8, <1>9 DEF Kinds

-----------------------------------------------------------------------------
(* Type correctness.  That no error completes a response needs the rest of  *)
(* the invariant.                                                           *)

LEMMA TypeStep ==
    ASSUME Inv, [Next]_vars
    PROVE  TypeOK'
  <1> USE DEF TypeOK
  <1>0. TypeOK
    BY DEF Inv
  <1>1. ASSUME NEW c \in Calls, Start(c) PROVE TypeOK'
    <2>1. ackTasks' \in [Ids -> Calls \union {None}]
      BY <1>0, <1>1, TryAddEntries DEF Start
    <2>2. directResponses' \in [Ids -> Calls \union {None}]
      BY <1>0, <1>1, TryAddEntries DEF Start
    <2>3. disturbed' \subseteq Calls
      BY <1>0, <1>1 DEF Start
    <2> QED
      BY <1>0, <1>1, <2>1, <2>2, <2>3 DEF Start, linkVars, loopVars
  <1>2. ASSUME NEW c \in Calls, Write(c) PROVE TypeOK'
    <2>1. pc' \in [Calls -> {"idle", "write", "ack", "response", "ok", "failed", "timeout"}]
      BY <1>0, <1>2 DEF Write, Awaited
    <2>2. at' \in [Calls -> {"client", "router", "receiver", "answer", "gone"}]
      BY <1>0, <1>2 DEF Write
    <2>3. sentOn' \in [Calls -> Nat]
      <3>1. breaks \in Nat
        BY <1>0, CallsAssumption DEF Loops
      <3>2. sentOn' = sentOn \/ sentOn' = [sentOn EXCEPT ![c] = breaks]
        BY <1>2 DEF Write
      <3> QED
        BY <1>0, <3>1, <3>2
    <2>4. disturbed' \subseteq Calls
      BY <1>0, <1>2 DEF Write
    <2> QED
      BY <1>0, <1>2, <2>1, <2>2, <2>3, <2>4 DEF Write, loopVars
  <1>3. ASSUME NEW c \in Calls, Resume(c) \/ Expire(c) PROVE TypeOK'
    BY <1>0, <1>3 DEF Resume, Expire, linkVars, loopVars, history
  <1>4. ASSUME NEW c \in Calls, Accept(c) PROVE TypeOK'
    <2>1. wire' \in Seq(Frames)
      BY <1>0, <1>4, ReplyWire DEF Accept, Kinds
    <2> QED
      BY <1>0, <1>4, <2>1 DEF Accept, clientVars, loopVars
  <1>5. ASSUME NEW c \in Calls, Refuse(c) PROVE TypeOK'
    <2>1. wire' \in Seq(Frames)
      BY <1>0, <1>5, ReplyWire DEF Refuse, Kinds
    <2> QED
      BY <1>0, <1>5, <2>1 DEF Refuse, clientVars, loopVars, history
  <1>6. ASSUME NEW c \in Calls, AnswerCall(c) PROVE TypeOK'
    BY <1>0, <1>6 DEF AnswerCall, clientVars, loopVars
  <1>7. ASSUME NEW c \in Calls, ForwardAnswer(c) PROVE TypeOK'
    <2>1. [kind |-> "response", call |-> c] \in Frames
      BY DEF Frames, Kinds
    <2>2. wire \in Seq(Frames)
      BY <1>0
    <2>3. Append(wire, [kind |-> "response", call |-> c]) \in Seq(Frames)
      BY <2>1, <2>2, AppendElements
    <2>4. wire' \in Seq(Frames) /\ missed' \subseteq Calls
      BY <1>0, <1>7, <2>2, <2>3 DEF ForwardAnswer
    <2> QED
      BY <1>0, <1>7, <2>4 DEF ForwardAnswer, clientVars, loopVars
  <1>8. ASSUME NEW k \in Loops, Read(k) PROVE TypeOK'
    <2>1. wire' \in Seq(Frames) /\ Head(wire) \in Frames
      BY <1>0, <1>8, TailElements DEF Read
    <2>2. hand' \in [Loops -> Frames \union {None}]
      BY <1>0, <1>8, <2>1 DEF Read
    <2> QED
      BY <1>0, <1>8, <2>1, <2>2 DEF Read, clientVars, history
  <1>9. ASSUME NEW k \in Loops, OnInternalMessage(k) PROVE TypeOK'
    <2> DEFINE f == hand[k]
    <2>1. f \in Frames /\ f.call \in Calls /\ IdOf[f.call] \in Ids
      BY <1>9, HandFrame DEF OnInternalMessage
    <2>2. hand' \in [Loops -> Frames \union {None}] /\ handled' \subseteq Frames
      BY <1>0, <1>9, <2>1 DEF OnInternalMessage
    <2>3. CASE CompletesAck(f) /\ TakeAck(f)
      <3>1. ackTasks[IdOf[f.call]] \in Calls
        BY <1>0, <2>1, <2>3 DEF CompletesAck
      <3>2. ack' \in [Calls -> Frames \union {None}]
        BY <1>0, <2>1, <2>3, <3>1 DEF TakeAck
      <3>3. ackTasks' \in [Ids -> Calls \union {None}]
        BY <1>0, <2>3 DEF TakeAck
      <3>4. UNCHANGED <<pc, linkVars, readers, accepted, answered, disturbed, missed,
                        directResponses, response, raised>>
        BY <1>9, <2>3 DEF OnInternalMessage, TakeAck
      <3> QED
        BY <1>0, <2>2, <3>2, <3>3, <3>4 DEF linkVars
    <2>4. CASE ~CompletesAck(f) /\ CompletesResponse(f) /\ TakeResponse(f)
      <3>1. f.kind \in {"ack", "response"} /\ directResponses[IdOf[f.call]] = f.call
        BY <1>9, <2>4, ResponseFrame DEF OnInternalMessage
      <3>2. f \in [kind : {"ack", "response"}, call : Calls]
        BY <2>1, <3>1 DEF Frames
      <3>3. response' \in [Calls -> [kind : {"ack", "response"}, call : Calls] \union {None}]
        BY <1>0, <2>1, <2>4, <3>1, <3>2 DEF TakeResponse
      <3>4. directResponses' \in [Ids -> Calls \union {None}]
        BY <1>0, <2>4 DEF TakeResponse
      <3>5. UNCHANGED <<pc, linkVars, readers, accepted, answered, disturbed, missed,
                        ackTasks, ack, raised>>
        BY <1>9, <2>4 DEF OnInternalMessage, TakeResponse
      <3> QED
        BY <1>0, <2>2, <3>3, <3>4, <3>5 DEF linkVars
    <2>5. CASE ~CompletesAck(f) /\ ~CompletesResponse(f) /\ Raise(f)
      <3>1. raised' \subseteq Frames
        BY <1>0, <2>1, <2>5 DEF Raise
      <3>2. UNCHANGED <<pc, linkVars, readers, accepted, answered, disturbed, missed,
                        ackTasks, directResponses, ack, response>>
        BY <1>9, <2>5 DEF OnInternalMessage, Raise
      <3> QED
        BY <1>0, <2>2, <3>1, <3>2 DEF linkVars
    <2> QED
      BY <1>9, <2>3, <2>4, <2>5 DEF OnInternalMessage, Dispatch
  <1>10. ASSUME NEW k \in Loops, LoopEnds(k) PROVE TypeOK'
    BY <1>0, <1>10 DEF LoopEnds, clientVars, linkVars, history
  <1>11. ASSUME Break PROVE TypeOK'
    <2>1. at' \in [Calls -> {"client", "router", "receiver", "answer", "gone"}]
      BY <1>0, <1>11 DEF Break
    <2>2. breaks' \in Loops /\ wire' \in Seq(Frames)
      BY <1>0, <1>11, CallsAssumption DEF Break, Loops
    <2>3. disturbed' \subseteq Calls
      BY <1>0, <1>11 DEF Break
    <2> QED
      BY <1>0, <1>11, <2>1, <2>2, <2>3 DEF Break, clientVars, loopVars
  <1>12. ASSUME Restore PROVE TypeOK'
    BY <1>0, <1>12 DEF Restore, clientVars, history
  <1>13. CASE UNCHANGED vars
    BY <1>0, <1>13 DEF vars, clientVars, linkVars, loopVars, history
  <1> QED
    BY <1>1, <1>2, <1>3, <1>4, <1>5, <1>6, <1>7, <1>8, <1>9, <1>10, <1>11, <1>12, <1>13
    DEF Next, Call, Outside

-----------------------------------------------------------------------------
(* Where frames are.                                                       *)

\* What has happened to a message stays so.
LEMMA HistoryGrows ==
    ASSUME [Next]_vars
    PROVE  /\ accepted \subseteq accepted'
           /\ answered \subseteq answered'
           /\ handled \subseteq handled'
           /\ disturbed \subseteq disturbed'
  BY DEF Next, Call, Outside, Start, Write, Resume, Expire, Accept, Refuse, AnswerCall,
         ForwardAnswer, Read, OnInternalMessage, LoopEnds, Break, Restore, vars, linkVars,
         history

\* A frame that is sound stays sound.
LEMMA SoundStays ==
    ASSUME [Next]_vars, NEW f, Sound(f)
    PROVE  Sound(f)'
  BY HistoryGrows DEF Sound, SaysOnly

\* A new frame is on its way.
LEMMA NewFrame ==
    ASSUME Inv, NEW f \in Frames, f \notin Known,
           wire' = Append(wire, f), UNCHANGED <<hand, handled>>
    PROVE  /\ Flying' = Flying \union {f} /\ InHand' = InHand
           /\ Known' = Known \union {f}
           /\ \A g \in Frames : OnePlace(g)'
  <1>1. wire \in Seq(Frames) /\ \A g \in Frames : OnePlace(g)
    BY DEF Inv, TypeOK, FrameInv
  <1>2. /\ OnWire' = OnWire \union {f} /\ InHand' = InHand
        /\ \A g : Once(wire, g) /\ (g \in OnWire => g # f) => Once(wire', g)
    BY <1>1, WireAppend DEF InHand
  <1>3. f \notin OnWire \union InHand \union handled
    BY DEF Known, Flying
  <1>4. \A g \in Frames : OnePlace(g)'
    BY <1>1, <1>2, <1>3 DEF OnePlace
  <1> QED
    BY <1>2, <1>4 DEF Known, Flying

\* A loop reads a frame.
LEMMA ReadFrame ==
    ASSUME Inv, NEW k \in Loops, Read(k)
    PROVE  /\ Flying' = Flying /\ Known' = Known
           /\ Head(wire) \in OnWire /\ InHand' = InHand \union {Head(wire)}
           /\ OnWire' = OnWire \ {Head(wire)}
           /\ \A g \in Frames : OnePlace(g)'
  <1> DEFINE h == Head(wire)
  <1>1. /\ wire \in Seq(Frames) /\ wire # <<>> /\ \A g \in Frames : OnePlace(g)
        /\ wire' = Tail(wire) /\ hand \in [Loops -> Frames \union {None}]
        /\ hand[k] = None /\ hand' = [hand EXCEPT ![k] = h] /\ UNCHANGED handled
    BY DEF Inv, TypeOK, FrameInv, Read, history
  <1>2. /\ h \in OnWire /\ OnWire = {h} \union OnWire' /\ h \in Frames /\ h # None
        /\ \A g : Once(wire, g) => Once(wire', g) /\ (g = h => g \notin OnWire')
    <2>1. h \in Frames /\ h # None
      BY <1>1, TailElements, CallsAssumption
    <2> QED
      BY <1>1, <2>1, WireTail
  <1> HIDE DEF h
  <1>3. OnePlace(h)
    BY <1>1, <1>2
  <1>4. OnWire' = OnWire \ {h}
    BY <1>2, <1>3 DEF OnePlace
  <1>5. InHand' = InHand \union {h}
    <2>1. hand'[k] = h /\ \A j \in Loops \ {k} : hand'[j] = hand[j]
      BY <1>1
    <2> QED
      BY <1>1, <1>2, <2>1 DEF InHand
  <1>6. ASSUME NEW g \in Frames PROVE OnePlace(g)'
    <2>1. OnePlace(g)
      BY <1>1
    <2>2. CASE g = h
      <3>1. h \notin InHand \union handled
        BY <1>2, <1>3 DEF OnePlace
      <3>2. \A j \in Loops : hand'[j] = h => j = k
        BY <1>1, <1>2, <3>1 DEF InHand
      <3> QED
        BY <1>1, <1>2, <1>3, <1>4, <1>5, <2>2, <3>1, <3>2 DEF OnePlace
    <2>3. CASE g # h
      <3>1. \A j \in Loops : hand'[j] = g => hand[j] = g
        BY <1>1, <2>3
      <3> QED
        BY <1>1, <1>2, <1>4, <1>5, <2>1, <2>3, <3>1 DEF OnePlace
    <2> QED
      BY <2>2, <2>3
  <1> QED
    BY <1>1, <1>2, <1>4, <1>5, <1>6 DEF Known, Flying, h

\* A loop hands a frame out.
LEMMA HandleFrame ==
    ASSUME Inv, NEW k \in Loops, OnInternalMessage(k)
    PROVE  /\ Known' = Known /\ handled' = handled \union {hand[k]}
           /\ OnWire' = OnWire /\ InHand' = InHand \ {hand[k]}
           /\ \A g \in Frames : OnePlace(g)'
  <1> DEFINE h == hand[k]
  <1>1. /\ \A g \in Frames : OnePlace(g)
        /\ wire' = wire /\ hand \in [Loops -> Frames \union {None}]
        /\ hand' = [hand EXCEPT ![k] = None]
        /\ handled' = handled \union {h}
    BY DEF Inv, TypeOK, FrameInv, OnInternalMessage, linkVars
  <1>2. h \in Frames /\ h \in InHand /\ h # None /\ h \notin handled
    BY HandFrame DEF OnInternalMessage
  <1>3. OnePlace(h) /\ hand[k] = h
    BY <1>1, <1>2
  <1> HIDE DEF h
  <1>4. hand'[k] = None /\ \A j \in Loops \ {k} : hand'[j] = hand[j] /\ hand[j] # h
    BY <1>1, <1>3 DEF OnePlace
  <1>5. InHand' = InHand \ {h}
    BY <1>3, <1>4 DEF InHand
  <1>6. OnWire' = OnWire
    BY <1>1 DEF OnWire
  <1>7. ASSUME NEW g \in Frames PROVE OnePlace(g)'
    <2>1. OnePlace(g) /\ g # None
      BY <1>1, CallsAssumption
    <2>2. \A j \in Loops : hand'[j] = g => hand[j] = g
      BY <1>4, <2>1
    <2>3. h \notin OnWire
      BY <1>2, <1>3 DEF OnePlace
    <2> QED
      BY <1>1, <1>5, <1>6, <2>1, <2>2, <2>3 DEF OnePlace
  <1> QED
    BY <1>1, <1>2, <1>5, <1>6, <1>7 DEF Known, Flying, h

\* The other steps send nothing: they leave all frames alone, or lose what is on the wire.
LEMMA NothingSent ==
    ASSUME Inv, wire' \in {wire, <<>>}, UNCHANGED <<hand, handled>>
    PROVE  /\ Known' \subseteq Known /\ InHand' = InHand
           /\ wire' = wire => Flying' = Flying
           /\ \A g \in Frames : OnePlace(g)'
  <1>1. \A g \in Frames : OnePlace(g)
    BY DEF Inv, FrameInv
  <1>2. InHand' = InHand
    BY DEF InHand
  <1>3. CASE wire' = wire
    <2>1. OnWire' = OnWire
      BY <1>3 DEF OnWire
    <2> QED
      BY <1>1, <1>2, <1>3, <2>1 DEF OnePlace, Known, Flying
  <1>4. CASE wire' = <<>>
    <2>1. OnWire' = {} /\ \A g : Once(wire', g)
      BY <1>4 DEF OnWire, Once
    <2>2. wire' = wire => OnWire' = OnWire
      BY DEF OnWire
    <2> QED
      BY <1>1, <1>2, <2>1, <2>2 DEF OnePlace, Known, Flying
  <1> QED
    BY <1>3, <1>4

\* What a step does to the frames: it sends one for a message that it deals with, or none.
LEMMA FrameSteps ==
    ASSUME Inv, [Next]_vars
    PROVE  /\ \A g \in Frames : OnePlace(g)'
           /\ \/ Known' \subseteq Known
              \/ \E c \in Calls, kind \in Kinds :
                    /\ Known' = Known \union {[kind |-> kind, call |-> c]}
                    /\ UNCHANGED <<hand, handled, up, breaks, sentOn>>
                    /\ wire' = Append(wire, [kind |-> kind, call |-> c])
                    /\ \/ kind = "ack" /\ Accept(c) /\ c \notin NoAcks
                       \/ kind = "error" /\ Refuse(c)
                       \/ kind = "response" /\ ForwardAnswer(c)
  <1>0. TypeOK /\ \A f \in Known : IsDealtWith(f)
    BY DEF Inv, FrameInv
  <1>1. ASSUME NEW c \in Calls, NEW kind \in Kinds,
               wire' = Append(wire, [kind |-> kind, call |-> c]),
               UNCHANGED <<hand, handled>>,
               at[c] = "router" \/ (at[c] = "answer" /\ kind = "response")
        PROVE  /\ Known' = Known \union {[kind |-> kind, call |-> c]}
               /\ \A g \in Frames : OnePlace(g)'
    <2> DEFINE f == [kind |-> kind, call |-> c]
    <2>1. f \in Frames /\ f.call = c /\ f.kind = kind
      BY DEF Frames
    <2> HIDE DEF f
    <2>2. f \notin Known
      BY <1>0, <1>1, <2>1 DEF IsDealtWith
    <2> QED
      BY <1>1, <2>1, <2>2, NewFrame DEF f
  <1>2. ASSUME NEW c \in Calls, Outside(c), wire' # wire
        PROVE  \E kind \in Kinds :
                    /\ UNCHANGED <<hand, handled, up, breaks, sentOn>>
                    /\ wire' = Append(wire, [kind |-> kind, call |-> c])
                    /\ \/ kind = "ack" /\ Accept(c) /\ c \notin NoAcks /\ at[c] = "router"
                       \/ kind = "error" /\ Refuse(c) /\ at[c] = "router"
                       \/ kind = "response" /\ ForwardAnswer(c) /\ at[c] = "answer"
    BY <1>2 DEF Outside, Accept, Refuse, AnswerCall, ForwardAnswer, Reply, Kinds, loopVars,
                history
  <1>3. ASSUME NEW c \in Calls, Outside(c), wire' = wire PROVE UNCHANGED <<hand, handled>>
    BY <1>3 DEF Outside, Accept, Refuse, AnswerCall, ForwardAnswer, loopVars, history
  <1>4. ASSUME NEW c \in Calls, Call(c) PROVE UNCHANGED <<wire, hand, handled>>
    BY <1>4 DEF Call, Start, Write, Resume, Expire, linkVars, loopVars, history
  <1>5. ASSUME Break \/ Restore \/ UNCHANGED vars \/ \E k \in Loops : LoopEnds(k)
        PROVE  wire' \in {wire, <<>>} /\ UNCHANGED <<hand, handled>>
    BY <1>5 DEF Break, Restore, LoopEnds, vars, linkVars, loopVars, history
  <1>6. CASE \E c \in Calls : Outside(c) /\ wire' # wire
    BY <1>1, <1>2, <1>6
  <1>7. CASE \E k \in Loops : Read(k) \/ OnInternalMessage(k)
    BY <1>7, ReadFrame, HandleFrame
  <1> QED
    BY <1>3, <1>4, <1>5, <1>6, <1>7, NothingSent DEF Next

LEMMA FrameStep ==
    ASSUME Inv, [Next]_vars
    PROVE  FrameInv'
  <1>0. TypeOK /\ FrameInv /\ Known \subseteq Frames
    BY KnownAreFrames DEF Inv
  <1>1. ASSUME NEW k \in Loops, hand'[k] # None PROVE k \in readers'
    <2>1. CASE \E j \in Loops : Read(j)
      BY <1>0, <1>1, <2>1 DEF FrameInv, TypeOK, Read
    <2>2. CASE \E j \in Loops : OnInternalMessage(j)
      BY <1>0, <1>1, <2>2 DEF FrameInv, TypeOK, OnInternalMessage
    <2>3. CASE \E j \in Loops : LoopEnds(j)
      BY <1>0, <1>1, <2>3 DEF FrameInv, TypeOK, LoopEnds
    <2>4. CASE Restore
      BY <1>0, <1>1, <2>4 DEF FrameInv, Restore
    <2>5. CASE \E c \in Calls : Call(c) \/ Outside(c)
      BY <1>0, <1>1, <2>5 DEF FrameInv, Call, Outside, Start, Write, Resume, Expire, Accept,
                              Refuse, AnswerCall, ForwardAnswer, loopVars
    <2>6. CASE Break \/ UNCHANGED vars
      BY <1>0, <1>1, <2>6 DEF FrameInv, Break, vars, loopVars
    <2> QED
      BY <2>1, <2>2, <2>3, <2>4, <2>5, <2>6 DEF Next
  \* What the message of a frame is at, once it was dealt with.
  <1>2. ASSUME NEW c \in Calls
        PROVE  /\ at[c] \notin {"client", "router"} => at'[c] \notin {"client", "router"}
               /\ at[c] = "gone" => at'[c] = "gone"
    <2>1. CASE \E d \in Calls : Call(d)
      BY <1>0, <2>1 DEF Inv, MessageInv, TypeOK, Call, Start, Write, Resume, Expire, linkVars
    <2>2. CASE \E d \in Calls : Outside(d)
      BY <1>0, <2>2 DEF TypeOK, Outside, Accept, Refuse, AnswerCall, ForwardAnswer
    <2>3. CASE Break
      BY <1>0, <2>3 DEF TypeOK, Break
    <2>4. CASE Restore \/ UNCHANGED vars
               \/ \E k \in Loops : Read(k) \/ OnInternalMessage(k) \/ LoopEnds(k)
      BY <2>4 DEF Restore, Read, OnInternalMessage, LoopEnds, vars, linkVars
    <2> QED
      BY <2>1, <2>2, <2>3, <2>4 DEF Next
  <1>3. ASSUME NEW f \in Known PROVE IsDealtWith(f)'
    <2>1. f.call \in Calls /\ at[f.call] \in {"client", "router", "receiver", "answer", "gone"}
          /\ at'[f.call] \in {"client", "router", "receiver", "answer", "gone"}
      BY <1>0, TypeStep DEF TypeOK, Frames
    <2> QED
      BY <1>0, <1>2, <2>1 DEF FrameInv, IsDealtWith
  <1>4. ASSUME NEW f \in Known PROVE Sound(f)'
    BY <1>0, SoundStays DEF FrameInv
  <1>5. CASE Known' \subseteq Known
    BY <1>0, <1>1, <1>3, <1>4, <1>5, FrameSteps DEF FrameInv
  <1>6. ASSUME NEW c \in Calls, NEW kind \in Kinds,
               Known' = Known \union {[kind |-> kind, call |-> c]},
               \/ kind = "ack" /\ Accept(c) /\ c \notin NoAcks
               \/ kind = "error" /\ Refuse(c)
               \/ kind = "response" /\ ForwardAnswer(c)
        PROVE  FrameInv'
    <2> DEFINE f == [kind |-> kind, call |-> c]
    <2>1. f.call = c /\ f.kind = kind
      OBVIOUS
    <2> HIDE DEF f
    <2>2. at'[c] \notin {"client", "router"} /\ (at'[c] # "gone" => kind = "ack")
      BY <1>0, <1>6 DEF TypeOK, Accept, Refuse, ForwardAnswer
    <2>3. IsDealtWith(f)'
      BY <2>1, <2>2 DEF IsDealtWith
    <2>4. ASSUME kind # "response" PROVE \A g \in Known : g.call # c
      <3>1. at[c] = "router"
        BY <1>6, <2>4 DEF Accept, Refuse
      <3> QED
        BY <1>0, <3>1 DEF FrameInv, IsDealtWith
    <2>5. ASSUME kind = "response" PROVE \A g \in Known : g.call = c => g.kind # "error"
      <3>1. at[c] = "answer"
        BY <1>6, <2>5 DEF ForwardAnswer
      <3> QED
        BY <1>0, <3>1 DEF FrameInv, IsDealtWith
    <2>6. ASSUME NEW g \in Known', NEW h \in Known', g.call = h.call, g.kind = "error"
          PROVE  h = g
      <3>1. Known' = Known \union {f}
        BY <1>6 DEF f
      <3>2. CASE g \in Known /\ h \in Known
        BY <1>0, <2>6, <3>2 DEF FrameInv
      <3>3. CASE g = f
        BY <2>1, <2>4, <2>6, <3>1, <3>3
      <3>4. CASE g \in Known /\ h = f
        BY <2>1, <2>4, <2>5, <2>6, <3>4
      <3> QED
        BY <2>6, <3>1, <3>2, <3>3, <3>4
    <2>7. Sound(f)'
      BY <1>6, <2>1 DEF Sound, SaysOnly, Accept, ForwardAnswer, Inv, MessageInv
    <2>8. \A g \in Known' : Sound(g)' /\ IsDealtWith(g)'
      BY <1>3, <1>4, <1>6, <2>3, <2>7 DEF f
    <2> QED
      BY <1>1, <2>6, <2>8, FrameSteps DEF FrameInv
  <1> QED
    BY <1>5, <1>6, FrameSteps

LEMMA MessageStep ==
    ASSUME Inv, [Next]_vars
    PROVE  MessageInv'
  <1>0. TypeOK /\ MessageInv
    BY DEF Inv
  <1>1. ASSUME NEW c \in Calls, Start(c) \/ Resume(c) \/ Expire(c) PROVE MessageInv'
    <2>1. \A d \in Calls : pc'[d] \in {"idle", "write"} => pc[d] \in {"idle", "write"}
      BY <1>0, <1>1 DEF TypeOK, Start, Resume, Expire, WaitsInVain
    <2>2. UNCHANGED <<at, accepted, answered>>
      BY <1>1 DEF Start, Resume, Expire, linkVars, history
    <2> QED
      BY <1>0, <2>1, <2>2 DEF MessageInv
  <1>2. ASSUME NEW c \in Calls, Write(c) PROVE MessageInv'
    <2>1. /\ pc'[c] \notin {"idle", "write"} /\ \A d \in Calls \ {c} : pc'[d] = pc[d]
          /\ \A d \in Calls \ {c} : at'[d] = at[d]
          /\ at'[c] \in {at[c], "router"} /\ pc[c] = "write"
          /\ UNCHANGED <<accepted, answered>>
      BY <1>0, <1>2 DEF TypeOK, Write, Awaited
    <2> QED
      BY <1>0, <2>1 DEF MessageInv
  <1>3. ASSUME NEW c \in Calls, Outside(c) PROVE MessageInv'
    <2>1. /\ UNCHANGED pc /\ at[c] # "client"
          /\ \A d \in Calls \ {c} : at'[d] = at[d]
          /\ accepted \subseteq accepted' /\ answered \subseteq answered'
          /\ answered' \subseteq answered \union {c}
          /\ c \in answered' => at[c] # "router" \/ c \in answered
          /\ at'[c] \in {"receiver", "answer", "gone"}
          /\ at'[c] = "receiver" => c \in accepted'
          /\ at'[c] = "answer" => c \in answered' /\ at[c] = "receiver"
          /\ at[c] = "receiver" \/ answered' = answered
      BY <1>0, <1>3 DEF TypeOK, Outside, Accept, Refuse, AnswerCall, ForwardAnswer,
                        clientVars, history
    <2> QED
      BY <1>0, <2>1 DEF MessageInv
  <1>4. CASE Break
    <2>1. /\ UNCHANGED <<pc, accepted, answered>>
          /\ \A d \in Calls : at'[d] = at[d] \/ (at'[d] = "gone" /\ at[d] = "router")
      BY <1>0, <1>4 DEF TypeOK, Break, clientVars
    <2> QED
      BY <1>0, <2>1 DEF MessageInv
  <1>5. CASE Restore \/ UNCHANGED vars
             \/ \E k \in Loops : Read(k) \/ OnInternalMessage(k) \/ LoopEnds(k)
    <2>1. UNCHANGED <<pc, at, accepted, answered>>
      BY <1>5 DEF Restore, Read, OnInternalMessage, LoopEnds, vars, clientVars, linkVars,
                  history
    <2> QED
      BY <1>0, <2>1 DEF MessageInv
  <1> QED
    BY <1>1, <1>2, <1>3, <1>4, <1>5 DEF Next, Call

-----------------------------------------------------------------------------
(* Acknowledgements and responses.                                         *)

\* A call's place in its method changes only by its own steps.
LEMMA PcSteps ==
    ASSUME TypeOK, [Next]_vars, NEW c \in Calls
    PROVE  \/ pc'[c] = pc[c]
           \/ pc[c] = "idle" /\ pc'[c] = "write" /\ Start(c)
           \/ pc[c] = "write" /\ pc'[c] \in {Awaited(c), "failed"} /\ Write(c)
           \/ pc[c] \in {"ack", "response"} /\ Resume(c)
           \/ pc[c] \in {"ack", "response"} /\ pc'[c] = "timeout" /\ Expire(c)
  <1>1. ASSUME NEW d \in Calls, Call(d) PROVE d = c \/ pc'[c] = pc[c]
    BY <1>1 DEF TypeOK, Call, Start, Write, Resume, Expire
  <1>2. ASSUME \A d \in Calls : ~Call(d) PROVE pc' = pc
    BY <1>2 DEF Next, Outside, Accept, Refuse, AnswerCall, ForwardAnswer, Read,
                OnInternalMessage, LoopEnds, Break, Restore, vars, clientVars
  <1>3. CASE Start(c)
    BY <1>3 DEF TypeOK, Start
  <1>4. CASE Write(c)
    BY <1>4 DEF TypeOK, Write
  <1>5. CASE Resume(c)
    BY <1>5 DEF Resume
  <1>6. CASE Expire(c)
    BY <1>6 DEF TypeOK, Expire, WaitsInVain
  <1> QED
    BY <1>1, <1>2, <1>3, <1>4, <1>5, <1>6 DEF Call

\* A call that has begun never gets back to its beginning.
LEMMA NeverIdleAgain ==
    ASSUME TypeOK, [Next]_vars, NEW c \in Calls, pc'[c] = "idle"
    PROVE  pc[c] = "idle"
  BY PcSteps DEF Resume, Awaited, TypeOK

\* Only the calls' beginnings and the receive loops touch entries and results.
LEMMA QuietStep ==
    ASSUME [Next]_vars, \A c \in Calls : ~Start(c), \A k \in Loops : ~OnInternalMessage(k)
    PROVE  UNCHANGED <<ackTasks, directResponses, ack, response, handled, raised>>
  BY DEF Next, Call, Outside, Write, Resume, Expire, Accept, Refuse, AnswerCall,
         ForwardAnswer, Read, LoopEnds, Break, Restore, vars, clientVars, history

LEMMA AckStep ==
    ASSUME Inv, [Next]_vars
    PROVE  AckInv'
  <1>0. TypeOK /\ AckInv
    BY DEF Inv
  \* Steps that leave both the entries and the results alone.
  <1>1. ASSUME UNCHANGED <<ackTasks, ack>> PROVE AckInv'
    <2>1. \A c \in Calls : pc'[c] = "idle" => ack'[c] = None
      BY <1>0, <1>1, NeverIdleAgain DEF AckInv
    <2>2. ASSUME NEW id \in Ids, ackTasks'[id] # None
          PROVE  /\ IdOf[ackTasks'[id]] = id /\ ack'[ackTasks'[id]] = None
                 /\ pc'[ackTasks'[id]] # "idle"
      <3>1. ackTasks[id] \in Calls
        BY <1>0, <1>1, <2>2 DEF TypeOK
      <3> QED
        BY <1>0, <1>1, <2>2, <3>1, NeverIdleAgain DEF AckInv
    <2>3. ASSUME NEW c \in Calls, ack'[c] # None
          PROVE  IdOf[ack'[c].call] = IdOf[c] /\ ack'[c] \in handled'
      BY <1>0, <1>1, <2>3, HistoryGrows DEF AckInv
    <2>4. ASSUME NEW c \in Calls, pc'[c] = "response" \/ (pc'[c] = "ok" /\ c \notin NoAcks)
          PROVE  ack'[c] # None /\ ack'[c].kind # "error"
      <3>1. CASE pc'[c] = pc[c]
        BY <1>0, <1>1, <2>4, <3>1 DEF AckInv
      <3>2. CASE Resume(c) /\ pc[c] = "ack"
        BY <1>0, <1>1, <2>4, <3>2 DEF Resume, TypeOK
      <3>3. CASE Resume(c) /\ pc[c] = "response"
        BY <1>0, <1>1, <3>3 DEF AckInv
      <3> QED
        BY <1>0, <2>4, <3>1, <3>2, <3>3, PcSteps DEF Awaited
    <2> QED
      BY <2>1, <2>2, <2>3, <2>4 DEF AckInv
  <1>2. ASSUME NEW c \in Calls, Start(c) PROVE AckInv'
    <2>1. pc[c] = "idle" /\ ack' = ack /\ pc' = [pc EXCEPT ![c] = "write"] /\ handled' = handled
      BY <1>2 DEF Start
    <2>2. ack[c] = None
      BY <1>0, <2>1 DEF AckInv
    <2>3. ASSUME NEW id \in Ids, ackTasks'[id] # None
          PROVE  ackTasks'[id] = ackTasks[id] \/ (ackTasks'[id] = c /\ IdOf[c] = id)
      <3>1. ackTasks \in [Ids -> Calls \union {None}]
        BY <1>0 DEF TypeOK
      <3>2. ackTasks' = ackTasks \/ ackTasks' = TryAdd(ackTasks, c)
        BY <1>2 DEF Start
      <3> QED
        BY <3>1, <3>2, TryAddEntries
    <2>4. ASSUME NEW id \in Ids, ackTasks'[id] # None
          PROVE  /\ IdOf[ackTasks'[id]] = id /\ ack'[ackTasks'[id]] = None
                 /\ pc'[ackTasks'[id]] # "idle"
      <3>1. CASE ackTasks'[id] = ackTasks[id]
        <4>1. ackTasks[id] \in Calls
          BY <1>0, <2>4, <3>1 DEF TypeOK
        <4>2. pc[ackTasks[id]] # "idle"
          BY <1>0, <2>4, <3>1 DEF AckInv
        <4>3. pc'[ackTasks[id]] # "idle"
          BY <1>0, <4>1, <4>2, NeverIdleAgain
        <4> QED
          BY <1>0, <2>1, <2>4, <3>1, <4>3 DEF AckInv
      <3>2. CASE ackTasks'[id] = c /\ IdOf[c] = id
        BY <1>0, <2>1, <2>2, <3>2 DEF TypeOK
      <3> QED
        BY <2>3, <2>4, <3>1, <3>2
    <2>5. \A d \in Calls : pc'[d] = pc[d] \/ pc'[d] = "write"
      BY <1>0, <2>1 DEF TypeOK
    <2>6. /\ \A d \in Calls : pc'[d] = "idle" => ack'[d] = None
          /\ \A d \in Calls : ack'[d] # None =>
                IdOf[ack'[d].call] = IdOf[d] /\ ack'[d] \in handled'
          /\ \A d \in Calls : (pc'[d] = "response" \/ (pc'[d] = "ok" /\ d \notin NoAcks)) =>
                ack'[d] # None /\ ack'[d].kind # "error"
      BY <1>0, <2>1, <2>5 DEF AckInv
    <2> QED
      BY <2>4, <2>6 DEF AckInv
  <1>3. ASSUME NEW k \in Loops, OnInternalMessage(k), CompletesAck(hand[k]), TakeAck(hand[k])
        PROVE  AckInv'
    <2> DEFINE f == hand[k]
               id0 == IdOf[f.call]
               c == ackTasks[id0]
    <2>1. f \in Frames /\ f.call \in Calls /\ id0 \in Ids
      BY <1>3, HandFrame DEF OnInternalMessage
    <2>2. /\ ackTasks' = [ackTasks EXCEPT ![id0] = None]
          /\ ack' = [ack EXCEPT ![c] = f]
          /\ c # None
      BY <1>3 DEF TakeAck, CompletesAck
    <2>3. c \in Calls /\ IdOf[c] = id0 /\ ack[c] = None /\ pc[c] # "idle"
      BY <1>0, <2>1, <2>2 DEF TypeOK, AckInv
    <2>4. pc' = pc /\ handled' = handled \union {f}
      BY <1>3 DEF OnInternalMessage
    <2>5. ack'[c] = f /\ \A d \in Calls \ {c} : ack'[d] = ack[d]
      BY <1>0, <2>2, <2>3 DEF TypeOK
    <2>6. ASSUME NEW id \in Ids, ackTasks'[id] # None
          PROVE  /\ IdOf[ackTasks'[id]] = id /\ ack'[ackTasks'[id]] = None
                 /\ pc'[ackTasks'[id]] # "idle"
      <3>1. id # id0 /\ ackTasks'[id] = ackTasks[id]
        BY <1>0, <2>1, <2>2, <2>6 DEF TypeOK
      <3>2. /\ ackTasks[id] \in Calls
            /\ IdOf[ackTasks[id]] = id /\ ack[ackTasks[id]] = None
            /\ pc[ackTasks[id]] # "idle"
        BY <1>0, <2>6, <3>1 DEF TypeOK, AckInv
      <3>3. ackTasks[id] # c
        BY <2>3, <3>1, <3>2
      <3> QED
        BY <2>4, <2>5, <3>1, <3>2, <3>3
    <2>7. \A d \in Calls : pc'[d] = "idle" => ack'[d] = None
      BY <1>0, <2>3, <2>4, <2>5 DEF AckInv
    <2>8. ASSUME NEW d \in Calls, ack'[d] # None
          PROVE  IdOf[ack'[d].call] = IdOf[d] /\ ack'[d] \in handled'
      BY <1>0, <2>1, <2>3, <2>4, <2>5, <2>8 DEF AckInv
    <2>9. ASSUME NEW d \in Calls, pc'[d] = "response" \/ (pc'[d] = "ok" /\ d \notin NoAcks)
          PROVE  ack'[d] # None /\ ack'[d].kind # "error"
      <3>1. ack[d] # None /\ ack[d].kind # "error"
        BY <1>0, <2>4, <2>9 DEF AckInv
      <3>2. d # c
        BY <2>3, <3>1
      <3> QED
        BY <2>5, <3>1, <3>2
    <2> QED
      BY <2>6, <2>7, <2>8, <2>9 DEF AckInv
  <1>4. ASSUME NEW k \in Loops, OnInternalMessage(k) PROVE AckInv'
    BY <1>1, <1>3, <1>4 DEF OnInternalMessage, Dispatch, TakeResponse, Raise
  <1> QED
    BY <1>1, <1>2, <1>4, QuietStep

LEMMA ResponseStep ==
    ASSUME Inv, [Next]_vars
    PROVE  ResponseInv'
  <1>0. TypeOK /\ ResponseInv /\ Asks \subseteq Calls /\ Asks \intersect NoAcks = {}
    BY CallsAssumption DEF Inv
  \* Steps that leave both the entries and the results alone.
  <1>1. ASSUME UNCHANGED <<directResponses, response>> PROVE ResponseInv'
    <2>1. ASSUME NEW id \in Ids, directResponses'[id] # None
          PROVE  /\ directResponses'[id] \in Asks /\ IdOf[directResponses'[id]] = id
                 /\ pc'[directResponses'[id]] # "idle"
      BY <1>0, <1>1, <2>1, NeverIdleAgain DEF ResponseInv
    <2>2. ASSUME NEW c \in Calls, response'[c] # None
          PROVE  IdOf[response'[c].call] = IdOf[c] /\ response'[c] \in handled'
      BY <1>0, <1>1, <2>2, HistoryGrows DEF ResponseInv
    <2>3. ASSUME NEW c \in Asks, pc'[c] = "ok" PROVE response'[c] # None
      <3>1. c \in Calls /\ c \notin NoAcks
        BY <1>0
      <3>2. CASE pc'[c] = pc[c]
        BY <1>0, <1>1, <2>3, <3>2 DEF ResponseInv
      <3>3. CASE Resume(c) /\ pc[c] \in {"ack", "response"}
        BY <1>0, <1>1, <2>3, <3>1, <3>3 DEF Resume, TypeOK
      <3> QED
        BY <1>0, <2>3, <3>1, <3>2, <3>3, PcSteps DEF Awaited
    <2> QED
      BY <2>1, <2>2, <2>3 DEF ResponseInv
  <1>2. ASSUME NEW c \in Calls, Start(c) PROVE ResponseInv'
    <2>1. pc[c] = "idle" /\ response' = response /\ pc' = [pc EXCEPT ![c] = "write"]
          /\ handled' = handled
      BY <1>2 DEF Start
    <2>2. \A d \in Calls : pc'[d] = pc[d] \/ pc'[d] = "write"
      BY <1>0, <2>1 DEF TypeOK
    <2>3. ASSUME NEW id \in Ids, directResponses'[id] # None
          PROVE  \/ directResponses'[id] = directResponses[id]
                 \/ directResponses'[id] = c /\ IdOf[c] = id /\ c \in Asks
      <3>1. directResponses \in [Ids -> Calls \union {None}]
        BY <1>0 DEF TypeOK
      <3>2. \/ directResponses' = directResponses
            \/ c \in Asks /\ directResponses' = TryAdd(directResponses, c)
        BY <1>2 DEF Start
      <3> QED
        BY <3>1, <3>2, TryAddEntries
    <2>4. pc'[c] = "write"
      BY <1>0, <2>1 DEF TypeOK
    <2>5. ASSUME NEW id \in Ids, directResponses'[id] # None
          PROVE  /\ directResponses'[id] \in Asks /\ IdOf[directResponses'[id]] = id
                 /\ pc'[directResponses'[id]] # "idle"
      BY <1>0, <2>2, <2>3, <2>4, <2>5 DEF ResponseInv
    <2> QED
      BY <1>0, <2>1, <2>2, <2>5 DEF ResponseInv
  <1>3. ASSUME NEW k \in Loops, OnInternalMessage(k), CompletesResponse(hand[k]),
               ~CompletesAck(hand[k]), TakeResponse(hand[k])
        PROVE  ResponseInv'
    <2> DEFINE f == hand[k]
               c == f.call
    <2>1. f \in Frames /\ c \in Calls /\ IdOf[c] \in Ids
      BY <1>3, HandFrame DEF OnInternalMessage
    <2>2. directResponses[IdOf[c]] = c /\ c \in Asks
      BY <1>3, ResponseFrame DEF OnInternalMessage
    <2>3. /\ directResponses' = [directResponses EXCEPT ![IdOf[c]] = None]
          /\ response' = [response EXCEPT ![c] = f]
      BY <1>3, <2>2 DEF TakeResponse
    <2>4. pc' = pc /\ handled' = handled \union {f}
      BY <1>3 DEF OnInternalMessage
    <2>5. response'[c] = f /\ \A d \in Calls \ {c} : response'[d] = response[d]
      BY <1>0, <2>1, <2>3 DEF TypeOK
    <2>6. \A id \in Ids : directResponses'[id] # None => directResponses'[id] = directResponses[id]
      BY <1>0, <2>1, <2>3 DEF TypeOK
    <2>7. f # None
      BY <2>1, CallsAssumption
    <2> QED
      BY <1>0, <2>4, <2>5, <2>6, <2>7 DEF ResponseInv
  <1>4. ASSUME NEW k \in Loops, OnInternalMessage(k) PROVE ResponseInv'
    BY <1>1, <1>3, <1>4 DEF OnInternalMessage, Dispatch, TakeAck, Raise
  <1> QED
    BY <1>1, <1>2, <1>4, QuietStep

-----------------------------------------------------------------------------
(* Calls with an id of their own.                                          *)

\* What handing out a frame does to such a call: nothing if the frame is not its own,
\* and otherwise it completes the ack or, for an ask that has that, the response.
LEMMA Handling ==
    ASSUME Inv, NEW k \in Loops, OnInternalMessage(k), NEW c \in Own
    PROVE  /\ hand[k].call # c =>
                 /\ ackTasks'[IdOf[c]] = ackTasks[IdOf[c]] /\ ack'[c] = ack[c]
                 /\ directResponses'[IdOf[c]] = directResponses[IdOf[c]]
                 /\ response'[c] = response[c]
           /\ hand[k].call = c /\ ack[c] = None =>
                 /\ ack'[c] = hand[k] /\ response'[c] = response[c]
                 /\ directResponses'[IdOf[c]] = directResponses[IdOf[c]]
           /\ hand[k].call = c /\ ack[c] # None =>
                 /\ ack'[c] = ack[c]
                 /\ c \in Asks => response[c] = None /\ response'[c] = hand[k]
  <1> DEFINE f == hand[k]
  <1>1. /\ TypeOK /\ OwnOk(c) /\ c \in Calls /\ IdOf[c] \in Ids /\ c # None
        /\ ackTasks[IdOf[c]] \in {c, None} /\ directResponses[IdOf[c]] \in {c, None}
    BY OwnEntry DEF Inv, OwnInv
  <1>2. /\ f \in Frames /\ f.call \in Calls /\ IdOf[f.call] \in Ids /\ f \in Known
        /\ f \notin handled /\ pc[f.call] # "idle" /\ Dispatch(f)
    BY HandFrame DEF OnInternalMessage
  <1>3. ASSUME f.call # c
        PROVE  /\ ackTasks'[IdOf[c]] = ackTasks[IdOf[c]] /\ ack'[c] = ack[c]
               /\ directResponses'[IdOf[c]] = directResponses[IdOf[c]]
               /\ response'[c] = response[c]
    <2>1. IdOf[f.call] # IdOf[c]
      BY <1>2, <1>3, OwnIds
    <2>2. CASE CompletesAck(f) /\ TakeAck(f)
      <3>1. ackTasks[IdOf[f.call]] # c
        BY <1>1, <1>2, <2>1, <2>2 DEF CompletesAck, Inv, AckInv
      <3> QED
        BY <1>1, <2>1, <2>2, <3>1 DEF TakeAck, TypeOK
    <2>3. CASE CompletesResponse(f) /\ TakeResponse(f)
      <3>1. directResponses[IdOf[f.call]] # c
        BY <1>1, <1>2, <2>1, <2>3 DEF CompletesResponse, Inv, ResponseInv
      <3> QED
        BY <1>1, <2>1, <2>3, <3>1 DEF TakeResponse, TypeOK
    <2>4. CASE Raise(f)
      BY <2>4 DEF Raise
    <2> QED
      BY <1>2, <2>2, <2>3, <2>4 DEF Dispatch
  <1>4. ASSUME f.call = c, ack[c] = None
        PROVE  /\ ack'[c] = f /\ response'[c] = response[c]
               /\ directResponses'[IdOf[c]] = directResponses[IdOf[c]]
    <2>1. ackTasks[IdOf[c]] = c
      BY <1>1, <1>2, <1>4 DEF OwnOk
    <2>2. TakeAck(f)
      BY <1>1, <1>2, <1>4, <2>1 DEF Dispatch, CompletesAck
    <2> QED
      BY <1>1, <1>4, <2>1, <2>2 DEF TakeAck, TypeOK
  <1>5. ASSUME f.call = c, ack[c] # None
        PROVE  ack'[c] = ack[c] /\ (c \in Asks => response[c] = None /\ response'[c] = f)
    <2>1. ackTasks[IdOf[c]] = None
      BY <1>1, <1>5 DEF Inv, AckInv
    <2>2. ~CompletesAck(f)
      BY <1>5, <2>1 DEF CompletesAck
    <2>3. ack' = ack
      BY <1>2, <2>2 DEF Dispatch, TakeResponse, Raise
    <2>4. ASSUME c \in Asks PROVE response[c] = None /\ response'[c] = f
      <3>1. response[c] = None
        BY <1>2, <1>5, <2>4, NoThird
      <3>2. directResponses[IdOf[c]] = c
        BY <1>2, <1>5, <2>4, <3>1 DEF Inv, OwnInv, AskOk
      <3>3. TakeResponse(f)
        BY <1>1, <1>2, <1>5, <2>2, <3>2 DEF Dispatch, CompletesResponse
      <3> QED
        BY <1>1, <1>5, <3>1, <3>2, <3>3 DEF TakeResponse, TypeOK
    <2> QED
      BY <2>3, <2>4
  <1> QED
    BY <1>3, <1>4, <1>5

\* The beginning of a call enters it, and touches no other with an id of its own.
LEMMA Starting ==
    ASSUME Inv, [Next]_vars, NEW d \in Calls, Start(d), NEW c \in Own
    PROVE  /\ ack' = ack /\ response' = response /\ handled' = handled
           /\ d # c => /\ ackTasks'[IdOf[c]] = ackTasks[IdOf[c]]
                       /\ directResponses'[IdOf[c]] = directResponses[IdOf[c]]
                       /\ pc'[c] = pc[c]
           /\ d = c => /\ ackTasks'[IdOf[c]] = c
                       /\ c \in Asks => directResponses'[IdOf[c]] = c
  <1>1. /\ TypeOK /\ c \in Calls /\ IdOf[c] \in Ids /\ c # None /\ c \notin NoAcks
        /\ ackTasks[IdOf[c]] \in {c, None} /\ directResponses[IdOf[c]] \in {c, None}
    BY OwnEntry DEF Inv, Own
  <1>2. /\ ackTasks \in [Ids -> Calls \union {None}]
        /\ directResponses \in [Ids -> Calls \union {None}]
    BY <1>1 DEF TypeOK
  <1>3. /\ ack' = ack /\ response' = response /\ handled' = handled
        /\ d # c => pc'[c] = pc[c]
    BY <1>1 DEF Start, TypeOK
  <1>4. ASSUME d # c
        PROVE  /\ ackTasks'[IdOf[c]] = ackTasks[IdOf[c]]
               /\ directResponses'[IdOf[c]] = directResponses[IdOf[c]]
    <2>1. IdOf[d] # IdOf[c]
      BY <1>4, OwnIds
    <2> QED
      BY <1>1, <1>2, <2>1, TryAddEntries DEF Start
  <1>5. ASSUME d = c
        PROVE  /\ ackTasks'[IdOf[c]] = c
               /\ c \in Asks => directResponses'[IdOf[c]] = c
    BY <1>1, <1>2, <1>5, TryAddEntries DEF Start
  <1> QED
    BY <1>3, <1>4, <1>5

LEMMA OwnOkStep ==
    ASSUME Inv, [Next]_vars, NEW c \in Own
    PROVE  OwnOk(c)' /\ (c \in Asks => AskOk(c)')
  <1>0. TypeOK /\ OwnOk(c) /\ (c \in Asks => AskOk(c)) /\ c \in Calls /\ c # None
    BY OwnEntry DEF Inv, OwnInv
  <1>1. pc'[c] # "idle" => pc[c] # "idle" \/ Start(c)
    BY <1>0, PcSteps
  <1>2. ASSUME NEW d \in Calls, Start(d) PROVE OwnOk(c)' /\ (c \in Asks => AskOk(c)')
    BY <1>0, <1>1, <1>2, Starting DEF OwnOk, AskOk
  <1>3. ASSUME NEW k \in Loops, OnInternalMessage(k)
        PROVE  OwnOk(c)' /\ (c \in Asks => AskOk(c)')
    <2>1. handled' = handled \union {hand[k]} /\ pc' = pc
      BY <1>3 DEF OnInternalMessage
    <2>2. hand[k] \in Frames /\ hand[k] # None /\ hand[k] \notin handled
      BY <1>3, HandFrame DEF OnInternalMessage
    <2>3. ack[c] # None => ack[c] \in handled
      BY OwnEntry
    <2>4. CASE hand[k].call # c
      BY <1>0, <1>3, <2>1, <2>4, Handling DEF OwnOk, AskOk
    <2>5. CASE hand[k].call = c /\ ack[c] = None
      BY <1>0, <1>3, <2>1, <2>2, <2>5, Handling DEF OwnOk, AskOk
    <2>6. CASE hand[k].call = c /\ ack[c] # None
      <3>1. OwnOk(c)'
        BY <2>6, <1>3, Handling DEF OwnOk
      <3>2. ASSUME c \in Asks PROVE AskOk(c)'
        <4>1. /\ ack'[c] = ack[c] /\ ack[c] # None /\ ack[c] # hand[k]
              /\ response[c] = None /\ response'[c] = hand[k]
          BY <1>3, <2>2, <2>3, <2>6, <3>2, Handling
        <4>2. None \notin handled
          BY <1>0, CallsAssumption DEF TypeOK
        <4> QED
          BY <1>0, <2>1, <2>2, <3>2, <4>1, <4>2 DEF AskOk
      <3> QED
        BY <3>1, <3>2
    <2> QED
      BY <2>4, <2>5, <2>6
  <1>4. CASE /\ \A d \in Calls : ~Start(d)
             /\ \A k \in Loops : ~OnInternalMessage(k)
    BY <1>0, <1>1, <1>4, QuietStep DEF OwnOk, AskOk
  <1> QED
    BY <1>2, <1>3, <1>4

-----------------------------------------------------------------------------
(* The order of a call's frames.                                           *)

\* Nothing happens to the frames or the call's result.
LEMMA InOrderSame ==
    ASSUME NEW c \in Own, InOrder(c), UNCHANGED <<wire, hand, handled, breaks>>,
           ack'[c] = ack[c], sentOn'[c] = sentOn[c], readers' \subseteq readers,
           at'[c] = "router" => at[c] = "router" /\ up' = up,
           at'[c] \notin {"client", "router"} => at[c] \notin {"client", "router"}
    PROVE  InOrder(c)'
  <1>1. Flying' = Flying /\ InHand' = InHand
    BY DEF Flying, OnWire, InHand
  <1> QED
    BY <1>1 DEF InOrder, IsReply, Answer

\* A frame is sent: the reply to the call, which is its first, or another one.
LEMMA InOrderSent ==
    ASSUME Inv, NEW c \in Own, InOrder(c), NEW f \in Frames, f \notin Known,
           wire' = Append(wire, f), UNCHANGED <<hand, handled, breaks, up, sentOn, readers>>,
           ack'[c] = ack[c],
           at'[c] = "router" => at[c] = "router",
           at[c] \in {"client", "router"} /\ at'[c] \notin {"client", "router"} => IsReply(f, c),
           IsReply(f, c) => at[c] = "router"
    PROVE  InOrder(c)'
  <1>1. /\ wire \in Seq(Frames) /\ Answer(c).call = c
        /\ \A g \in Known : IsDealtWith(g)
    BY DEF Inv, TypeOK, FrameInv, Answer
  <1>2. Flying' = Flying \union {f} /\ InHand' = InHand
    BY NewFrame
  <1>3. /\ Len(wire) \in Nat /\ Len(wire') = Len(wire) + 1 /\ wire'[Len(wire) + 1] = f
        /\ \A i \in 1..Len(wire) : wire'[i] = wire[i]
    BY <1>1, AppendElements
  <1>4. ASSUME NEW i \in 1..Len(wire')
        PROVE  (i \in 1..Len(wire) /\ wire'[i] = wire[i]) \/ (i = Len(wire) + 1 /\ wire'[i] = f)
    <2>1. i \in 1..Len(wire) \/ i = Len(wire) + 1
      BY <1>3
    <2> QED
      BY <1>3, <2>1
  <1>5. IsReply(f, c) => Answer(c) \notin Known /\ f # Answer(c)
    BY <1>1 DEF IsDealtWith, IsReply, Answer
  <1>6. \A i \in 1..Len(wire) : wire[i] \in Known
    BY DEF Known, Flying, OnWire
  <1>7. ASSUME NEW j \in 1..Len(wire'), IsReply(wire'[j], c)
        PROVE  /\ Answer(c) \notin InHand
               /\ \A i \in 1..Len(wire') : wire'[i] = Answer(c) => j < i
    <2>1. CASE j \in 1..Len(wire) /\ wire'[j] = wire[j]
      <3>1. /\ Answer(c) \notin InHand
            /\ \A i \in 1..Len(wire) : wire[i] = Answer(c) => j < i
        BY <1>7, <2>1 DEF InOrder
      <3>2. j < Len(wire) + 1
        BY <1>3, <2>1
      <3> QED
        BY <1>4, <3>1, <3>2
    <2>2. CASE j = Len(wire) + 1 /\ wire'[j] = f
      <3>1. Answer(c) \notin Known /\ f # Answer(c)
        BY <1>5, <1>7, <2>2
      <3>2. Answer(c) \notin InHand
        BY <3>1 DEF Known, Flying
      <3>3. \A i \in 1..Len(wire') : wire'[i] # Answer(c)
        BY <1>4, <1>6, <3>1
      <3> QED
        BY <3>2, <3>3
    <2> QED
      BY <1>4, <2>1, <2>2
  <1>8. at'[c] \notin {"client", "router"} /\ ack'[c] = None => \E g \in Flying' : IsReply(g, c)
    BY <1>2 DEF InOrder
  <1>9. \A j \in 1..Len(wire') : IsReply(wire'[j], c) =>
          /\ Answer(c) \notin InHand'
          /\ \A i \in 1..Len(wire') : wire'[i] = Answer(c) => j < i
    BY <1>2, <1>7
  <1> QED
    BY <1>8, <1>9 DEF InOrder, IsReply, Answer

\* A frame is read by the only loop there is.
LEMMA InOrderRead ==
    ASSUME Inv, NEW c \in Own, InOrder(c), NEW k \in Loops, Read(k)
    PROVE  InOrder(c)'
  <1>1. /\ wire \in Seq(Frames) /\ wire # <<>> /\ wire' = Tail(wire)
        /\ UNCHANGED <<ack, handled, at, sentOn, up, breaks, readers>>
    BY DEF Inv, TypeOK, Read, clientVars, history
  <1>2. Flying' = Flying /\ InHand' = InHand \union {Head(wire)}
    BY ReadFrame
  <1>3. /\ Len(wire) \in Nat \ {0} /\ Head(wire) = wire[1] /\ Len(wire') = Len(wire) - 1
        /\ \A i \in 1..(Len(wire) - 1) : wire'[i] = wire[i + 1]
    BY <1>1, TailElements
  <1>4. ASSUME NEW i \in 1..Len(wire')
        PROVE  i + 1 \in 1..Len(wire) /\ wire'[i] = wire[i + 1] /\ ~(i + 1 < 1) /\ i \in Nat
    BY <1>3
  <1>5. 1 \in 1..Len(wire)
    BY <1>3
  <1>6. ASSUME NEW j \in 1..Len(wire'), IsReply(wire'[j], c)
        PROVE  /\ Answer(c) \notin InHand'
               /\ \A i \in 1..Len(wire') : wire'[i] = Answer(c) => j < i
    <2>1. /\ Answer(c) \notin InHand
          /\ \A i \in 1..Len(wire) : wire[i] = Answer(c) => j + 1 < i
      BY <1>4, <1>6 DEF InOrder
    <2>2. Head(wire) # Answer(c)
      BY <1>3, <1>4, <1>5, <2>1
    <2>3. ASSUME NEW i \in 1..Len(wire'), wire'[i] = Answer(c) PROVE j < i
      <3>1. j + 1 < i + 1 /\ i \in Nat /\ j \in Nat
        BY <1>4, <2>1, <2>3
      <3> QED
        BY <3>1
    <2> QED
      BY <1>2, <2>1, <2>2, <2>3
  <1> QED
    BY <1>1, <1>2, <1>6 DEF InOrder, IsReply, Answer

\* A frame is handed out by it: before the answer comes the reply.
LEMMA InOrderHandled ==
    ASSUME Inv, NEW c \in Own, InOrder(c), NEW k \in Loops, OnInternalMessage(k)
    PROVE  InOrder(c)'
  <1> DEFINE f == hand[k]
  <1>1. /\ f \in Frames /\ f.kind \in Kinds /\ f.call \in Calls /\ f \in InHand /\ f \in Known
        /\ f \notin handled /\ f # None
    BY HandFrame DEF OnInternalMessage
  <1>2. /\ UNCHANGED <<wire, at, sentOn, up, breaks, readers>>
        /\ \A j \in Loops : hand[j] # None => j \in readers
        /\ \A g, h \in Known : g.call = h.call /\ g.kind = "error" => h = g
        /\ \A g \in Known : IsDealtWith(g)
    BY DEF OnInternalMessage, linkVars, Inv, FrameInv
  <1>3. /\ handled' = handled \union {f} /\ OnWire' = OnWire /\ InHand' = InHand \ {f}
    BY HandleFrame
  <1>4. ack[c] # None => ack[c] \in handled /\ ack[c].call = c
    BY OwnEntry
  <1>5. OwnOk(c)
    BY DEF Inv, OwnInv
  <1>6. CASE f.call # c
    <2>1. ack'[c] = ack[c]
      BY <1>6, Handling
    <2>2. ~IsReply(f, c)
      BY <1>6 DEF IsReply
    <2>3. \A g \in Flying : IsReply(g, c) => g \in Flying'
      BY <1>3, <2>2 DEF Flying
    <2> QED
      BY <1>2, <1>3, <2>1, <2>2, <2>3 DEF InOrder, IsReply, Answer
  <1>7. CASE IsReply(f, c)
    <2>1. ack[c] = None
      <3> SUFFICES ASSUME ack[c] # None PROVE FALSE
        OBVIOUS
      <3>1. ack[c].kind # "response" /\ ack[c] \in Known /\ ack[c] # f /\ ack[c].call = c
        BY <1>1, <1>4 DEF InOrder, Known
      <3>2. ack[c] \in Frames
        BY <3>1, KnownAreFrames DEF Inv
      <3>3. f.kind = "error" \/ ack[c].kind = "error"
        BY <1>1, <1>7, <3>1, <3>2 DEF Frames, Kinds, IsReply
      <3> QED
        BY <1>1, <1>2, <1>7, <3>1, <3>3 DEF IsReply
    <2>2. ack'[c] = f /\ f.kind # "response"
      BY <1>7, <2>1, Handling DEF IsReply
    <2>3. \A g \in handled : ~IsReply(g, c)
      BY <1>5, <2>1 DEF OwnOk, IsReply
    <2> QED
      BY <1>1, <1>2, <1>3, <2>2, <2>3 DEF InOrder, IsReply, Answer
  <1>8. CASE f.call = c /\ f.kind = "response"
    <2>1. f = Answer(c) /\ ~IsReply(f, c)
      BY <1>1, <1>8 DEF Frames, Answer, IsReply
    <2>2. ack[c] # None
      <3> SUFFICES ASSUME ack[c] = None PROVE FALSE
        OBVIOUS
      <3>1. at[c] \notin {"client", "router"}
        BY <1>1, <1>2, <1>8 DEF IsDealtWith
      <3>2. PICK g \in Flying : IsReply(g, c)
        BY <3>1 DEF InOrder
      <3>3. g \notin OnWire
        BY <1>1, <2>1, <3>2 DEF InOrder, OnWire
      <3>4. PICK j \in Loops : hand[j] = g /\ g # None
        BY <3>2, <3>3 DEF Flying, InHand
      <3>5. j = k
        BY <1>1, <1>2, <3>4 DEF InOrder
      <3> QED
        BY <2>1, <3>2, <3>4, <3>5
    <2>3. ack'[c] = ack[c]
      BY <1>8, <2>2, Handling
    <2> QED
      BY <1>2, <1>3, <2>1, <2>2, <2>3 DEF InOrder, IsReply, Answer
  <1> QED
    BY <1>6, <1>7, <1>8 DEF IsReply

LEMMA OrderStep ==
    ASSUME Inv, [Next]_vars, NEW c \in Own, pc'[c] # "idle", c \notin disturbed'
    PROVE  InOrder(c)'
  <1>0. /\ TypeOK /\ FrameInv /\ c \in Calls /\ c \notin NoAcks /\ c \notin disturbed
    BY OwnEntry, HistoryGrows DEF Inv, Own
  <1>1. CASE Start(c)
    <2>1. /\ pc[c] = "idle" /\ readers \subseteq {breaks}
          /\ UNCHANGED <<ack, wire, hand, handled, at, sentOn, up, breaks, readers>>
      BY <1>0, <1>1 DEF Start, linkVars, loopVars
    <2>2. at[c] = "client" /\ ack[c] = None
      BY <1>0, <2>1 DEF Inv, MessageInv, AckInv
    <2>3. \A f \in Known : f.call # c
      BY <1>0, <2>2 DEF FrameInv, IsDealtWith
    <2>4. \A j \in 1..Len(wire) : ~IsReply(wire[j], c)
      BY <2>3 DEF Known, Flying, OnWire, IsReply
    <2>5. \A f \in handled : ~IsReply(f, c)
      BY <2>3 DEF Known, IsReply
    <2> QED
      BY <2>1, <2>2, <2>4, <2>5 DEF InOrder, IsReply, Answer
  <1>2. ASSUME ~Start(c) PROVE pc[c] # "idle" /\ InOrder(c)
    <2>1. pc[c] # "idle"
      BY <1>0, <1>2, PcSteps
    <2> QED
      BY <1>0, <2>1 DEF Inv, OwnInv
  <1>3. CASE Write(c)
    <2>1. /\ pc[c] = "write" /\ InOrder(c)
          /\ UNCHANGED <<ack, wire, hand, handled, up, breaks, readers>>
          /\ at'[c] = "router" /\ up /\ sentOn'[c] = breaks
      BY <1>0, <1>2, <1>3 DEF TypeOK, Write, Start, loopVars
    <2>2. InHand' = InHand
      BY <2>1 DEF InHand
    <2> QED
      BY <2>1, <2>2 DEF InOrder, IsReply, Answer
  <1>4. ASSUME NEW d \in Calls, Call(d), ~Start(c), ~Write(c) PROVE InOrder(c)'
    <2>1. /\ UNCHANGED <<ack, wire, hand, handled, up, breaks, readers>>
          /\ at'[c] = at[c] /\ sentOn'[c] = sentOn[c]
      BY <1>0, <1>4 DEF TypeOK, Call, Start, Write, Resume, Expire, linkVars, loopVars,
                        history
    <2> QED
      BY <1>2, <1>4, <2>1, InOrderSame
  <1>5. ASSUME NEW d \in Calls, Outside(d) PROVE InOrder(c)'
    <2>1. /\ UNCHANGED <<pc, ack, hand, handled, up, breaks, sentOn, readers>>
          /\ d # c => at'[c] = at[c]
          /\ at'[c] = "router" => at[c] = "router"
          /\ at'[c] \notin {"client", "router"} =>
                at[c] \notin {"client", "router"} \/ (d = c /\ (Accept(c) \/ Refuse(c)))
      BY <1>0, <1>5 DEF TypeOK, Outside, Accept, Refuse, AnswerCall, ForwardAnswer, clientVars,
                        loopVars, history
    <2>2. ~Start(c) /\ InOrder(c)
      BY <1>2, <2>1 DEF Start, Inv, OwnInv
    <2>3. CASE wire' = wire /\ ~(d = c /\ (Accept(c) \/ Refuse(c)))
      BY <2>1, <2>2, <2>3, InOrderSame
    <2>4. ASSUME d = c, Accept(c) \/ Refuse(c)
          PROVE  wire' # wire /\ wire' # <<>>
      <3>1. at[c] = "router" /\ \E kind \in {"ack", "error"} : Reply(c, kind)
        BY <1>0, <2>4 DEF Accept, Refuse
      <3>2. up /\ sentOn[c] = breaks
        BY <2>2, <3>1 DEF InOrder
      <3>3. PICK kind \in {"ack", "error"} : wire' = Append(wire, [kind |-> kind, call |-> c])
        BY <3>1, <3>2 DEF Reply
      <3>4. wire \in Seq(Frames) /\ [kind |-> kind, call |-> c] \in Frames
        BY <1>0 DEF TypeOK, Frames, Kinds
      <3> QED
        BY <3>3, <3>4, AppendElements
    <2>5. CASE wire' # wire
      <3>1. PICK kind \in Kinds :
                    /\ wire' = Append(wire, [kind |-> kind, call |-> d])
                    /\ \/ kind = "ack" /\ Accept(d)
                       \/ kind = "error" /\ Refuse(d)
                       \/ kind = "response" /\ ForwardAnswer(d)
        BY <1>5, <2>5 DEF Outside, Accept, Refuse, AnswerCall, ForwardAnswer, Reply, Kinds
      <3> DEFINE f == [kind |-> kind, call |-> d]
      <3>2. f \in Frames /\ f.call = d /\ f.kind = kind
        BY DEF Frames
      <3>3. at[d] = "router" \/ (at[d] = "answer" /\ kind = "response")
        BY <3>1 DEF Accept, Refuse, ForwardAnswer
      <3> HIDE DEF f
      <3>4. f \notin Known
        BY <1>0, <3>2, <3>3 DEF FrameInv, IsDealtWith
      <3>5. /\ IsReply(f, c) => at[c] = "router"
            /\ at[c] \in {"client", "router"} /\ at'[c] \notin {"client", "router"} => IsReply(f, c)
        <4>1. IsReply(f, c) => at[c] = "router"
          BY <3>2, <3>3 DEF IsReply
        <4>2. d = c /\ (Accept(c) \/ Refuse(c)) => at[c] # "answer"
          BY DEF Accept, Refuse
        <4>3. kind = "response" => at[d] = "answer"
          BY <3>1 DEF ForwardAnswer
        <4> QED
          BY <2>1, <3>2, <4>1, <4>2, <4>3 DEF IsReply
      <3>6. wire' = Append(wire, f)
        BY <3>1 DEF f
      <3> QED
        BY <2>1, <2>2, <3>2, <3>4, <3>5, <3>6, InOrderSent
    <2> QED
      BY <2>3, <2>4, <2>5
  <1>6. ASSUME NEW k \in Loops, Read(k) \/ OnInternalMessage(k) \/ LoopEnds(k)
        PROVE  InOrder(c)'
    <2>1. UNCHANGED pc
      BY <1>6 DEF Read, OnInternalMessage, LoopEnds, clientVars
    <2>2. InOrder(c)
      BY <1>2, <2>1 DEF Start, Inv, OwnInv
    <2>3. CASE LoopEnds(k)
      <3>1. UNCHANGED <<wire, hand, handled, breaks, ack, sentOn, at, up>> /\ readers' \subseteq readers
        BY <2>3 DEF LoopEnds, clientVars, linkVars, history
      <3> QED
        BY <2>2, <3>1, InOrderSame
    <2> QED
      BY <1>6, <2>2, <2>3, InOrderRead, InOrderHandled
  <1>7. CASE Break
    BY <1>0, <1>7 DEF Break, clientVars
  <1>8. CASE Restore
    <2>1. /\ ~up /\ readers' = readers \union {breaks} /\ pc' = pc
          /\ UNCHANGED <<ack, wire, hand, handled, at, sentOn, breaks>>
      BY <1>8 DEF Restore, clientVars, history
    <2>2. InOrder(c)
      BY <1>2, <2>1 DEF Start, Inv, OwnInv
    <2>3. Flying' = Flying /\ InHand' = InHand
      BY <2>1 DEF Flying, OnWire, InHand
    <2> QED
      BY <2>1, <2>2, <2>3 DEF InOrder, IsReply, Answer
  <1>9. CASE UNCHANGED vars
    <2>1. UNCHANGED <<pc, wire, hand, handled, breaks, ack, sentOn, at, up, readers>>
      BY <1>9 DEF vars, clientVars, linkVars, loopVars, history
    <2>2. InOrder(c)
      BY <1>0, <2>1 DEF Inv, OwnInv
    <2> QED
      BY <2>1, <2>2, InOrderSame
  <1> QED
    BY <1>1, <1>3, <1>4, <1>5, <1>6, <1>7, <1>8, <1>9 DEF Next

-----------------------------------------------------------------------------
(* Theorems.                                                               *)

LEMMA InitInv ==
    ASSUME Init
    PROVE  Inv
  <1>1. TypeOK
    BY CallsAssumption DEF Init, TypeOK, Loops
  <1>2. Known = {} /\ wire = <<>> /\ \A f : Once(wire, f)
    BY DEF Init, Known, Flying, OnWire, InHand, Once
  <1>3. FrameInv
    BY <1>2, CallsAssumption DEF Init, FrameInv, OnePlace, Known, Flying
  <1>4. MessageInv /\ AckInv /\ ResponseInv
    BY CallsAssumption DEF Init, MessageInv, AckInv, ResponseInv
  <1>5. OwnInv
    BY CallsAssumption DEF Init, OwnInv, OwnOk, AskOk, Own
  <1> QED
    BY <1>1, <1>3, <1>4, <1>5 DEF Inv

LEMMA InvStep ==
    ASSUME Inv, [Next]_vars
    PROVE  Inv'
  <1>1. OwnInv'
    BY AsksAreOwn, OwnOkStep, OrderStep DEF OwnInv
  <1> QED
    BY <1>1, TypeStep, MessageStep, FrameStep, AckStep, ResponseStep DEF Inv

LEMMA Invariance == Spec => []Inv
  <1>1. Init => Inv
    BY InitInv
  <1>2. Inv /\ [Next]_vars => Inv'
    BY InvStep
  <1> QED
    BY <1>1, <1>2, PTL DEF Spec

\* Type correctness: in particular no error ever completes the response of an ask
\* (HubNetworkClient.cs:64), for any calls, ids and lost connections and however many
\* receive loops of earlier connections hand out frames beside the last.
THEOREM TypeCorrect == Spec => []TypeOK
  <1>1. Inv => TypeOK
    BY DEF Inv
  <1> QED
    BY <1>1, Invariance, PTL

\* A call that returns was accepted by the router, whatever was sent again under
\* its id, timed out or lost.
THEOREM ReturnedWasAccepted == Spec => []OkMeansAccepted
  <1>1. ASSUME Inv PROVE OkMeansAccepted
    <2> SUFFICES ASSUME NEW c \in Calls \ NoAcks, pc[c] = "ok"
                 PROVE  \E f \in Frames : /\ ack[c] = f /\ f.kind # "error"
                                          /\ f.call \in accepted /\ IdOf[f.call] = IdOf[c]
      BY DEF OkMeansAccepted
    <2>1. ack[c] # None /\ ack[c].kind # "error"
      BY <1>1 DEF Inv, AckInv
    <2>2. ack[c] \in Frames
      BY <1>1, <2>1 DEF Inv, TypeOK
    <2>3. ack[c].kind \in {"ack", "response"}
      BY <2>1, <2>2 DEF Frames, Kinds
    <2>4. IdOf[ack[c].call] = IdOf[c] /\ ack[c] \in handled
      BY <1>1, <2>1 DEF Inv, AckInv
    <2>5. Sound(ack[c])
      BY <1>1, <2>4 DEF Inv, FrameInv, Known
    <2>6. ack[c].call \in accepted
      BY <1>1, <2>3, <2>5 DEF Sound, SaysOnly, Inv, MessageInv
    <2> QED
      BY <2>1, <2>2, <2>4, <2>6
  <1> QED
    BY <1>1, Invariance, PTL

\* A frame that was handled is of a call that has begun.
LEMMA HandledFrame ==
    ASSUME Inv, NEW f \in handled
    PROVE  f \in Frames /\ f.call \in Calls /\ f.kind \in Kinds /\ f \in Known /\ pc[f.call] # "idle"
  <1>1. f \in Frames /\ f.call \in Calls /\ f.kind \in Kinds /\ f \in Known
    BY DEF Inv, TypeOK, Frames, Known
  <1>2. at[f.call] # "client"
    BY <1>1 DEF Inv, FrameInv, IsDealtWith
  <1> QED
    BY <1>1, <1>2 DEF Inv, MessageInv

LEMMA Complete ==
    ASSUME Inv
    PROVE  AnswersComplete
  <1> SUFFICES ASSUME NEW f \in handled, ~Reused(f.call)
               PROVE  /\ f.call \in Asks => f \in {ack[f.call], response[f.call]}
                      /\ f.call \notin disturbed =>
                            /\ f.kind \in {"ack", "error"} /\ f.call \notin NoAcks => ack[f.call] = f
                            /\ f.kind = "response" /\ f.call \in Asks => response[f.call] = f
    BY DEF AnswersComplete
  <1> DEFINE c == f.call
  <1>1. f \in Frames /\ c \in Calls /\ pc[c] # "idle"
    BY HandledFrame
  <1>2. c \in Asks => f \in {ack[c], response[c]}
    BY DEF Inv, OwnInv, AskOk
  <1>3. ASSUME c \notin disturbed, c \notin NoAcks
        PROVE  /\ ack[c] # None => ack[c].kind # "response"
               /\ f.kind # "response" => ack[c] = f
    <2>1. c \in Own
      BY <1>1, <1>3 DEF Own
    <2>2. InOrder(c)
      BY <1>1, <1>3, <2>1 DEF Inv, OwnInv
    <2> QED
      BY <2>2 DEF InOrder, IsReply
  <1>4. f # None
    BY <1>1, CallsAssumption
  <1>5. c \in Asks => c \notin NoAcks
    BY CallsAssumption
  <1> QED
    BY <1>2, <1>3, <1>4, <1>5

\* No frame is wasted (HubNetworkClient.cs:55-70): an ack, an error or an answer that
\* is handled completes its call, for any calls and lost connections, although calls
\* time out, their entries stay, the answer is looked up behind the acks, and a receive
\* loop of an earlier connection may hand out what it read before the loss.
THEOREM FramesComplete == Spec => []AnswersComplete
  <1>1. Inv => AnswersComplete
    BY Complete
  <1> QED
    BY <1>1, Invariance, PTL

\* An ask that returns has had the ack and the answer of its own message, and returns
\* the answer unless it was disturbed.
THEOREM ReturnedAskWasAnswered == Spec => []OkAskWasAnswered
  <1>1. ASSUME Inv PROVE OkAskWasAnswered
    <2> SUFFICES ASSUME NEW c \in Asks, pc[c] = "ok"
                 PROVE  /\ {ack[c], response[c]} = [kind : {"ack", "response"}, call : {c}]
                        /\ c \in answered
                        /\ c \notin disturbed => response[c].kind = "response"
      BY DEF OkAskWasAnswered
    <2> DEFINE a == ack[c]
               r == response[c]
    <2>1. c \in Own /\ c \notin NoAcks
      BY AsksAreOwn, CallsAssumption
    <2>2. r # None
      BY <1>1 DEF Inv, ResponseInv
    <2>3. a # None /\ a # r
      BY <1>1, <2>2 DEF Inv, OwnInv, AskOk
    <2>4. a \in handled /\ a.call = c /\ r \in handled /\ r.call = c
      BY <1>1, <2>1, <2>2, <2>3, OwnEntry
    <2>5. {a, r} \subseteq Known /\ {a, r} \subseteq Frames
      BY <1>1, <2>4, HandledFrame
    <2>6. a.kind # "error" /\ r.kind # "error"
      BY <1>1, <2>3, <2>4, <2>5 DEF Inv, FrameInv
    <2>7. a.kind # r.kind
      BY <2>3, <2>4, <2>5 DEF Frames
    <2>8. {a, r} = [kind : {"ack", "response"}, call : {c}]
      <3>1. a \in [kind : {"ack", "response"}, call : {c}] /\ r \in [kind : {"ack", "response"}, call : {c}]
        BY <2>4, <2>5, <2>6 DEF Frames, Kinds
      <3>2. ASSUME NEW g \in [kind : {"ack", "response"}, call : {c}] PROVE g \in {a, r}
        <4>1. g.kind = a.kind \/ g.kind = r.kind
          BY <2>7, <3>1
        <4> QED
          BY <3>1, <4>1
      <3> QED
        BY <3>1, <3>2
    <2>9. c \in answered
      <3>1. Sound(a) /\ Sound(r)
        BY <1>1, <2>5 DEF Inv, FrameInv
      <3>2. a.kind = "response" \/ r.kind = "response"
        BY <2>5, <2>6, <2>7 DEF Frames, Kinds
      <3> QED
        BY <2>4, <3>1, <3>2 DEF Sound, SaysOnly
    <2>10. ASSUME c \notin disturbed PROVE r.kind = "response"
      <3>1. c \in Calls /\ pc[c] # "idle"
        BY <2>1 DEF Own
      <3>2. InOrder(c)
        BY <1>1, <2>1, <2>10, <3>1 DEF Inv, OwnInv
      <3>3. a.kind # "response"
        BY <2>3, <3>2 DEF InOrder
      <3> QED
        BY <2>5, <2>6, <2>7, <3>3 DEF Frames, Kinds
    <2> QED
      BY <2>8, <2>9, <2>10
  <1> QED
    BY <1>1, Invariance, PTL

LEMMA RaisedStep ==
    ASSUME Inv, OnMessageForMessages, [Next]_vars
    PROVE  OnMessageForMessages'
  <1>1. CASE raised' = raised
    BY <1>1, HistoryGrows DEF OnMessageForMessages
  <1>2. ASSUME NEW k \in Loops, OnInternalMessage(k), Raise(hand[k]),
               ~CompletesAck(hand[k]), ~CompletesResponse(hand[k])
        PROVE  OnMessageForMessages'
    <2>0. PICK f \in Frames : f = hand[k]
      BY <1>2, HandFrame DEF OnInternalMessage
    <2> DEFINE c == f.call
    <2>1. /\ f.kind \in Kinds /\ c \in Calls /\ f \in Known /\ f \notin handled
          /\ pc[c] # "idle" /\ f # None
      BY <1>2, <2>0, HandFrame DEF OnInternalMessage
    <2>2. disturbed' = disturbed /\ raised' = raised \union {f} /\ pc' = pc /\ ack' = ack
          /\ handled' = handled \union {f}
      BY <1>2, <2>0 DEF OnInternalMessage, Raise
    <2>3. ackTasks[IdOf[c]] = None /\ directResponses[IdOf[c]] = None
      BY <1>2, <2>0 DEF CompletesAck, CompletesResponse
    <2>4. c \notin Asks
      BY <2>1, <2>3, AskEntry, NoThird DEF Inv
    <2>5. ASSUME ~Reused(c), f.kind # "response", c \notin disturbed
          PROVE  f.kind = "error" /\ c \in NoAcks
      <3>1. f.kind = "ack" => c \notin NoAcks
        BY <2>1 DEF Inv, FrameInv, Sound
      <3>2. c \in NoAcks
        <4> SUFFICES ASSUME c \notin NoAcks PROVE FALSE
          OBVIOUS
        <4>1. c \in Own /\ c # None
          BY <2>1, <2>5, CallsAssumption DEF Own
        <4>2. ack[c] # None
          <5>1. OwnOk(c)
            BY <4>1 DEF Inv, OwnInv
          <5> QED
            BY <2>1, <2>3, <4>1, <5>1 DEF OwnOk
        <4>3. InOrder(c)'
          BY <2>1, <2>2, <2>5, <4>1, OrderStep
        <4>4. ack'[c] = f
          BY <2>2, <2>5, <4>3 DEF InOrder, IsReply
        <4>5. ack'[c] = ack[c] /\ ack[c] \in handled
          BY <2>2, <4>1, <4>2, OwnEntry
        <4> QED
          BY <2>1, <4>4, <4>5
      <3> QED
        BY <2>1, <2>5, <3>1, <3>2 DEF Kinds
    <2> QED
      BY <2>2, <2>4, <2>5 DEF OnMessageForMessages
  <1>3. ASSUME NEW k \in Loops, OnInternalMessage(k)
        PROVE  \/ raised' = raised
               \/ Raise(hand[k]) /\ ~CompletesAck(hand[k]) /\ ~CompletesResponse(hand[k])
    BY <1>3 DEF OnInternalMessage, Dispatch, TakeAck, TakeResponse
  <1>4. CASE \A k \in Loops : ~OnInternalMessage(k)
    <2>1. raised' = raised
      BY <1>4 DEF Next, Call, Outside, Start, Write, Resume, Expire, Accept, Refuse,
                  AnswerCall, ForwardAnswer, Read, LoopEnds, Break, Restore, vars, history
    <2> QED
      BY <1>1, <2>1
  <1> QED
    BY <1>1, <1>2, <1>3, <1>4

\* OnMessage (HubNetworkClient.cs:69) is raised only for messages, however late and in
\* whatever order the ack, error or answer of a call comes.
THEOREM OnlyMessagesRaised == Spec => []OnMessageForMessages
  <1>1. Init => OnMessageForMessages
    BY DEF Init, OnMessageForMessages
  <1>2. Inv /\ OnMessageForMessages /\ [Next]_vars => OnMessageForMessages'
    BY RaisedStep
  <1> QED
    BY <1>1, <1>2, Invariance, PTL DEF Spec

=============================================================================
