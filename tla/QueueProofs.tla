---------------------------- MODULE QueueProofs ----------------------------
(***************************************************************************)
(* Theorems about module QueueClient, for every set of messages, every     *)
(* queue size and every strategy.                                          *)
(***************************************************************************)
EXTENDS QueueClient, SequenceTheorems, TLAPS

-----------------------------------------------------------------------------
(* Sequences.                                                              *)

\* Nothing in q was ahead, by a, of what stands before it.
Ordered(q, a) == \A i, j \in 1..Len(q) : i < j => q[j] \notin a[q[i]]

\* No member of T was ahead, by a, of one of S.
NoneAhead(S, T, a) == \A x \in S, y \in T : y \notin a[x]

\* Append adds one element.
LEMMA ElementsOfAppend ==
    ASSUME NEW q \in Seq(Messages), NEW m \in Messages
    PROVE  Elements(Append(q, m)) = Elements(q) \union {m}
<1>1. Len(Append(q, m)) = Len(q) + 1 /\ Len(q) \in Nat
  OBVIOUS
<1>2. /\ \A i \in 1..Len(q) : Append(q, m)[i] = q[i]
      /\ Append(q, m)[Len(q) + 1] = m
  OBVIOUS
<1> QED
  BY <1>1, <1>2 DEF Elements

\* Tail takes the first element away.
LEMMA ElementsOfTail ==
    ASSUME NEW q \in Seq(Messages), q # <<>>
    PROVE  /\ Head(q) \in Messages /\ Tail(q) \in Seq(Messages)
           /\ Len(q) \in Nat \ {0} /\ Len(Tail(q)) = Len(q) - 1
           /\ Elements(q) = {Head(q)} \union Elements(Tail(q))
<1>1. /\ Head(q) = q[1] /\ Head(q) \in Messages /\ Tail(q) \in Seq(Messages)
      /\ Len(q) \in Nat \ {0} /\ Len(Tail(q)) = Len(q) - 1
  OBVIOUS
<1>2. \A i \in 1..(Len(q) - 1) : Tail(q)[i] = q[i + 1]
  OBVIOUS
<1>3. ASSUME NEW i \in 1..Len(q), i # 1 PROVE i - 1 \in 1..Len(Tail(q)) /\ q[i] = Tail(q)[i - 1]
  BY <1>1, <1>2, <1>3
<1>4. Elements(q) \subseteq {Head(q)} \union Elements(Tail(q))
  BY <1>1, <1>3 DEF Elements
<1>5. {Head(q)} \union Elements(Tail(q)) \subseteq Elements(q)
  BY <1>1, <1>2 DEF Elements
<1> QED
  BY <1>1, <1>4, <1>5

\* What is in one of two sequences is in the two together.
LEMMA ElementsOfConcat ==
    ASSUME NEW p \in Seq(Messages), NEW q \in Seq(Messages)
    PROVE  Elements(p) \union Elements(q) \subseteq Elements(p \o q)
<1>1. Len(p \o q) = Len(p) + Len(q) /\ Len(p) \in Nat /\ Len(q) \in Nat
  OBVIOUS
<1>2. \A i \in 1..Len(p) : i \in 1..Len(p \o q) /\ (p \o q)[i] = p[i]
  BY <1>1
<1>3. \A i \in 1..Len(q) : Len(p) + i \in 1..Len(p \o q) /\ (p \o q)[Len(p) + i] = q[i]
  BY <1>1
<1> QED
  BY <1>2, <1>3 DEF Elements

\* A sequence stays ordered when it gets one element more that was ahead of none.
LEMMA OrderedAppend ==
    ASSUME NEW q \in Seq(Messages), NEW a, NEW m \in Messages,
           Ordered(q, a), NoneAhead(Elements(q), {m}, a)
    PROVE  Ordered(Append(q, m), a)
<1>1. Len(Append(q, m)) = Len(q) + 1 /\ Len(q) \in Nat
  OBVIOUS
<1>2. /\ \A i \in 1..Len(q) : Append(q, m)[i] = q[i]
      /\ Append(q, m)[Len(q) + 1] = m
  OBVIOUS
<1>3. \A i \in 1..Len(q) : m \notin a[q[i]]
  BY DEF NoneAhead, Elements
<1> QED
  BY <1>1, <1>2, <1>3 DEF Ordered

\* So does its tail, of which nothing was ahead of the head.
LEMMA OrderedTail ==
    ASSUME NEW q \in Seq(Messages), q # <<>>, NEW a, Ordered(q, a)
    PROVE  Ordered(Tail(q), a) /\ NoneAhead({Head(q)}, Elements(Tail(q)), a)
<1>1. Head(q) = q[1] /\ Len(q) \in Nat \ {0} /\ Len(Tail(q)) = Len(q) - 1
  OBVIOUS
<1>2. \A i \in 1..(Len(q) - 1) : Tail(q)[i] = q[i + 1]
  OBVIOUS
<1> QED
  BY <1>1, <1>2 DEF Ordered, NoneAhead, Elements

-----------------------------------------------------------------------------
(* Types.                                                                  *)

\* What Begin decides, in the cases of the handler.
LEMMA BeginDecides ==
    ASSUME TypeOK, NEW m \in Messages, Begin(m)
    PROVE  /\ pc \in [Messages -> {"new", "room", "offer", "done", "thrown"}]
           /\ \E l \in {"done", "room", "offer"} :
                /\ pc' = [pc EXCEPT ![m] = l]
                /\ l = "done" => strategy = "Discard"
                /\ l = "room" => Full /\ strategy = "RemoveOld"
                /\ l = "offer" => strategy = "Wait" \/ ~Full
<1>1. CASE Full /\ strategy = "Discard"
  BY <1>1 DEF Begin, TypeOK
<1>2. CASE Full /\ strategy = "RemoveOld"
  BY <1>2 DEF Begin, TypeOK
<1>3. CASE ~(Full /\ strategy = "Discard") /\ ~(Full /\ strategy = "RemoveOld")
  BY <1>3 DEF Begin, TypeOK, Strategies
<1> QED
  BY <1>1, <1>2, <1>3

\* ProcessOut runs for the send queue only; when it sends, it has taken one message
\* more than it has sent.
Sending ==
    /\ out = "off" <=> side = "receive"
    /\ out = "receive" => Len(taken) = Len(sent)
    /\ out = "send" => Len(taken) = Len(sent) + 1
    /\ side = "send" =>
          /\ Len(taken) \in {Len(sent), Len(sent) + 1}
          /\ \A i \in 1..Len(sent) : sent[i] = taken[i]

SendInv == TypeOK /\ Sending

\* SendInv holds initially.
LEMMA SendInit == Init => SendInv
<1> SUFFICES ASSUME Init PROVE SendInv
  OBVIOUS
<1>1. \A n \in Sizes : n # -1 => 0 <= n
  BY SizesAssumption
<1>2. Len(buffer) = 0 /\ max # -1 => Len(buffer) <= max
  BY <1>1 DEF Init
<1>3. /\ buffer \in Seq(Messages) /\ postponed \in Seq(Messages)
      /\ taken \in Seq(Messages) /\ sent \in Seq(Messages)
  BY DEF Init
<1>4. out \in {"off", "receive", "send", "dead"}
  BY DEF Init
<1>5. pc \in [Messages -> {"new", "room", "offer", "done", "thrown"}]
  BY DEF Init
<1>6. TypeOK
  BY <1>2, <1>3, <1>4, <1>5 DEF Init, TypeOK
<1> QED
  BY <1>6 DEF Init, SendInv, Sending, Sides

\* Taking the first message of the queue keeps the types.
LEMMA TakeFirstKeepsTypes ==
    ASSUME TypeOK, TakeFirst
    PROVE  /\ taken' \in Seq(Messages) /\ buffer' \in Seq(Messages)
           /\ max # -1 => Len(buffer') <= max
           /\ Len(taken') = Len(taken) + 1
           /\ \A i \in 1..Len(taken) : taken'[i] = taken[i]
<1>1. buffer \in Seq(Messages) /\ buffer # <<>> /\ taken \in Seq(Messages)
  BY DEF TypeOK, TakeFirst
<1>2. /\ buffer' \in Seq(Messages) /\ Len(buffer) \in Nat /\ Head(buffer) \in Messages
      /\ Len(buffer') = Len(buffer) - 1
  BY <1>1, ElementsOfTail DEF TakeFirst
<1>3. max # -1 => max \in Nat
  BY SizesAssumption DEF TypeOK
<1>4. max # -1 => Len(buffer') <= max
  BY <1>2, <1>3 DEF TypeOK
<1> QED
  BY <1>1, <1>2, <1>4 DEF TakeFirst

\* Every step keeps SendInv: the queue never holds more than its size, and ProcessOut
\* sends one message after the other.
LEMMA SendStep == SendInv /\ [Next]_vars => SendInv'
<1> SUFFICES ASSUME SendInv, [Next]_vars PROVE SendInv'
  OBVIOUS
<1> USE DEF SendInv, options, queue, history
<1>1. /\ max # -1 => max \in Nat
      /\ buffer \in Seq(Messages) /\ postponed \in Seq(Messages) /\ Len(buffer) \in Nat
  BY SizesAssumption DEF TypeOK
<1>2. ASSUME NEW m \in Messages, Begin(m) PROVE SendInv'
  <2>1. ahead' \in [Messages -> SUBSET Messages]
    BY <1>2 DEF Begin, TypeOK
  <2>2. pc' \in [Messages -> {"new", "room", "offer", "done", "thrown"}]
    BY <1>2, BeginDecides
  <2> QED
    BY <1>2, <2>1, <2>2 DEF Begin, TypeOK, Sending
<1>3. ASSUME NEW m \in Messages, RemoveOld(m) \/ RemoveOldThrows(m) PROVE SendInv'
  <2>1. CASE RemoveOld(m)
    <3>1. /\ Head(buffer) \in Messages /\ buffer' \in Seq(Messages)
          /\ Len(buffer') = Len(buffer) - 1
      BY <1>1, <2>1, ElementsOfTail DEF RemoveOld
    <3>2. max # -1 => Len(buffer') <= max
      BY <1>1, <2>1, <3>1 DEF RemoveOld, TypeOK
    <3> QED
      BY <2>1, <3>1, <3>2 DEF RemoveOld, AfterReceive, TypeOK, Sending
  <2>2. CASE RemoveOldThrows(m)
    BY <2>2 DEF RemoveOldThrows, TypeOK, Sending
  <2> QED
    BY <1>3, <2>1, <2>2
<1>4. ASSUME NEW m \in Messages, Offer(m) PROVE SendInv'
  <2>1. buffer' \in Seq(Messages) /\ postponed' \in Seq(Messages)
    <3>1. Append(buffer, m) \in Seq(Messages) /\ Append(postponed, m) \in Seq(Messages)
      BY <1>1
    <3> QED
      BY <1>1, <1>4, <3>1 DEF Offer
  <2>2. max # -1 => Len(buffer') <= max
    BY <1>1, <1>4 DEF Offer, HasRoom, TypeOK
  <2> QED
    BY <1>4, <2>1, <2>2 DEF Offer, TypeOK, Sending
<1>5. ASSUME ConsumePostponed PROVE SendInv'
  <2>1. Head(postponed) \in Messages /\ postponed' \in Seq(Messages)
    BY <1>1, <1>5, ElementsOfTail DEF ConsumePostponed
  <2>2. buffer' \in Seq(Messages) /\ (max # -1 => Len(buffer') <= max)
    BY <1>1, <1>5, <2>1 DEF ConsumePostponed, HasRoom
  <2> QED
    BY <1>5, <2>1, <2>2 DEF ConsumePostponed, TypeOK, Sending
<1>6. ASSUME Consume PROVE SendInv'
  <2>1. TypeOK'
    BY <1>6, TakeFirstKeepsTypes DEF Consume, TypeOK
  <2> QED
    BY <1>6, <2>1 DEF Consume, Sending, Sides
<1>7. ASSUME ReceiveNext PROVE SendInv'
  <2>1. TypeOK'
    BY <1>7, TakeFirstKeepsTypes DEF ReceiveNext, TypeOK
  <2>2. /\ Len(taken') = Len(taken) + 1 /\ Len(taken) = Len(sent)
        /\ \A i \in 1..Len(taken) : taken'[i] = taken[i]
    BY <1>7, TakeFirstKeepsTypes DEF ReceiveNext, Sending
  <2> QED
    BY <1>7, <2>1, <2>2 DEF ReceiveNext, Sending
<1>8. ASSUME ReceiveThrows \/ SendFails PROVE SendInv'
  BY <1>8 DEF ReceiveThrows, SendFails, AfterFailure, TypeOK, Sending
<1>9. ASSUME Send PROVE SendInv'
  <2>1. /\ taken \in Seq(Messages) /\ sent \in Seq(Messages) /\ side = "send"
        /\ Len(taken) = Len(sent) + 1 /\ Len(sent) \in Nat
        /\ \A i \in 1..Len(sent) : sent[i] = taken[i]
    <3>1. taken \in Seq(Messages) /\ sent \in Seq(Messages) /\ side = "send"
      BY <1>9 DEF Send, TypeOK, Sending, Sides
    <3>2. Len(sent) \in Nat /\ Len(taken) = Len(sent) + 1
      BY <1>9, <3>1 DEF Send, Sending
    <3> QED
      BY <3>1, <3>2 DEF Sending
  <2>2. taken[Len(taken)] \in Messages
    BY <2>1
  <2>3. /\ sent' \in Seq(Messages) /\ Len(sent') = Len(taken)
        /\ \A i \in 1..Len(sent') : sent'[i] = taken[i]
    BY <1>9, <2>1, <2>2 DEF Send
  <2> QED
    BY <1>9, <2>1, <2>3 DEF Send, AfterSend, TypeOK, Sending
<1>10. ASSUME Complete \/ CompleteBuffers \/ Fault PROVE SendInv'
  <2>1. CASE Complete \/ Fault
    BY <2>1 DEF Complete, Fault, TypeOK, Sending
  <2>2. CASE CompleteBuffers
    <3>1. postponed' \in Seq(Messages)
      BY <2>2 DEF CompleteBuffers
    <3> QED
      BY <2>2, <3>1 DEF CompleteBuffers, TypeOK, Sending
  <2> QED
    BY <1>10, <2>1, <2>2
<1>11. CASE UNCHANGED vars
  BY <1>11 DEF vars, TypeOK, Sending
<1> QED
  BY <1>2, <1>3, <1>4, <1>5, <1>6, <1>7, <1>8, <1>9, <1>10, <1>11 DEF Next, ProcessOut

\* SendInv holds in every behaviour.
LEMMA SendHolds == Spec => []SendInv
BY SendInit, SendStep, PTL DEF Spec

\* Type correctness: neither queue ever holds more messages than its size.
THEOREM TypeCorrect == Spec => []TypeOK
<1>1. SendInv => TypeOK
  BY DEF SendInv
<1> QED
  BY <1>1, SendHolds, PTL

\* ProcessOut sends what it takes, in that order, and loses one message at most: the
\* one whose failure ends it.
THEOREM SentInOrder == Spec => []AtMostOneUnsent
<1>1. SendInv => AtMostOneUnsent
  BY DEF SendInv, Sending, AtMostOneUnsent
<1> QED
  BY <1>1, SendHolds, PTL

-----------------------------------------------------------------------------
(* Arrival.                                                                *)

\* What was ahead of a message has ended.
AheadEnded == \A m \in Messages : \A k \in ahead[m] : Ended(k) /\ k # m

\* A message is in a queue, or was, when its call has ended.
Handled == \A m \in Elements(buffer) \union Elements(postponed) \union Elements(taken) : pc[m] = "done"

CameInv == SendInv /\ AheadEnded /\ Handled

\* CameInv holds initially.
LEMMA CameInit == Init => CameInv
BY SendInit DEF Init, CameInv, AheadEnded, Handled, Elements

\* A step that begins no call keeps arrival in order, if it puts nothing into a queue
\* whose call goes on.
LEMMA CameFrame ==
    ASSUME CameInv, UNCHANGED ahead,
           \A k \in Messages : pc'[k] = pc[k] \/ (InProgress(k) /\ pc'[k] # "new"),
           \A k \in Elements(buffer') \union Elements(postponed') \union Elements(taken') :
                 pc'[k] = "done"
    PROVE  AheadEnded' /\ Handled'
<1>1. AheadEnded'
  <2>1. \A m \in Messages : ahead[m] \subseteq Messages
    BY DEF CameInv, SendInv, TypeOK
  <2> QED
    BY <2>1 DEF CameInv, AheadEnded, Ended, InProgress
<1>2. Handled'
  BY DEF Handled
<1> QED
  BY <1>1, <1>2

\* Every step keeps CameInv.
LEMMA CameStep == CameInv /\ [Next]_vars => CameInv'
<1> SUFFICES ASSUME CameInv, [Next]_vars PROVE AheadEnded' /\ Handled'
  BY SendStep DEF CameInv
<1> USE DEF options, queue, history
<1>1. /\ TypeOK /\ Handled /\ AheadEnded
      /\ buffer \in Seq(Messages) /\ postponed \in Seq(Messages)
      /\ taken \in Seq(Messages) /\ ahead \in [Messages -> SUBSET Messages]
      /\ pc \in [Messages -> {"new", "room", "offer", "done", "thrown"}]
  BY DEF CameInv, SendInv, TypeOK
<1>2. ASSUME NEW m \in Messages, Begin(m) PROVE AheadEnded' /\ Handled'
  <2>1. PICK l \in {"done", "room", "offer"} : pc' = [pc EXCEPT ![m] = l]
    BY <1>1, <1>2, BeginDecides
  <2>2. pc[m] = "new" /\ ahead' = [ahead EXCEPT ![m] = {k \in Messages : Ended(k)}]
    BY <1>2 DEF Begin
  <2>3. /\ ahead'[m] = {k \in Messages : Ended(k)}
        /\ \A k \in Messages \ {m} : ahead'[k] = ahead[k] /\ pc'[k] = pc[k]
    BY <1>1, <2>1, <2>2
  <2>4. \A k \in Messages : Ended(k) => Ended(k)' /\ k # m
    BY <2>2, <2>3 DEF Ended, InProgress
  <2>5. AheadEnded'
    BY <1>1, <2>3, <2>4 DEF AheadEnded
  <2>6. Handled'
    <3>1. UNCHANGED <<buffer, postponed, taken>>
      BY <1>2 DEF Begin
    <3>2. Elements(buffer) \union Elements(postponed) \union Elements(taken) \subseteq Messages
      BY <1>1 DEF Elements
    <3> QED
      BY <1>1, <2>1, <2>2, <3>1, <3>2 DEF Handled
  <2> QED
    BY <2>5, <2>6
<1>3. ASSUME NEW m \in Messages, RemoveOld(m) PROVE AheadEnded' /\ Handled'
  <2>1. buffer # <<>> /\ UNCHANGED <<ahead, postponed, taken>> /\ buffer' = Tail(buffer)
    BY <1>3 DEF RemoveOld
  <2>2. pc[m] = "room" /\ pc' = [pc EXCEPT ![m] = "offer"]
    BY <1>3 DEF RemoveOld, AfterReceive
  <2>3. Elements(buffer') \subseteq Elements(buffer)
    BY <1>1, <2>1, ElementsOfTail
  <2>4. \A k \in Elements(buffer') \union Elements(postponed') \union Elements(taken') :
            pc'[k] = "done"
    <3>1. Elements(buffer) \union Elements(postponed) \union Elements(taken) \subseteq Messages
      BY <1>1 DEF Elements
    <3> QED
      BY <1>1, <2>1, <2>2, <2>3, <3>1 DEF Handled
  <2>5. \A k \in Messages : pc'[k] = pc[k] \/ (InProgress(k) /\ pc'[k] # "new")
    BY <1>1, <2>2 DEF InProgress
  <2> QED
    BY <2>1, <2>4, <2>5, CameFrame
<1>4. ASSUME NEW m \in Messages, RemoveOldThrows(m) \/ Offer(m)
      PROVE AheadEnded' /\ Handled'
  <2>1. UNCHANGED <<ahead, taken>>
    BY <1>4 DEF RemoveOldThrows, Offer
  <2>2. PICK l \in {"done", "thrown"} :
             /\ pc' = [pc EXCEPT ![m] = l] /\ InProgress(m)
             /\ l = "thrown" => UNCHANGED <<buffer, postponed>>
    BY <1>4 DEF RemoveOldThrows, Offer, InProgress
  <2>3. /\ buffer' = buffer \/ (l = "done" /\ buffer' = Append(buffer, m))
        /\ postponed' = postponed \/ (l = "done" /\ postponed' = Append(postponed, m))
    <3>1. CASE Offer(m)
      <4>1. l = "done"
        BY <1>1, <2>2, <3>1 DEF Offer
      <4> QED
        BY <3>1, <4>1 DEF Offer
    <3>2. CASE RemoveOldThrows(m)
      BY <3>2 DEF RemoveOldThrows
    <3> QED
      BY <1>4, <3>1, <3>2
  <2>4. \A k \in Elements(buffer') \union Elements(postponed') \union Elements(taken') :
            k \in Elements(buffer) \union Elements(postponed) \union Elements(taken)
            \/ (k = m /\ l = "done")
    <3>1. /\ Elements(Append(buffer, m)) = Elements(buffer) \union {m}
          /\ Elements(Append(postponed, m)) = Elements(postponed) \union {m}
      BY <1>1, ElementsOfAppend
    <3>2. taken' = taken
      BY <2>1
    <3> QED
      BY <2>3, <3>1, <3>2
  <2>5. \A k \in Elements(buffer') \union Elements(postponed') \union Elements(taken') :
            pc'[k] = "done"
    <3>1. Elements(buffer) \union Elements(postponed) \union Elements(taken) \subseteq Messages
      BY <1>1 DEF Elements
    <3>2. pc'[m] = l /\ \A k \in Messages \ {m} : pc'[k] = pc[k]
      BY <1>1, <2>2
    <3>3. pc[m] # "done"
      BY <2>2 DEF InProgress
    <3> QED
      BY <1>1, <2>4, <3>1, <3>2, <3>3 DEF Handled
  <2>6. \A k \in Messages : pc'[k] = pc[k] \/ (InProgress(k) /\ pc'[k] # "new")
    BY <1>1, <2>2
  <2> QED
    BY <2>1, <2>5, <2>6, CameFrame
<1>5. ASSUME UNCHANGED <<ahead, pc>>,
             Elements(buffer') \union Elements(postponed') \union Elements(taken')
               \subseteq Elements(buffer) \union Elements(postponed) \union Elements(taken)
      PROVE  AheadEnded' /\ Handled'
  BY <1>1, <1>5, CameFrame DEF Handled
<1>6. ASSUME ConsumePostponed PROVE AheadEnded' /\ Handled'
  BY <1>1, <1>5, <1>6, ElementsOfTail, ElementsOfAppend DEF ConsumePostponed
<1>7. ASSUME Consume \/ ReceiveNext PROVE AheadEnded' /\ Handled'
  <2>1. buffer # <<>> /\ taken' = Append(taken, Head(buffer)) /\ buffer' = Tail(buffer)
    BY <1>7 DEF Consume, ReceiveNext, TakeFirst
  <2>2. /\ Elements(buffer) = {Head(buffer)} \union Elements(buffer')
        /\ Elements(taken') = Elements(taken) \union {Head(buffer)}
    BY <1>1, <2>1, ElementsOfTail, ElementsOfAppend
  <2> QED
    BY <1>5, <1>7, <2>2 DEF Consume, ReceiveNext
<1>8. ASSUME ReceiveThrows \/ Send \/ SendFails \/ Complete \/ Fault
      PROVE  AheadEnded' /\ Handled'
  BY <1>5, <1>8 DEF ReceiveThrows, Send, SendFails, Complete, Fault
<1>9. ASSUME CompleteBuffers PROVE AheadEnded' /\ Handled'
  <2>1. Elements(postponed') = {}
    BY <1>9 DEF CompleteBuffers, Elements
  <2> QED
    BY <1>5, <1>9, <2>1 DEF CompleteBuffers
<1>10. CASE UNCHANGED vars
  BY <1>5, <1>10 DEF vars
<1> QED
  BY <1>2, <1>3, <1>4, <1>6, <1>7, <1>8, <1>9, <1>10 DEF Next, ProcessOut

-----------------------------------------------------------------------------
(* Order.                                                                  *)

\* The messages that were taken, those in the queue and those that wait for it stand
\* one behind the other, and nothing among them was ahead of what stands before it.
InLine ==
    /\ Ordered(taken, ahead) /\ Ordered(buffer, ahead) /\ Ordered(postponed, ahead)
    /\ NoneAhead(Elements(taken), Elements(buffer) \union Elements(postponed), ahead)
    /\ NoneAhead(Elements(buffer), Elements(postponed), ahead)

LineInv == CameInv /\ (side = "receive" => InLine)

\* LineInv holds initially.
LEMMA LineInit == Init => LineInv
BY CameInit DEF Init, LineInv, InLine, Ordered, NoneAhead, Elements

\* Every step keeps LineInv.
LEMMA LineStep == LineInv /\ [Next]_vars => LineInv'
<1> SUFFICES ASSUME LineInv, [Next]_vars, side' = "receive" PROVE InLine'
  BY CameStep DEF LineInv
<1> USE DEF options, queue, history
<1>1. side' = side
  BY DEF Next, vars, Begin, RemoveOld, RemoveOldThrows, Offer, ConsumePostponed, Consume,
     ProcessOut, ReceiveNext, ReceiveThrows, Send, SendFails, Complete, CompleteBuffers, Fault
<1>2. /\ CameInv /\ side = "receive" /\ InLine /\ Handled
      /\ buffer \in Seq(Messages) /\ postponed \in Seq(Messages)
      /\ taken \in Seq(Messages) /\ ahead \in [Messages -> SUBSET Messages]
  BY <1>1 DEF LineInv, CameInv, SendInv, TypeOK
<1>3. ASSUME UNCHANGED <<ahead, buffer, postponed, taken>> PROVE InLine'
  BY <1>2, <1>3 DEF InLine
<1>4. ASSUME NEW m \in Messages, Begin(m) PROVE InLine'
  <2>1. /\ UNCHANGED <<buffer, postponed, taken>> /\ pc[m] = "new"
        /\ \A k \in Messages \ {m} : ahead'[k] = ahead[k]
    BY <1>2, <1>4 DEF Begin
  <2>2. \A x \in Elements(taken) \union Elements(buffer) \union Elements(postponed) :
            ahead'[x] = ahead[x]
    <3>1. Elements(taken) \union Elements(buffer) \union Elements(postponed) \subseteq Messages
      BY <1>2 DEF Elements
    <3>2. m \notin Elements(taken) \union Elements(buffer) \union Elements(postponed)
      BY <1>2, <2>1 DEF Handled
    <3> QED
      BY <2>1, <3>1, <3>2
  <2>3. Ordered(taken, ahead)' /\ Ordered(buffer, ahead)' /\ Ordered(postponed, ahead)'
    BY <1>2, <2>1, <2>2 DEF InLine, Ordered, Elements
  <2> QED
    BY <1>2, <2>1, <2>2, <2>3 DEF InLine, NoneAhead
<1>5. ASSUME NEW m \in Messages, RemoveOld(m) PROVE InLine'
  <2>1. buffer # <<>> /\ buffer' = Tail(buffer) /\ UNCHANGED <<ahead, postponed, taken>>
    BY <1>5 DEF RemoveOld
  <2>2. Elements(buffer') \subseteq Elements(buffer) /\ Ordered(buffer', ahead)
    BY <1>2, <2>1, ElementsOfTail, OrderedTail DEF InLine
  <2> QED
    BY <1>2, <2>1, <2>2 DEF InLine, NoneAhead
<1>6. ASSUME NEW m \in Messages, Offer(m) PROVE InLine'
  <2>1. UNCHANGED <<ahead, taken>> /\ InProgress(m)
    BY <1>6 DEF Offer, InProgress
  <2>2. Elements(taken) \union Elements(buffer) \union Elements(postponed) \subseteq Messages
    BY <1>2 DEF Elements
  <2>3. NoneAhead(Elements(taken) \union Elements(buffer) \union Elements(postponed), {m}, ahead)
    BY <1>2, <2>1, <2>2 DEF CameInv, AheadEnded, Ended, NoneAhead
  <2>4. CASE postponed = <<>> /\ buffer' = Append(buffer, m) /\ UNCHANGED postponed
    <3>1. /\ Elements(buffer') = Elements(buffer) \union {m} /\ Elements(postponed') = {}
      <4>1. Elements(buffer') = Elements(buffer) \union {m}
        BY <1>2, <2>4, ElementsOfAppend
      <4>2. postponed' = <<>>
        BY <2>4
      <4>3. Elements(<<>>) = {}
        BY DEF Elements
      <4> QED
        BY <4>1, <4>2, <4>3
    <3>2. Ordered(buffer', ahead)
      BY <1>2, <2>3, <2>4, OrderedAppend DEF InLine, NoneAhead
    <3> QED
      BY <1>2, <2>1, <2>3, <2>4, <3>1, <3>2 DEF InLine, NoneAhead
  <2>5. CASE postponed' = Append(postponed, m) /\ UNCHANGED buffer
    <3>1. Elements(postponed') = Elements(postponed) \union {m}
      BY <1>2, <2>5, ElementsOfAppend
    <3>2. Ordered(postponed', ahead)
      BY <1>2, <2>3, <2>5, OrderedAppend DEF InLine, NoneAhead
    <3> QED
      BY <1>2, <2>1, <2>3, <2>5, <3>1, <3>2 DEF InLine, NoneAhead
  <2>6. CASE UNCHANGED <<buffer, postponed>>
    BY <1>3, <2>1, <2>6
  <2> QED
    BY <1>6, <2>4, <2>5, <2>6 DEF Offer
<1>7. ASSUME ConsumePostponed PROVE InLine'
  <2> DEFINE h == Head(postponed)
  <2>1. /\ postponed # <<>> /\ buffer' = Append(buffer, h)
        /\ postponed' = Tail(postponed) /\ UNCHANGED <<ahead, taken>>
    BY <1>7 DEF ConsumePostponed
  <2>2. /\ h \in Messages /\ Elements(postponed) = {h} \union Elements(postponed')
        /\ Elements(buffer') = Elements(buffer) \union {h}
    BY <1>2, <2>1, ElementsOfTail, ElementsOfAppend
  <2>3. Ordered(postponed', ahead) /\ NoneAhead({h}, Elements(postponed'), ahead)
    BY <1>2, <2>1, OrderedTail DEF InLine
  <2> HIDE DEF h
  <2>4. NoneAhead(Elements(buffer), {h}, ahead)
    BY <1>2, <2>2 DEF InLine, NoneAhead
  <2>5. Ordered(buffer', ahead)
    BY <1>2, <2>1, <2>2, <2>4, OrderedAppend DEF InLine
  <2> QED
    BY <1>2, <2>1, <2>2, <2>3, <2>5 DEF InLine, NoneAhead
<1>8. ASSUME Consume \/ ReceiveNext PROVE InLine'
  <2> DEFINE h == Head(buffer)
  <2>1. /\ buffer # <<>> /\ taken' = Append(taken, h)
        /\ buffer' = Tail(buffer) /\ UNCHANGED <<ahead, postponed>>
    BY <1>8 DEF Consume, ReceiveNext, TakeFirst
  <2>2. /\ h \in Messages /\ Elements(buffer) = {h} \union Elements(buffer')
        /\ Elements(taken') = Elements(taken) \union {h}
    BY <1>2, <2>1, ElementsOfTail, ElementsOfAppend
  <2>3. Ordered(buffer', ahead) /\ NoneAhead({h}, Elements(buffer'), ahead)
    BY <1>2, <2>1, OrderedTail DEF InLine
  <2> HIDE DEF h
  <2>4. NoneAhead(Elements(taken), {h}, ahead)
    BY <1>2, <2>2 DEF InLine, NoneAhead
  <2>5. Ordered(taken', ahead)
    BY <1>2, <2>1, <2>2, <2>4, OrderedAppend DEF InLine
  <2> QED
    BY <1>2, <2>1, <2>2, <2>3, <2>5 DEF InLine, NoneAhead
<1>9. ASSUME CompleteBuffers PROVE InLine'
  <2>1. postponed' = <<>> /\ UNCHANGED <<ahead, buffer, taken>>
    BY <1>9 DEF CompleteBuffers
  <2>2. Elements(postponed') = {} /\ Ordered(postponed', ahead)
    BY <2>1 DEF Elements, Ordered
  <2> QED
    BY <1>2, <2>1, <2>2 DEF InLine, NoneAhead
<1>10. ASSUME NEW m \in Messages, RemoveOldThrows(m) PROVE InLine'
  BY <1>3, <1>10 DEF RemoveOldThrows
<1>11. ASSUME ReceiveThrows \/ Send \/ SendFails \/ Complete \/ Fault PROVE InLine'
  BY <1>3, <1>11 DEF ReceiveThrows, Send, SendFails, Complete, Fault
<1>12. CASE UNCHANGED vars
  BY <1>3, <1>12 DEF vars
<1> QED
  BY <1>4, <1>5, <1>6, <1>7, <1>8, <1>9, <1>10, <1>11, <1>12 DEF Next, ProcessOut

\* Linked targets take received messages in the order they came, however the queue
\* fills, postpones and drops in between and however many receive loops there are: a
\* message that was handed out when another had been is never taken before it.
THEOREM TakenAsTheyCame == Spec => []TakenInOrder
<1>1. LineInv => TakenInOrder
  <2> SUFFICES ASSUME LineInv, side = "receive",
                      NEW k \in 1..Len(taken), NEW l \in 1..Len(taken),
                      taken[k] \in ahead[taken[l]]
               PROVE  k < l
    BY DEF TakenInOrder
  <2>1. taken \in Seq(Messages) /\ Ordered(taken, ahead) /\ AheadEnded
    BY DEF LineInv, InLine, CameInv, SendInv, TypeOK
  <2>2. Len(taken) \in Nat /\ taken[l] \in Messages
    BY <2>1
  <2>3. k # l
    BY <2>1, <2>2 DEF AheadEnded
  <2>4. ~(l < k)
    BY <2>1 DEF Ordered
  <2> QED
    BY <2>2, <2>3, <2>4
<1> QED
  BY <1>1, LineInit, LineStep, PTL DEF Spec

-----------------------------------------------------------------------------
(* Room.                                                                   *)

\* With a strategy that does not wait and messages handed out one by one, an offer
\* finds room and nothing is postponed.
RoomForOffers ==
    /\ postponed = <<>>
    /\ \A m \in Messages : pc[m] = "offer" => HasRoom

RoomInv == CameInv /\ (side = "receive" /\ strategy # "Wait" /\ OneByOne => RoomForOffers)

\* RoomInv holds initially.
LEMMA RoomInit == Init => RoomInv
BY CameInit DEF Init, RoomInv, RoomForOffers

\* The offer of the handler that runs is the only one.
LEMMA OneHandler ==
    ASSUME CameInv, OneByOne, NEW m \in Messages, NEW k \in Messages,
           InProgress(m), InProgress(k)
    PROVE  k = m
BY DEF CameInv, OneByOne, AheadEnded, Ended, InProgress

\* A call that has begun stays so, with the same messages ahead of it.
LEMMA BegunStays ==
    ASSUME TypeOK, [Next]_vars, NEW m \in Messages, pc[m] # "new"
    PROVE  pc'[m] # "new" /\ ahead'[m] = ahead[m]
<1> USE DEF options, queue, history
<1>1. pc \in [Messages -> {"new", "room", "offer", "done", "thrown"}]
  BY DEF TypeOK
<1>2. ASSUME NEW k \in Messages, Begin(k) PROVE pc'[m] # "new" /\ ahead'[m] = ahead[m]
  <2>1. pc[k] = "new" /\ ahead' = [ahead EXCEPT ![k] = {n \in Messages : Ended(n)}]
    BY <1>2 DEF Begin
  <2>2. \E l \in {"done", "room", "offer"} : pc' = [pc EXCEPT ![k] = l]
    BY <1>2, BeginDecides
  <2> QED
    BY <1>1, <2>1, <2>2 DEF TypeOK
<1>3. ASSUME NEW k \in Messages, RemoveOld(k) \/ RemoveOldThrows(k) \/ Offer(k)
      PROVE  pc'[m] # "new" /\ ahead'[m] = ahead[m]
  BY <1>1, <1>3 DEF RemoveOld, AfterReceive, RemoveOldThrows, Offer
<1>4. ASSUME UNCHANGED <<pc, ahead>> PROVE pc'[m] # "new" /\ ahead'[m] = ahead[m]
  BY <1>4
<1> QED
  BY <1>2, <1>3, <1>4 DEF Next, vars, ConsumePostponed, Consume, ProcessOut, ReceiveNext,
     ReceiveThrows, Send, SendFails, Complete, CompleteBuffers, Fault

\* So messages that were handed out one by one always had been.
LEMMA OneByOneWas ==
    ASSUME TypeOK, [Next]_vars, OneByOne'
    PROVE  OneByOne
BY BegunStays DEF OneByOne

\* A queue that loses a message has room.
LEMMA RoomAfterTail ==
    ASSUME TypeOK, buffer # <<>>, buffer' = Tail(buffer), max' = max
    PROVE  HasRoom'
<1>1. max # -1 => max \in Nat
  BY SizesAssumption DEF TypeOK
<1>2. Len(buffer) \in Nat \ {0} /\ Len(buffer') = Len(buffer) - 1
  BY ElementsOfTail DEF TypeOK
<1> QED
  BY <1>1, <1>2 DEF HasRoom, TypeOK

\* Every step keeps RoomInv.
LEMMA RoomStep == RoomInv /\ [Next]_vars => RoomInv'
<1> SUFFICES ASSUME RoomInv, [Next]_vars, side' = "receive", strategy' # "Wait", OneByOne'
             PROVE  RoomForOffers'
  BY CameStep DEF RoomInv
<1> USE DEF options, queue, history
<1>1. UNCHANGED options
  BY DEF Next, vars, Begin, RemoveOld, RemoveOldThrows, Offer, ConsumePostponed, Consume,
     ProcessOut, ReceiveNext, ReceiveThrows, Send, SendFails, Complete, CompleteBuffers, Fault
<1>2. /\ CameInv /\ OneByOne /\ TypeOK /\ side = "receive" /\ strategy # "Wait"
      /\ max' = max
      /\ postponed = <<>> /\ \A m \in Messages : pc[m] = "offer" => HasRoom
      /\ pc \in [Messages -> {"new", "room", "offer", "done", "thrown"}]
  <2>1. TypeOK /\ CameInv
    BY DEF RoomInv, CameInv, SendInv
  <2>2. OneByOne
    BY <2>1, OneByOneWas
  <2> QED
    BY <1>1, <2>1, <2>2 DEF RoomInv, RoomForOffers, TypeOK
<1>3. ASSUME UNCHANGED <<pc, buffer>>, postponed' = <<>> PROVE RoomForOffers'
  BY <1>2, <1>3 DEF RoomForOffers, HasRoom
<1>4. ASSUME NEW m \in Messages, Begin(m) PROVE RoomForOffers'
  <2>1. UNCHANGED <<buffer, postponed>>
    BY <1>4 DEF Begin
  <2>2. PICK l \in {"done", "room", "offer"} :
             pc' = [pc EXCEPT ![m] = l] /\ (l = "offer" => ~Full)
    BY <1>2, <1>4, BeginDecides
  <2>3. Len(buffer) \in Nat /\ (max # -1 => max \in Nat /\ Len(buffer) <= max)
    BY <1>2, SizesAssumption DEF TypeOK
  <2>4. ~Full => HasRoom
    BY <2>3 DEF Full, HasRoom
  <2>5. HasRoom' = HasRoom
    BY <1>2, <2>1 DEF HasRoom
  <2> QED
    BY <1>2, <2>1, <2>2, <2>4, <2>5 DEF RoomForOffers
<1>5. ASSUME NEW m \in Messages, RemoveOld(m) PROVE RoomForOffers'
  <2>1. HasRoom'
    BY <1>2, <1>5, RoomAfterTail DEF RemoveOld
  <2> QED
    BY <1>2, <1>5, <2>1 DEF RemoveOld, RoomForOffers
<1>6. ASSUME NEW m \in Messages, RemoveOldThrows(m) \/ Offer(m) PROVE RoomForOffers'
  <2>1. InProgress(m) /\ \E l \in {"done", "thrown"} : pc' = [pc EXCEPT ![m] = l]
    BY <1>6 DEF RemoveOldThrows, Offer, InProgress
  <2>2. ASSUME NEW k \in Messages PROVE pc'[k] # "offer"
    <3>1. CASE k = m
      BY <1>2, <2>1, <3>1
    <3>2. CASE k # m
      BY <1>2, <2>1, <3>2, OneHandler DEF InProgress
    <3> QED
      BY <3>1, <3>2
  <2>3. postponed' = <<>>
    BY <1>2, <1>6 DEF RemoveOldThrows, Offer
  <2> QED
    BY <2>2, <2>3 DEF RoomForOffers
<1>7. ASSUME Consume \/ ReceiveNext PROVE RoomForOffers'
  <2>1. HasRoom'
    BY <1>2, <1>7, RoomAfterTail DEF Consume, ReceiveNext, TakeFirst
  <2> QED
    BY <1>2, <1>7, <2>1 DEF Consume, ReceiveNext, RoomForOffers
<1>8. ASSUME ReceiveThrows \/ Send \/ SendFails \/ Complete \/ CompleteBuffers \/ Fault
      PROVE  RoomForOffers'
  BY <1>2, <1>3, <1>8 DEF ReceiveThrows, Send, SendFails, Complete, CompleteBuffers, Fault
<1>9. CASE ConsumePostponed
  BY <1>2, <1>9 DEF ConsumePostponed
<1>10. CASE UNCHANGED vars
  BY <1>2, <1>3, <1>10 DEF vars
<1> QED
  BY <1>4, <1>5, <1>6, <1>7, <1>8, <1>9, <1>10 DEF Next, ProcessOut

\* Discard and RemoveOld leave no SendAsync waiting, as long as the handler runs in one
\* receive loop at a time: what is kept of the received messages is bounded by the
\* size of the queue.
THEOREM WaitAlonePilesUp == Spec => []OnlyWaitPilesUp
<1>1. RoomInv => OnlyWaitPilesUp
  BY DEF RoomInv, RoomForOffers, OnlyWaitPilesUp
<1> QED
  BY <1>1, RoomInit, RoomStep, PTL DEF Spec

-----------------------------------------------------------------------------
(* The newest message.                                                     *)

\* Everything else that came had ended when m came.
Latest(m) == pc[m] # "new" /\ \A k \in Messages \ {m} : pc[k] = "new" \/ k \in ahead[m]

InReach(m) ==
    InProgress(m) \/ m \in Elements(buffer) \union Elements(postponed) \union Elements(taken)

\* The newest message is on its way into the queue, waits for it, is in it, or was
\* taken from it.
NewestInReach == ~Completed => \A m \in Messages : Latest(m) => InReach(m)

KeptInv == CameInv /\ (side = "receive" /\ strategy = "RemoveOld" => NewestInReach)

\* KeptInv holds initially.
LEMMA KeptInit == Init => KeptInv
BY CameInit DEF Init, KeptInv, NewestInReach, Latest

\* Beside the newest message no other is in the handler.
LEMMA NewestIsAlone ==
    ASSUME CameInv, NEW m \in Messages, Latest(m), NEW k \in Messages, InProgress(k)
    PROVE  k = m
BY DEF CameInv, Latest, AheadEnded, Ended, InProgress

\* Every step keeps KeptInv.
LEMMA KeptStep == KeptInv /\ [Next]_vars => KeptInv'
<1> SUFFICES ASSUME KeptInv, [Next]_vars, side' = "receive", strategy' = "RemoveOld",
                    ~Completed', NEW m \in Messages, Latest(m)'
             PROVE  InReach(m)'
  BY CameStep DEF KeptInv, NewestInReach
<1> USE DEF options, queue, history
<1>1. UNCHANGED options
  BY DEF Next, vars, Begin, RemoveOld, RemoveOldThrows, Offer, ConsumePostponed, Consume,
     ProcessOut, ReceiveNext, ReceiveThrows, Send, SendFails, Complete, CompleteBuffers, Fault
<1>2. /\ CameInv /\ TypeOK /\ side = "receive" /\ strategy = "RemoveOld"
      /\ NewestInReach /\ AheadEnded
      /\ pc \in [Messages -> {"new", "room", "offer", "done", "thrown"}]
      /\ ahead \in [Messages -> SUBSET Messages]
      /\ buffer \in Seq(Messages) /\ postponed \in Seq(Messages)
      /\ taken \in Seq(Messages)
  BY <1>1 DEF KeptInv, CameInv, SendInv, TypeOK
<1>3. ASSUME NEW k \in Messages, Begin(k) PROVE InReach(m)'
  <2>1. CASE k = m
    <3>1. InProgress(m)'
      BY <1>2, <1>3, <2>1, BeginDecides DEF InProgress
    <3> QED
      BY <3>1 DEF InReach
  <2>2. CASE k # m
    <3>1. pc[k] = "new" /\ pc'[k] # "new" /\ ahead'[m] = ahead[m]
      BY <1>2, <1>3, <2>2, BeginDecides DEF Begin
    <3>2. k \in ahead[m]
      BY <2>2, <3>1 DEF Latest
    <3> QED
      BY <1>2, <3>1, <3>2 DEF AheadEnded, Ended
  <2> QED
    BY <2>1, <2>2
<1>4. ASSUME UNCHANGED <<ahead, pc, ending>>,
             Elements(buffer) \union Elements(postponed) \union Elements(taken)
               \subseteq Elements(buffer') \union Elements(postponed') \union Elements(taken')
      PROVE  InReach(m)'
  BY <1>2, <1>4 DEF NewestInReach, Latest, InReach, InProgress, Completed
<1>5. ASSUME NEW k \in Messages, RemoveOld(k) PROVE InReach(m)'
  <2>1. ahead' = ahead /\ pc[k] = "room" /\ pc' = [pc EXCEPT ![k] = "offer"]
    BY <1>5 DEF RemoveOld, AfterReceive
  <2>2. Latest(m)
    BY <1>2, <2>1 DEF Latest
  <2>3. k = m
    BY <1>2, <2>1, <2>2, NewestIsAlone DEF InProgress
  <2>4. pc'[m] = "offer"
    BY <1>2, <2>1, <2>3
  <2> QED
    BY <2>4 DEF InReach, InProgress
<1>6. ASSUME NEW k \in Messages, RemoveOldThrows(k) PROVE InReach(m)'
  BY <1>6 DEF RemoveOldThrows, Completed
<1>7. ASSUME NEW k \in Messages, Offer(k) PROVE InReach(m)'
  <2>1. /\ pc[k] = "offer" /\ pc' = [pc EXCEPT ![k] = "done"] /\ ahead' = ahead
        /\ ~Completed
    BY <1>7 DEF Offer, Completed
  <2>2. Latest(m)
    BY <1>2, <2>1 DEF Latest
  <2>3. k = m
    BY <1>2, <2>1, <2>2, NewestIsAlone DEF InProgress
  <2>4. buffer' = Append(buffer, m) \/ postponed' = Append(postponed, m)
    BY <1>2, <1>7, <2>1, <2>3 DEF Offer
  <2>5. /\ Elements(Append(buffer, m)) = Elements(buffer) \union {m}
        /\ Elements(Append(postponed, m)) = Elements(postponed) \union {m}
    BY <1>2, ElementsOfAppend
  <2> QED
    BY <2>4, <2>5 DEF InReach
<1>8. ASSUME Consume \/ ReceiveNext PROVE InReach(m)'
  <2>1. /\ buffer # <<>> /\ taken' = Append(taken, Head(buffer)) /\ buffer' = Tail(buffer)
        /\ UNCHANGED <<ahead, pc, ending, postponed>>
    BY <1>8 DEF Consume, ReceiveNext, TakeFirst
  <2>2. Elements(buffer) \union Elements(taken) \subseteq Elements(buffer') \union Elements(taken')
    BY <1>2, <2>1, ElementsOfTail, ElementsOfAppend
  <2> QED
    BY <1>4, <2>1, <2>2
<1>9. ASSUME ReceiveThrows \/ Send \/ SendFails PROVE InReach(m)'
  BY <1>4, <1>9 DEF ReceiveThrows, Send, SendFails
<1>10. ASSUME Complete \/ CompleteBuffers \/ Fault PROVE InReach(m)'
  <2>1. /\ UNCHANGED <<ahead, pc, buffer, postponed, taken>> /\ ~Completed
    BY <1>10 DEF Complete, CompleteBuffers, Fault, Completed
  <2> QED
    BY <1>2, <2>1 DEF NewestInReach, Latest, InReach, InProgress
<1>11. ASSUME ConsumePostponed PROVE InReach(m)'
  <2>1. /\ postponed # <<>> /\ buffer' = Append(buffer, Head(postponed))
        /\ postponed' = Tail(postponed) /\ UNCHANGED <<ahead, pc, ending, taken>>
    BY <1>11 DEF ConsumePostponed
  <2>2. Elements(buffer) \union Elements(postponed)
           \subseteq Elements(buffer') \union Elements(postponed')
    BY <1>2, <2>1, ElementsOfTail, ElementsOfAppend
  <2> QED
    BY <1>4, <2>1, <2>2
<1>12. CASE UNCHANGED vars
  BY <1>4, <1>12 DEF vars
<1> QED
  BY <1>3, <1>5, <1>6, <1>7, <1>8, <1>9, <1>10, <1>11, <1>12 DEF Next, ProcessOut

\* RemoveOld never loses the message that came last, whatever linked targets take
\* between the handler's look at Count and its Receive, and however many receive
\* loops have run beside each other before it came.
THEOREM NewestStays == Spec => []NewestIsKept
<1>1. KeptInv => NewestIsKept
  <2> SUFFICES ASSUME KeptInv, side = "receive", strategy = "RemoveOld", ~Completed,
                      NEW m \in Messages, IsNewest(m)
               PROVE  m \in Elements(buffer \o postponed) \union Elements(taken)
    BY DEF NewestIsKept, Completed
  <2>1. buffer \in Seq(Messages) /\ postponed \in Seq(Messages)
    BY DEF KeptInv, CameInv, SendInv, TypeOK
  <2>2. m \in Elements(buffer) \union Elements(postponed) \union Elements(taken)
    BY DEF KeptInv, NewestInReach, IsNewest, Latest, InReach, Ended
  <2> QED
    BY <2>1, <2>2, ElementsOfConcat
<1> QED
  BY <1>1, KeptInit, KeptStep, PTL DEF Spec

=============================================================================
