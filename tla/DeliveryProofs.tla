--------------------------- MODULE DeliveryProofs ---------------------------
(***************************************************************************)
(* Module Network implements module Delivery: its initial states are       *)
(* initial states there, and each of its steps is a step there or changes  *)
(* nothing there.                                                          *)
(***************************************************************************)
EXTENDS NetworkProofs

\* The values Network gives the variables of Delivery.
phase == [m \in Messages |-> Phase(m)]
chosen == [m \in Messages |-> Chosen(m)]
got == [m \in Messages |-> Receivers(m)]

\* Only an empty sequence has no elements.
LEMMA EmptyHasNoElements ==
    ASSUME NEW q \in Seq(Clients)
    PROVE  q = <<>> <=> Elements(q) = {}
<1>1. ASSUME q # <<>> PROVE q[1] \in Elements(q)
  BY <1>1 DEF Elements
<1>2. ASSUME q = <<>> PROVE Elements(q) = {}
  BY <1>2 DEF Elements
<1> QED
  BY <1>1, <1>2

\* Nothing happens to a message.
Untouched(k) ==
    pc'[k] = pc[k] /\ todo'[k] = todo[k] /\ writing'[k] = writing[k] /\ sent'[k] = sent[k]

\* A message to which nothing happens is where it was in Delivery.
LEMMA UntouchedIsSame ==
    ASSUME NEW k \in Messages, Untouched(k)
    PROVE  Phase(k)' = Phase(k) /\ Chosen(k)' = Chosen(k) /\ Receivers(k)' = Receivers(k)
<1>1. IsReady(k)' = IsReady(k)
  BY DEF Untouched, IsReady
<1>2. Phase(k)' = Phase(k)
  BY <1>1 DEF Untouched, Phase
<1>3. Receivers(k)' = Receivers(k) /\ Elements(todo[k])' = Elements(todo[k])
  BY DEF Untouched, Receivers, Elements
<1> QED
  BY <1>2, <1>3 DEF Untouched, Chosen

\* A step that touches no message changes none in Delivery.
LEMMA NothingTouched ==
    ASSUME \A k \in Messages : Untouched(k)
    PROVE  phase' = phase /\ chosen' = chosen /\ got' = got
BY UntouchedIsSame DEF phase, chosen, got

\* A task touches its own message only, and so it is in Delivery.
LEMMA TaskTouchesOne ==
    ASSUME TypeOK, NEW m \in Messages, Task(m)
    PROVE  /\ phase' = [phase EXCEPT ![m] = Phase(m)']
           /\ chosen' = [chosen EXCEPT ![m] = Chosen(m)']
           /\ got' = [got EXCEPT ![m] = Receivers(m)']
<1> USE DEF TypeOK, GoTo, history
<1>1. \A k \in Messages \ {m} : Untouched(k)
  <2>1. CASE Receive(m) \/ Reply(m)
    BY <2>1 DEF Untouched, Receive, Reply
  <2>2. CASE Snapshot(m) \/ NobodyLeft(m) \/ Draw(m) \/ WantLock(m) \/ Advance(m)
    BY <2>2 DEF Untouched, Snapshot, NobodyLeft, Draw, WantLock, Advance
  <2>3. CASE ElementAt(m) \/ Address(m)
    BY <2>3 DEF Untouched, ElementAt, Address
  <2>4. ASSUME NEW c \in Clients, Write(m, c) PROVE \A k \in Messages \ {m} : Untouched(k)
    BY <2>4 DEF Untouched, Write
  <2> QED
    BY <2>1, <2>2, <2>3, <2>4 DEF Task
<1> QED
  BY <1>1, UntouchedIsSame DEF phase, chosen, got

\* A task's step that changes nothing Delivery knows of its message.
LEMMA TaskStutters ==
    ASSUME TypeOK, NEW m \in Messages, Task(m), Phase(m)' = Phase(m),
           Chosen(m)' = Chosen(m), Receivers(m)' = Receivers(m),
           UNCHANGED <<values, replies>>
    PROVE  UNCHANGED D!vars
<1>1. phase' = phase /\ chosen' = chosen /\ got' = got
  BY TaskTouchesOne DEF phase, chosen, got
<1> QED
  BY <1>1 DEF D!vars, phase, chosen, got, Members

-----------------------------------------------------------------------------
(* Initial states and membership.                                          *)

\* An initial state of Network is one of Delivery.
LEMMA InitMaps == Init => D!Init
<1> SUFFICES ASSUME Init PROVE D!Init
  OBVIOUS
<1>1. Members \in SUBSET Clients
  BY OrdersAreDistinct DEF Init, Members
<1>2. ASSUME NEW m \in Messages
      PROVE  Phase(m) = "new" /\ Chosen(m) = {} /\ Receivers(m) = {}
  <2>1. pc[m] = "new" /\ sent[m] = <<>>
    BY DEF Init
  <2> QED
    BY <2>1 DEF Phase, Chosen, Receivers
<1>3. replies = [m \in Messages |-> <<>>]
  BY DEF Init
<1> QED
  BY <1>1, <1>2, <1>3 DEF D!Init

\* AddClient and TryRemove are Join and Leave.
LEMMA MembershipMaps ==
    ASSUME DeliveryInv, NEW c \in Clients, Join(c) \/ Leave(c)
    PROVE  D!Join(c) \/ D!Leave(c)
<1>1. \A k \in Messages : Untouched(k)
  BY DEF Join, Leave, taskVars, Untouched
<1>2. phase' = phase /\ chosen' = chosen /\ got' = got /\ replies' = replies
  BY <1>1, NothingTouched DEF Join, Leave
<1>3. CASE Join(c)
  <2>1. Members \union {c} \in SUBSET Clients
    BY DEF DeliveryInv, MembersInv, TypeOK, Members, Elements
  <2>2. Members' = Members \union {c}
    BY <1>3, <2>1, OrdersAreDistinct DEF Join, Members
  <2> QED
    BY <1>2, <2>2 DEF D!Join, phase, chosen, got
<1>4. CASE Leave(c)
  <2>1. Members' = Members \ {c}
    BY <1>4, RemoveKeepsMembers DEF Leave, DeliveryInv
  <2> QED
    BY <1>2, <2>1 DEF D!Leave, phase, chosen, got
<1> QED
  BY <1>3, <1>4

-----------------------------------------------------------------------------
(* A message is accepted or refused, and its sender is told.               *)

\* The start of a task decides as Delivery does.
LEMMA ReceiveMaps ==
    ASSUME DeliveryInv, NEW m \in Messages, Receive(m)
    PROVE  D!Receive(m)
<1>1. TypeOK
  BY DEF DeliveryInv, MembersInv
<1>2. /\ phase' = [phase EXCEPT ![m] = Phase(m)']
      /\ chosen' = [chosen EXCEPT ![m] = Chosen(m)']
      /\ got' = [got EXCEPT ![m] = Receivers(m)']
  BY <1>1, TaskTouchesOne DEF Task
<1>3. Phase(m) = "new" /\ Chosen(m) = {}
  BY DEF Receive, Phase, Chosen
<1>4. Phase(m)' = IF TypeOf[m] = "Direct" /\ TargetOf[m] \notin Members THEN "refused"
                  ELSE IF m \in NoAck THEN "ready" ELSE "accepted"
  <2>1. CASE TypeOf[m] = "Direct" /\ TargetOf[m] \in Members
    <3>1. todo'[m] = <<TargetOf[m]>> /\ pc'[m] = IF m \in NoAck THEN "send" ELSE "ack"
      BY <1>1, <2>1 DEF Receive, GoTo, AckFirst, TypeOK
    <3>2. todo'[m] # <<>>
      BY <3>1
    <3> QED
      BY <2>1, <3>1, <3>2 DEF Phase, IsReady
  <2>2. CASE TypeOf[m] = "Direct" /\ TargetOf[m] \notin Members
    <3>1. pc'[m] = "error"
      BY <1>1, <2>2 DEF Receive, GoTo, TypeOK
    <3> QED
      BY <2>2, <3>1 DEF Phase
  <2>3. CASE TypeOf[m] # "Direct"
    <3>1. pc'[m] = IF m \in NoAck THEN "route" ELSE "ack"
      BY <1>1, <2>3 DEF Receive, GoTo, AckFirst, TypeOK
    <3> QED
      BY <2>3, <3>1 DEF Phase, IsReady
  <2> QED
    BY <2>1, <2>2, <2>3
<1>5. Chosen(m)' = {}
  BY <1>4 DEF Chosen
<1>6. Receivers(m)' = Receivers(m) /\ Members' = Members /\ replies' = replies
  BY DEF Receive, Receivers, Members
<1>7. phase[m] = "new" /\ chosen' = chosen /\ got' = got
  BY <1>2, <1>3, <1>5, <1>6 DEF phase, chosen, got
<1> QED
  BY <1>2, <1>4, <1>6, <1>7 DEF D!Receive, D!Become, phase, chosen, got

\* The ack and the error are Tell.
LEMMA ReplyMaps ==
    ASSUME DeliveryInv, NEW m \in Messages, Reply(m)
    PROVE  D!Tell(m)
<1>1. TypeOK /\ Sound(m) /\ pc[m] \in {"ack", "error"}
  BY DEF DeliveryInv, MembersInv, Reply
<1>2. /\ phase' = [phase EXCEPT ![m] = Phase(m)']
      /\ chosen' = [chosen EXCEPT ![m] = Chosen(m)']
      /\ got' = [got EXCEPT ![m] = Receivers(m)']
  BY <1>1, TaskTouchesOne DEF Task
<1>3. pc'[m] = AfterReply(m) /\ todo'[m] = todo[m]
  BY <1>1 DEF Reply, GoTo, TypeOK
<1>4. \/ pc[m] = "ack" /\ Phase(m) = "accepted" /\ Phase(m)' = "ready"
      \/ pc[m] = "error" /\ Phase(m) = "refused" /\ Phase(m)' = "closed"
  <2>1. CASE pc[m] = "error"
    BY <1>3, <2>1 DEF AfterReply, Phase, IsReady
  <2>2. CASE pc[m] = "ack" /\ TypeOf[m] # "Direct"
    BY <1>3, <2>2 DEF AfterReply, Phase, IsReady
  <2>3. CASE pc[m] = "ack" /\ TypeOf[m] = "Direct"
    <3>1. pc'[m] = "send" /\ Phase(m) = "accepted"
      BY <1>3, <2>3 DEF AfterReply, Phase
    <3>2. todo[m] # <<>>
      BY <1>1, <2>3 DEF Sound, Progress
    <3> QED
      BY <1>3, <2>3, <3>1, <3>2 DEF Phase, IsReady
  <2> QED
    BY <1>1, <2>1, <2>2, <2>3
<1>5. Chosen(m) = {} /\ Chosen(m)' = {} /\ Receivers(m)' = Receivers(m)
  BY <1>4 DEF Chosen, Reply, Receivers
<1>6. chosen' = chosen /\ got' = got
  BY <1>2, <1>5 DEF chosen, got
<1>7. \/ /\ replies' = [replies EXCEPT ![m] = Append(@, pc[m])]
         /\ Members' = Members
      \/ /\ Members' = Members \ {SenderOf[m]}
         /\ UNCHANGED replies
  <2>1. SenderOf[m] \in Clients /\ MembersInv
    BY MessagesAssumption DEF DeliveryInv
  <2> QED
    BY <2>1, RemoveKeepsMembers DEF Reply, WriteFails, Members
<1>8. phase[m] = Phase(m) /\ (phase[m] = "accepted" <=> pc[m] = "ack")
  BY <1>4 DEF phase
<1> QED
  BY <1>1, <1>2, <1>4, <1>6, <1>7, <1>8 DEF D!Tell, D!Become, phase, chosen, got

-----------------------------------------------------------------------------
(* The receivers are chosen.                                               *)

\* A task that has chosen the clients of S, or none, has done what Choose does.
LEMMA ChosenMaps ==
    ASSUME TypeOK, NEW m \in Messages, Task(m), NEW S \in SUBSET Clients, D!MayReach(m, S),
           Phase(m) = "ready", Chosen(m)' = S,
           Phase(m)' = IF S = {} THEN "closed" ELSE "chosen",
           UNCHANGED <<values, sent, replies>>
    PROVE  D!Choose(m)
<1>1. /\ phase' = [phase EXCEPT ![m] = Phase(m)']
      /\ chosen' = [chosen EXCEPT ![m] = Chosen(m)']
      /\ got' = [got EXCEPT ![m] = Receivers(m)']
  BY TaskTouchesOne
<1>2. Receivers(m)' = Receivers(m) /\ Members' = Members
  BY DEF Receivers, Members
<1>3. got' = got /\ phase[m] = "ready"
  BY <1>1, <1>2 DEF got, phase
<1> QED
  BY <1>1, <1>2, <1>3 DEF D!Choose, D!Become, phase, chosen, got

\* A broadcast chooses all members but its sender.
LEMMA SnapshotMaps ==
    ASSUME DeliveryInv, NEW m \in Messages, Snapshot(m)
    PROVE  D!Choose(m)
<1> DEFINE S == Members \ {SenderOf[m]}
<1>1. TypeOK /\ Distinct(values) /\ Sound(m)
  BY DEF DeliveryInv, MembersInv
<1>2. S \in SUBSET Clients
  BY <1>1 DEF TypeOK, Members, Elements
<1>3. /\ todo'[m] = Without(values, SenderOf[m]) /\ Elements(todo'[m]) = S
      /\ todo'[m] \in Seq(Clients)
  BY <1>1, WithoutProperties DEF Snapshot, TypeOK, Members
<1>4. todo'[m] = <<>> <=> S = {}
  BY <1>3, EmptyHasNoElements
<1>5. /\ pc[m] = "route" /\ TypeOf[m] = "Broadcast" /\ writing'[m] = {}
      /\ pc'[m] = IF S = {} THEN "done" ELSE "send"
  BY <1>1, <1>4 DEF Snapshot, GoTo, TypeOK, Sound, Progress
<1>6. Phase(m) = "ready" /\ Phase(m)' = IF S = {} THEN "closed" ELSE "chosen"
  BY <1>5 DEF Phase, IsReady
<1>7. Chosen(m)' = S
  BY <1>3, <1>5, <1>6 DEF Chosen
<1>8. D!MayReach(m, S)
  BY <1>5 DEF D!MayReach
<1> QED
  BY <1>1, <1>2, <1>6, <1>7, <1>8, ChosenMaps DEF Snapshot, Task, history

\* A network that is empty has nobody to choose.
LEMMA NobodyLeftMaps ==
    ASSUME DeliveryInv, NEW m \in Messages, NobodyLeft(m)
    PROVE  D!Choose(m)
<1>1. TypeOK
  BY DEF DeliveryInv, MembersInv
<1>2. pc[m] = "route" /\ pc'[m] = "done" /\ Members = {}
  BY <1>1 DEF NobodyLeft, GoTo, TypeOK, Members, Elements
<1>3. Phase(m) = "ready" /\ Phase(m)' = "closed" /\ Chosen(m)' = {}
  BY <1>2 DEF Phase, IsReady, Chosen
<1>4. D!MayReach(m, {})
  BY <1>2 DEF NobodyLeft, D!MayReach
<1> QED
  BY <1>1, <1>3, <1>4, ChosenMaps DEF NobodyLeft, Task, history

\* The client at the index is the one that is chosen, or the task goes back to look
\* for another index.
LEMMA ElementAtMaps ==
    ASSUME DeliveryInv, NEW m \in Messages, ElementAt(m)
    PROVE  D!Choose(m) \/ UNCHANGED D!vars
<1> DEFINE i == IF TypeOf[m] = "Random" THEN index[m] ELSE rrIndex
<1>1. TypeOK /\ Placed(m) /\ Sound(m)
  BY DEF DeliveryInv, MembersInv
<1>2. /\ pc[m] = "element" /\ TypeOf[m] \in {"Random", "RoundRobin"} /\ i \in Nat
      /\ writing'[m] = {}
  BY <1>1 DEF ElementAt, Placed, HasLock, TypeOK, Sound, Progress
<1>3. Phase(m) = "ready"
  BY <1>2 DEF Phase, IsReady
<1>4. CASE i < Len(values)
  <2> DEFINE c == values[i + 1]
  <2>1. c \in Members /\ c \in Clients
    <3> HIDE DEF i
    <3>1. values \in Seq(Clients) /\ i + 1 \in 1..Len(values)
      <4>1. values \in Seq(Clients) /\ Len(values) \in Nat
        BY <1>1 DEF TypeOK
      <4> QED
        BY <1>2, <1>4, <4>1
    <3> QED
      BY <3>1 DEF Members, Elements
  <2>2. pc'[m] = "send" /\ todo'[m] = <<c>>
    <3>1. /\ pc \in [Messages -> Labels] /\ todo \in [Messages -> Seq(Clients)]
      BY <1>1 DEF TypeOK
    <3>2. GoTo(m, "send") /\ todo' = [todo EXCEPT ![m] = <<c>>]
      <4>1. Len(values) \in Nat /\ ~(i >= Len(values))
        BY <1>1, <1>2, <1>4 DEF TypeOK
      <4> QED
        BY <4>1 DEF ElementAt
    <3> QED
      BY <3>1, <3>2 DEF GoTo
  <2>3. Elements(todo'[m]) = {c}
    BY <2>2 DEF Elements
  <2>4. Phase(m)' = "chosen"
    BY <1>2, <2>2 DEF Phase, IsReady
  <2>5. Chosen(m)' = {c}
    BY <1>2, <2>3, <2>4 DEF Chosen
  <2>6. D!MayReach(m, {c})
    BY <1>2, <2>1 DEF D!MayReach
  <2> HIDE DEF c
  <2> QED
    BY <1>1, <1>3, <2>1, <2>4, <2>5, <2>6, ChosenMaps DEF ElementAt, Task
<1>5. CASE ~(i < Len(values))
  <2>1. pc'[m] = "route"
    BY <1>1, <1>5 DEF ElementAt, GoTo, Retry, TypeOK
  <2>2. Phase(m)' = "ready" /\ Chosen(m)' = {} /\ Chosen(m) = {}
    BY <1>3, <2>1 DEF Phase, IsReady, Chosen
  <2>3. Receivers(m)' = Receivers(m) /\ UNCHANGED <<values, replies>>
    BY DEF ElementAt, Receivers
  <2> QED
    BY <1>1, <1>3, <2>2, <2>3, TaskStutters DEF Task
<1> QED
  BY <1>4, <1>5

\* Before it has a client to choose, a task only looks for one.
LEMMA SearchStutters ==
    ASSUME DeliveryInv, NEW m \in Messages, Draw(m) \/ WantLock(m) \/ Advance(m)
    PROVE  UNCHANGED D!vars
<1>1. TypeOK
  BY DEF DeliveryInv, MembersInv
<1>2. pc[m] \in {"route", "lock"} /\ pc'[m] \in {"element", "lock"}
  BY <1>1 DEF Draw, WantLock, Advance, GoTo, TypeOK
<1>3. Phase(m) = "ready" /\ Phase(m)' = "ready" /\ Chosen(m) = {} /\ Chosen(m)' = {}
  BY <1>2 DEF Phase, IsReady, Chosen
<1>4. Receivers(m)' = Receivers(m) /\ UNCHANGED <<values, replies>>
  BY DEF Draw, WantLock, Advance, history, Receivers
<1> QED
  BY <1>1, <1>3, <1>4, TaskStutters DEF Task

\* Addressing the receiver of a Direct message is its choice; of any other message
\* the receivers are chosen already.
LEMMA AddressMaps ==
    ASSUME DeliveryInv, NEW m \in Messages, Address(m)
    PROVE  D!Choose(m) \/ UNCHANGED D!vars
<1> DEFINE c == Head(todo[m])
<1>1. TypeOK /\ Sound(m)
  BY DEF DeliveryInv, MembersInv
<1>2. /\ pc[m] = "send" /\ pc'[m] = "send" /\ todo[m] # <<>> /\ writing[m] = {}
      /\ todo'[m] = Tail(todo[m]) /\ writing'[m] = {c}
      /\ UNCHANGED <<values, sent, replies>>
  BY <1>1 DEF Address, TypeOK, history
<1>3. c \in Elements(todo[m]) /\ Elements(todo'[m]) = Elements(todo[m]) \ {c}
  BY <1>1, <1>2, TailProperties DEF TypeOK, Sound, Delivery
<1>4. CASE TypeOf[m] = "Direct"
  <2>1. todo[m] = <<TargetOf[m]>>
    BY <1>1, <1>2, <1>4 DEF Sound, Audience
  <2>2. c = TargetOf[m] /\ Elements(todo'[m]) = {} /\ todo'[m] = <<>>
    BY <1>2, <2>1 DEF Elements
  <2>3. Phase(m) = "ready" /\ Phase(m)' = "chosen"
    BY <1>2, <1>4, <2>2 DEF Phase, IsReady
  <2>4. Chosen(m)' = {c} /\ {c} \in SUBSET Clients /\ D!MayReach(m, {c})
    BY <1>2, <1>4, <2>2, <2>3, MessagesAssumption DEF Chosen, D!MayReach
  <2> HIDE DEF c
  <2> QED
    BY <1>1, <1>2, <2>3, <2>4, ChosenMaps DEF Task
<1>5. CASE TypeOf[m] # "Direct"
  <2>1. Phase(m) = "chosen" /\ Phase(m)' = "chosen"
    BY <1>2, <1>5 DEF Phase, IsReady
  <2>2. Chosen(m)' = Chosen(m)
    BY <1>2, <1>3, <2>1 DEF Chosen
  <2>3. Receivers(m)' = Receivers(m)
    BY <1>2 DEF Receivers
  <2> QED
    BY <1>1, <1>2, <2>1, <2>2, <2>3, TaskStutters DEF Task
<1> QED
  BY <1>4, <1>5

-----------------------------------------------------------------------------
(* The receivers are served.                                               *)

\* A write, whether it succeeds or fails, is Serve.
LEMMA WriteMaps ==
    ASSUME DeliveryInv, NEW m \in Messages, NEW c \in Clients, Write(m, c)
    PROVE  D!Serve(m, c)
<1>1. TypeOK /\ MembersInv /\ Sound(m)
  BY DEF DeliveryInv, MembersInv
<1>2. /\ phase' = [phase EXCEPT ![m] = Phase(m)']
      /\ chosen' = [chosen EXCEPT ![m] = Chosen(m)']
      /\ got' = [got EXCEPT ![m] = Receivers(m)']
  BY <1>1, TaskTouchesOne DEF Task
<1>3. pc[m] = "send" /\ writing[m] = {c} /\ c \notin Elements(todo[m])
  BY <1>1 DEF Write, Sound, Progress, Delivery
<1>4. /\ writing'[m] = {} /\ todo'[m] = todo[m]
      /\ pc'[m] = IF todo[m] = <<>> THEN "done" ELSE "send"
  BY <1>1, <1>3 DEF Write, GoTo, AfterWrite, TypeOK
<1>5. TypeOf[m] = "Direct" => todo[m] = <<>>
  BY <1>1, <1>3 DEF Sound, Audience
<1>6. todo[m] = <<>> <=> Elements(todo[m]) = {}
  BY <1>1, EmptyHasNoElements DEF TypeOK
<1>7. Phase(m) = "chosen" /\ Chosen(m) = Elements(todo[m]) \union {c}
  BY <1>3, <1>5 DEF Phase, IsReady, Chosen
<1>8. /\ Phase(m)' = IF Chosen(m) = {c} THEN "closed" ELSE "chosen"
      /\ Chosen(m)' = Chosen(m) \ {c}
  <2>1. CASE todo[m] = <<>>
    <3>1. Phase(m)' = "closed"
      BY <1>4, <2>1 DEF Phase, IsReady
    <3> QED
      BY <1>6, <1>7, <2>1, <3>1 DEF Chosen
  <2>2. CASE todo[m] # <<>>
    <3>1. Phase(m)' = "chosen"
      BY <1>4, <1>5, <2>2 DEF Phase, IsReady
    <3>2. Chosen(m)' = Elements(todo[m])
      BY <1>4, <3>1 DEF Chosen, Elements
    <3> QED
      BY <1>3, <1>6, <1>7, <2>2, <3>1, <3>2
  <2> QED
    BY <2>1, <2>2
<1>9. \/ Receivers(m)' = Receivers(m) \union {c} /\ Members' = Members
      \/ Members' = Members \ {c} /\ Receivers(m)' = Receivers(m)
  <2>1. CASE /\ sent' = [sent EXCEPT ![m] = Append(@, [to |-> c, reciever |-> reciever[m]])]
             /\ UNCHANGED values
    BY <1>1, <2>1, WrittenIsReceiver DEF Members
  <2>2. CASE WriteFails(m, c) /\ UNCHANGED sent
    BY <1>1, <2>2, RemoveKeepsMembers DEF WriteFails, Receivers
  <2> QED
    BY <2>1, <2>2 DEF Write
<1>10. replies' = replies
  BY DEF Write
<1>11. phase[m] = "chosen" /\ chosen[m] = Chosen(m) /\ got[m] = Receivers(m)
  BY <1>7 DEF phase, chosen, got
<1>12. Receivers(m)' = Receivers(m) => got' = got
  BY <1>2, <1>11 DEF got
<1> QED
  BY <1>2, <1>7, <1>8, <1>9, <1>10, <1>11, <1>12 DEF D!Serve, D!Become, phase, chosen, got

-----------------------------------------------------------------------------
\* Every step of Network is a step of Delivery or changes nothing there.
LEMMA NextMaps == DeliveryInv /\ [Next]_vars => [D!Next]_(D!vars)
<1> SUFFICES ASSUME DeliveryInv, [Next]_vars PROVE D!Next \/ UNCHANGED D!vars
  OBVIOUS
<1>1. ASSUME NEW c \in Clients, Join(c) \/ Leave(c) PROVE D!Next
  BY <1>1, MembershipMaps DEF D!Next
<1>2. ASSUME NEW m \in Messages, Task(m) PROVE D!Next \/ UNCHANGED D!vars
  <2>1. CASE Receive(m) \/ Reply(m) \/ Snapshot(m) \/ NobodyLeft(m)
    BY <2>1, ReceiveMaps, ReplyMaps, SnapshotMaps, NobodyLeftMaps DEF D!Next
  <2>2. CASE Draw(m) \/ WantLock(m) \/ Advance(m)
    BY <2>2, SearchStutters
  <2>3. CASE ElementAt(m) \/ Address(m)
    BY <2>3, ElementAtMaps, AddressMaps DEF D!Next
  <2>4. CASE \E c \in Clients : Write(m, c)
    BY <2>4, WriteMaps DEF D!Next
  <2> QED
    BY <1>2, <2>1, <2>2, <2>3, <2>4 DEF Task
<1>3. CASE UNCHANGED vars
  <2>1. \A k \in Messages : Untouched(k)
    BY <1>3 DEF vars, taskVars, history, Untouched
  <2>2. phase' = phase /\ chosen' = chosen /\ got' = got
    BY <2>1, NothingTouched
  <2>3. Members' = Members /\ replies' = replies
    BY <1>3 DEF vars, history, Members
  <2> QED
    BY <2>2, <2>3 DEF D!vars, phase, chosen, got
<1> QED
  BY <1>1, <1>2, <1>3 DEF Next

\* However the tasks of Network.cs interleave, with joins, leaves and failed writes
\* between their steps, a network keeps the promises of module Delivery.
THEOREM NetworkImplementsDelivery == Spec => ImplementsDelivery
BY InitMaps, NextMaps, DeliveryHolds, PTL DEF Spec, ImplementsDelivery, D!Spec

=============================================================================
