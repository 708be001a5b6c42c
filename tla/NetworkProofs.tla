--------------------------- MODULE NetworkProofs ---------------------------
(***************************************************************************)
(* Theorems about module Network, for every finite set of clients, every   *)
(* set of messages and any amount of churn.                                *)
(***************************************************************************)
EXTENDS Network, FiniteSetTheorems, TLAPS

\* Nothing occurs twice in a sequence.
Distinct(q) == \A i, j \in 1..Len(q) : q[i] = q[j] => i = j

\* The orders of a set of clients are sequences without repetition.
LEMMA OrdersAreDistinct ==
    ASSUME NEW S \in SUBSET Clients, NEW q \in Orders(S)
    PROVE  q \in Seq(Clients) /\ Distinct(q) /\ Elements(q) = S
<1> DEFINE n == Cardinality(S)
<1>1. IsFiniteSet(S) /\ n \in Nat
  BY MessagesAssumption, FS_Subset, FS_CardinalityType
<1>2. q \in [1..n -> S] /\ q \in Seq(Clients) /\ Len(q) = n
  BY <1>1 DEF Orders
<1>3. Elements(q) = S
  BY DEF Orders
<1>4. q \in Surjection(1..n, S)
  BY <1>2, <1>3 DEF Surjection, Elements
<1>5. IsFiniteSet(1..n) /\ Cardinality(1..n) = n
  BY <1>1, FS_Interval
<1>6. q \in Injection(1..n, S)
  BY <1>1, <1>4, <1>5, FS_SurjSameCardinalityImpliesInj
<1>7. Distinct(q)
  BY <1>2, <1>6 DEF Distinct, Injection, IsInjective
<1> QED
  BY <1>2, <1>3, <1>7

\* Without takes one element out and keeps the others, once each.
LEMMA WithoutProperties ==
    ASSUME NEW q \in Seq(Clients), Distinct(q), NEW c
    PROVE  /\ Without(q, c) \in Seq(Clients)
           /\ Distinct(Without(q, c))
           /\ Elements(Without(q, c)) = Elements(q) \ {c}
<1>1. CASE c \notin Elements(q)
  BY <1>1 DEF Without
<1>2. CASE c \in Elements(q)
  <2> DEFINE k == CHOOSE i \in 1..Len(q) : q[i] = c
             w == [i \in 1..(Len(q) - 1) |-> q[IF i < k THEN i ELSE i + 1]]
  <2>1. k \in 1..Len(q) /\ q[k] = c
    BY <1>2 DEF Elements
  <2>2. Without(q, c) = w
    BY <1>2 DEF Without
  <2> HIDE DEF k
  <2>3. w \in Seq(Clients) /\ Len(w) = Len(q) - 1
    BY <2>1
  <2>4. Distinct(w)
    BY <2>1, <2>3 DEF Distinct
  <2>5. Elements(w) \subseteq Elements(q) \ {c}
    <3>1. ASSUME NEW i \in 1..Len(w) PROVE w[i] \in Elements(q) /\ w[i] # c
      <4> DEFINE j == IF i < k THEN i ELSE i + 1
      <4>1. j \in 1..Len(q) /\ j # k /\ w[i] = q[j]
        BY <2>1, <2>3
      <4> QED
        BY <2>1, <4>1 DEF Elements, Distinct
    <3> QED
      BY <3>1 DEF Elements
  <2>6. ASSUME NEW x \in Elements(q) \ {c} PROVE x \in Elements(w)
    <3>1. PICK i \in 1..Len(q) : q[i] = x
      BY DEF Elements
    <3>2. i # k
      BY <2>1, <3>1
    <3>3. CASE i < k
      <4>1. i \in 1..(Len(q) - 1)
        BY <2>1, <3>1, <3>3
      <4>2. w[i] = x
        BY <2>3, <3>1, <3>3, <4>1
      <4> QED
        BY <2>3, <4>1, <4>2 DEF Elements
    <3>4. CASE i > k
      <4>1. i - 1 \in 1..(Len(q) - 1) /\ ~(i - 1 < k)
        BY <2>1, <3>1, <3>4
      <4>2. w[i - 1] = x
        BY <2>3, <3>1, <4>1
      <4> QED
        BY <2>3, <4>1, <4>2 DEF Elements
    <3> QED
      BY <2>1, <3>1, <3>2, <3>3, <3>4
  <2> QED
    BY <2>2, <2>3, <2>4, <2>5, <2>6
<1> QED
  BY <1>1, <1>2

-----------------------------------------------------------------------------
(* Types and membership.                                                   *)

\* A task is where its type of message takes it; once it has the round robin lock
\* the index has moved.
Placed(m) ==
    /\ pc[m] = "route" => TypeOf[m] # "Direct"
    /\ pc[m] = "lock" => TypeOf[m] = "RoundRobin"
    /\ pc[m] = "element" => TypeOf[m] \in {"Random", "RoundRobin"}
    /\ HasLock(m) => rrIndex # -1

\* The registry holds a client once; a task knows only members as stayers.
MembersInv ==
    /\ TypeOK
    /\ Distinct(values)
    /\ \A m \in Messages : Placed(m)
    /\ \A m \in Messages : stayed[m] \subseteq Members

\* MembersInv holds initially.
LEMMA MembersInit == Init => MembersInv
<1> SUFFICES ASSUME Init PROVE MembersInv
  OBVIOUS
<1>1. values \in Seq(Clients) /\ Distinct(values)
  BY OrdersAreDistinct DEF Init
<1>2. /\ todo \in [Messages -> Seq(Clients)]
      /\ replies \in [Messages -> Seq({"ack", "error"})]
      /\ sent \in [Messages -> Seq(Frames)]
  BY DEF Init
<1>3. pc \in [Messages -> Labels] /\ reciever \in [Messages -> Clients]
  BY MessagesAssumption DEF Init, Labels
<1>4. TypeOK
  BY <1>1, <1>2, <1>3 DEF Init, TypeOK
<1> QED
  BY <1>1, <1>4 DEF Init, MembersInv, Placed, HasLock

\* Removing a client keeps MembersInv.
LEMMA RemoveKeepsMembers ==
    ASSUME MembersInv, NEW c \in Clients, Remove(c)
    PROVE  /\ values' \in Seq(Clients) /\ Distinct(values')
           /\ stayed' \in [Messages -> SUBSET Clients]
           /\ \A m \in Messages : stayed'[m] \subseteq Members'
           /\ Members' = Members \ {c}
           /\ changed' \in BOOLEAN
           /\ ~changed' => ~changed /\ values' = values
<1>1. values' \in Seq(Clients) /\ Distinct(values') /\ Members' = Members \ {c}
  BY WithoutProperties DEF MembersInv, TypeOK, Remove, Members
<1>2. c \notin Members => values' = values
  BY DEF Remove, Without, Members
<1> QED
  BY <1>1, <1>2 DEF MembersInv, TypeOK, Remove

\* Every step keeps MembersInv.
LEMMA MembersStep == MembersInv /\ [Next]_vars => MembersInv'
<1> SUFFICES ASSUME MembersInv, [Next]_vars PROVE MembersInv'
  OBVIOUS
<1> USE MessagesAssumption DEF MembersInv, TypeOK, taskVars, history, GoTo, Labels,
        Placed, HasLock
<1>1. ASSUME NEW c \in Clients, Join(c) PROVE MembersInv'
  <2>1. Members \union {c} \in SUBSET Clients
    BY DEF Members, Elements
  <2>2. values' \in Seq(Clients) /\ Distinct(values') /\ Members' = Members \union {c}
    BY <1>1, <2>1, OrdersAreDistinct DEF Join, Members
  <2> QED
    BY <1>1, <2>2 DEF Join
<1>2. ASSUME NEW c \in Clients, Leave(c) PROVE MembersInv'
  <2>1. Remove(c)
    BY <1>2 DEF Leave
  <2> QED
    BY <1>2, <2>1, RemoveKeepsMembers DEF Leave
<1>3. ASSUME NEW m \in Messages, Receive(m) PROVE MembersInv'
  <2>1. Members \subseteq Clients
    BY DEF Members, Elements
  <2>2. pc' \in [Messages -> Labels] /\ todo' \in [Messages -> Seq(Clients)]
    <3>1. AckFirst(m, "send") \in Labels /\ AckFirst(m, "route") \in Labels
      BY DEF AckFirst
    <3>2. <<TargetOf[m]>> \in Seq(Clients)
      OBVIOUS
    <3>3. \E l \in Labels : GoTo(m, l)
      BY <1>3, <3>1 DEF Receive
    <3>4. todo' = todo \/ todo' = [todo EXCEPT ![m] = <<TargetOf[m]>>]
      BY <1>3 DEF Receive
    <3>5. pc' \in [Messages -> Labels]
      BY <3>3
    <3>6. todo' \in [Messages -> Seq(Clients)]
      BY <3>2, <3>4
    <3> QED
      BY <3>5, <3>6
  <2>3. stayed' \in [Messages -> SUBSET Clients]
    BY <1>3, <2>1 DEF Receive
  <2>4. \A k \in Messages : Placed(k)'
    BY <1>3 DEF Receive, AckFirst
  <2>5. \A k \in Messages : stayed'[k] \subseteq Members'
    BY <1>3 DEF Receive, Members
  <2> QED
    BY <1>3, <2>2, <2>3, <2>4, <2>5 DEF Receive
<1>4. ASSUME NEW m \in Messages, Reply(m) PROVE MembersInv'
  <2>1. pc' \in [Messages -> Labels]
    BY <1>4 DEF Reply, AfterReply
  <2>a. \A k \in Messages : Placed(k)'
    BY <1>4 DEF Reply, AfterReply
  <2>2. CASE replies' = [replies EXCEPT ![m] = Append(@, pc[m])] /\
             UNCHANGED <<values, stayed, changed, failedTo>>
    <3>1. replies' \in [Messages -> Seq({"ack", "error"})]
      BY <1>4, <2>2 DEF Reply
    <3> QED
      BY <1>4, <2>1, <2>a, <2>2, <3>1 DEF Reply, Members
  <2>3. CASE WriteFails(m, SenderOf[m]) /\ UNCHANGED replies
    <3>1. Remove(SenderOf[m]) /\ failedTo' \in [Messages -> SUBSET Clients]
      BY <2>3 DEF WriteFails
    <3> QED
      BY <1>4, <2>1, <2>a, <2>3, <3>1, RemoveKeepsMembers DEF Reply
  <2> QED
    BY <1>4, <2>2, <2>3 DEF Reply
<1>5. ASSUME NEW m \in Messages, Snapshot(m) PROVE MembersInv'
  <2>1. Without(values, SenderOf[m]) \in Seq(Clients)
    BY WithoutProperties
  <2> QED
    BY <1>5, <2>1 DEF Snapshot, Members
<1>6. ASSUME NEW m \in Messages, NobodyLeft(m) \/ Draw(m) \/ WantLock(m)
      PROVE MembersInv'
  <2>1. CASE NobodyLeft(m)
    BY <2>1 DEF NobodyLeft, Members
  <2>2. CASE Draw(m)
    <3>1. index' \in [Messages -> Nat]
      BY <2>2 DEF Draw
    <3>2. pc' \in [Messages -> Labels] /\ \A k \in Messages : Placed(k)'
      BY <2>2 DEF Draw
    <3> QED
      BY <2>2, <3>1, <3>2 DEF Draw, Members
  <2>3. CASE WantLock(m)
    BY <2>3 DEF WantLock, Members
  <2> QED
    BY <1>6, <2>1, <2>2, <2>3
<1>7. ASSUME NEW m \in Messages, Advance(m) PROVE MembersInv'
  <2>1. rrIndex' \in Nat
    BY <1>7 DEF Advance, NextIndex
  <2>2. \A k \in Messages : Placed(k)'
    <3>1. TypeOf[m] = "RoundRobin" /\ pc'[m] = "element" /\ rrIndex' # -1
      BY <1>7, <2>1 DEF Advance
    <3>2. \A k \in Messages \ {m} : pc'[k] = pc[k]
      BY <1>7 DEF Advance
    <3> QED
      BY <3>1, <3>2
  <2>3. pc' \in [Messages -> Labels]
    BY <1>7 DEF Advance
  <2> QED
    BY <1>7, <2>1, <2>2, <2>3 DEF Advance, Members
<1>8. ASSUME NEW m \in Messages, ElementAt(m) PROVE MembersInv'
  <2> DEFINE i == IF TypeOf[m] = "Random" THEN index[m] ELSE rrIndex
  <2>1. pc' \in [Messages -> Labels] /\ \A k \in Messages : Placed(k)'
    BY <1>8 DEF ElementAt, Retry
  <2>2. CASE i < Len(values)
    <3>1. pc[m] = "element" /\ i \in Nat
      BY <1>8 DEF ElementAt
    <3>2. values[i + 1] \in Clients /\ <<values[i + 1]>> \in Seq(Clients)
      BY <2>2, <3>1
    <3>3. todo' = [todo EXCEPT ![m] = <<values[i + 1]>>]
      BY <1>8, <2>2, <3>1 DEF ElementAt
    <3>4. picks' \in [Clients -> Nat]
      <4>1. PICK c \in Clients : picks' = picks \/ picks' = [picks EXCEPT ![c] = @ + 1]
        BY <1>8, <2>2, <3>1, <3>2 DEF ElementAt
      <4>2. picks[c] + 1 \in Nat
        OBVIOUS
      <4> QED
        BY <4>1, <4>2
    <3>5. todo' \in [Messages -> Seq(Clients)]
      BY <3>2, <3>3
    <3> QED
      BY <1>8, <2>1, <3>4, <3>5 DEF ElementAt, Members
  <2>3. CASE ~(i < Len(values))
    BY <1>8, <2>1, <2>3 DEF ElementAt, Members
  <2> QED
    BY <2>2, <2>3
<1>9. ASSUME NEW m \in Messages, Address(m) PROVE MembersInv'
  BY <1>9 DEF Address, Members
<1>10. ASSUME NEW m \in Messages, NEW c \in Clients, Write(m, c)
       PROVE MembersInv'
  <2>1. pc' \in [Messages -> Labels]
    BY <1>10 DEF Write, AfterWrite
  <2>a. \A k \in Messages : Placed(k)'
    BY <1>10 DEF Write, AfterWrite
  <2>2. CASE /\ sent' = [sent EXCEPT ![m] = Append(@, [to |-> c, reciever |-> reciever[m]])]
             /\ UNCHANGED <<values, stayed, changed, failedTo>>
    <3>1. sent' \in [Messages -> Seq(Frames)]
      <4>1. [to |-> c, reciever |-> reciever[m]] \in Frames
        BY DEF Frames
      <4> QED
        BY <2>2, <4>1
    <3> QED
      BY <1>10, <2>1, <2>a, <2>2, <3>1 DEF Write, Members
  <2>3. CASE WriteFails(m, c) /\ UNCHANGED sent
    <3>1. Remove(c) /\ failedTo' \in [Messages -> SUBSET Clients]
      BY <2>3 DEF WriteFails
    <3> QED
      BY <1>10, <2>1, <2>a, <2>3, <3>1, RemoveKeepsMembers DEF Write
  <2> QED
    BY <1>10, <2>2, <2>3 DEF Write
<1>11. CASE UNCHANGED vars
  BY <1>11 DEF vars, Members
<1> QED
  BY <1>1, <1>2, <1>3, <1>4, <1>5, <1>6, <1>7, <1>8, <1>9, <1>10, <1>11
  DEF Next, Task

\* Type correctness: every variable of a network keeps its type.
THEOREM TypeCorrect == Spec => []TypeOK
<1>1. MembersInv => TypeOK
  BY DEF MembersInv
<1> QED
  BY <1>1, MembersInit, MembersStep, PTL DEF Spec

-----------------------------------------------------------------------------
(* Addressing and delivery.                                                *)

\* The clients a task has still to serve, the one it is serving and those it has
\* served are different clients, and each is served once.
Delivery(m) ==
    /\ Distinct(todo[m])
    /\ writing[m] \subseteq {reciever[m]}
    /\ Elements(todo[m]) \intersect (writing[m] \union Receivers(m)) = {}
    /\ writing[m] \intersect Receivers(m) = {}
    /\ \A i \in 1..Len(sent[m]) : sent[m][i].reciever = sent[m][i].to
    /\ \A i, j \in 1..Len(sent[m]) : sent[m][i].to = sent[m][j].to => i = j

\* Where the task is, it has that much to do.
Progress(m) ==
    /\ pc[m] \notin {"send", "done"} => sent[m] = <<>> /\ writing[m] = {}
    /\ pc[m] \notin {"ack", "send"} => todo[m] = <<>> /\ writing[m] = {}
    /\ pc[m] = "ack" => (TypeOf[m] = "Direct" <=> todo[m] # <<>>)

\* A broadcast is not for its sender; any other message is for one client, which
\* is the one a Direct message names.
Audience(m) ==
    /\ TypeOf[m] = "Broadcast" =>
          SenderOf[m] \notin Elements(todo[m]) \union writing[m] \union Receivers(m)
    /\ TypeOf[m] # "Broadcast" =>
          /\ Len(todo[m]) <= 1
          /\ Len(sent[m]) <= 1
          /\ todo[m] # <<>> => writing[m] = {} /\ sent[m] = <<>>
          /\ writing[m] # {} => sent[m] = <<>>
    /\ TypeOf[m] = "Direct" => todo[m] \in {<<>>, <<TargetOf[m]>>}

Sound(m) == Delivery(m) /\ Progress(m) /\ Audience(m)

DeliveryInv == MembersInv /\ \A m \in Messages : Sound(m)

\* What a step leaves alone stays sound.
LEMMA SoundFrame ==
    ASSUME NEW m \in Messages, Sound(m), pc'[m] = pc[m], todo'[m] = todo[m],
           reciever'[m] = reciever[m], writing'[m] = writing[m],
           sent'[m] = sent[m]
    PROVE  Sound(m)'
BY DEF Sound, Delivery, Progress, Audience, Receivers

\* The rest of a sequence without repetition lacks just its head.
LEMMA TailProperties ==
    ASSUME NEW q \in Seq(Clients), q # <<>>, Distinct(q)
    PROVE  /\ Head(q) \in Elements(q)
           /\ Distinct(Tail(q))
           /\ Elements(Tail(q)) = Elements(q) \ {Head(q)}
<1>1. Len(q) \in Nat \ {0} /\ Head(q) = q[1] /\ Len(Tail(q)) = Len(q) - 1
  OBVIOUS
<1>2. \A i \in 1..(Len(q) - 1) : Tail(q)[i] = q[i + 1]
  OBVIOUS
<1>3. Head(q) \in Elements(q) /\ Distinct(Tail(q))
  BY <1>1, <1>2 DEF Distinct, Elements
<1>4. Elements(Tail(q)) \subseteq Elements(q) \ {Head(q)}
  BY <1>1, <1>2 DEF Distinct, Elements
<1>5. ASSUME NEW x \in Elements(q) \ {Head(q)} PROVE x \in Elements(Tail(q))
  <2>1. PICK i \in 1..Len(q) : q[i] = x
    BY DEF Elements
  <2>2. i # 1
    BY <1>1, <2>1
  <2>3. i - 1 \in 1..Len(Tail(q)) /\ Tail(q)[i - 1] = x
    BY <1>1, <1>2, <2>1, <2>2
  <2> QED
    BY <2>3 DEF Elements
<1> QED
  BY <1>3, <1>4, <1>5

\* DeliveryInv holds initially.
LEMMA DeliveryInit == Init => DeliveryInv
<1> SUFFICES ASSUME Init, NEW m \in Messages PROVE Sound(m)
  BY MembersInit DEF DeliveryInv
<1>1. pc[m] = "new" /\ todo[m] = <<>> /\ writing[m] = {} /\ sent[m] = <<>>
  BY DEF Init
<1> QED
  BY <1>1 DEF Sound, Delivery, Progress, Audience, Receivers, Elements, Distinct

\* A new task, a task that replied or looked for a client of its own choice has
\* delivered nothing: it stays sound.
LEMMA PrepareKeepsSound ==
    ASSUME DeliveryInv, NEW m \in Messages,
           Receive(m) \/ Reply(m) \/ Snapshot(m) \/ NobodyLeft(m) \/ Draw(m)
             \/ WantLock(m) \/ Advance(m) \/ ElementAt(m)
    PROVE  \A k \in Messages : Sound(k)'
<1> USE DEF GoTo
<1>1. Sound(m) /\ MembersInv /\ TypeOK
  BY DEF DeliveryInv, MembersInv
<1>2. sent[m] = <<>> /\ writing[m] = {} /\ pc[m] \in Labels \ {"send", "done"}
  BY <1>1 DEF TypeOK, Labels, Sound, Progress, Receive, Reply, Snapshot, NobodyLeft, Draw,
        WantLock, Advance, ElementAt
<1>3. sent' = sent /\ writing' = writing /\ reciever' = reciever
  BY DEF Receive, Reply, Snapshot, NobodyLeft, Draw, WantLock, Advance, ElementAt, history
<1>4. \A k \in Messages \ {m} : pc'[k] = pc[k] /\ todo'[k] = todo[k]
  BY <1>1 DEF TypeOK, Receive, Reply, Snapshot, NobodyLeft, Draw, WantLock, Advance,
        ElementAt
<1>5. ASSUME NEW k \in Messages \ {m} PROVE Sound(k)'
  <2>1. Sound(k)
    BY DEF DeliveryInv
  <2> QED
    BY <1>3, <1>4, <2>1, SoundFrame
\* What is left to show about the task itself.
<1>6. SUFFICES /\ todo'[m] \in Seq(Clients)
               /\ Distinct(todo'[m])
               /\ TypeOf[m] = "Broadcast" => SenderOf[m] \notin Elements(todo'[m])
               /\ TypeOf[m] # "Broadcast" => Len(todo'[m]) <= 1
               /\ TypeOf[m] = "Direct" => todo'[m] \in {<<>>, <<TargetOf[m]>>}
               /\ pc'[m] \notin {"ack", "send"} => todo'[m] = <<>>
               /\ pc'[m] = "ack" => (TypeOf[m] = "Direct" <=> todo'[m] # <<>>)
  <2>1. /\ sent'[m] = <<>> /\ writing'[m] = {} /\ Receivers(m)' = {}
    BY <1>2, <1>3 DEF Receivers
  <2>2. Delivery(m)'
    BY <1>6, <2>1 DEF Delivery
  <2>3. Progress(m)' /\ Audience(m)'
    BY <1>6, <2>1 DEF Progress, Audience
  <2> QED
    BY <1>5, <2>2, <2>3 DEF Sound
<1>7. todo[m] \in Seq(Clients) /\ Distinct(todo[m])
  BY <1>1 DEF TypeOK, Sound, Delivery
<1>8. CASE todo'[m] = <<>> /\ ~(pc'[m] = "ack" /\ TypeOf[m] = "Direct")
  BY <1>8 DEF Distinct, Elements
<1>9. CASE Receive(m)
  <2>1. CASE todo' = todo /\ (TypeOf[m] # "Direct" \/ GoTo(m, "error"))
    <3>1. todo'[m] = <<>>
      BY <1>1, <1>9, <2>1 DEF Sound, Progress, Receive
    <3>2. ~(pc'[m] = "ack" /\ TypeOf[m] = "Direct")
      BY <1>1, <2>1 DEF TypeOK
    <3> QED
      BY <1>8, <3>1, <3>2
  <2>2. CASE /\ TypeOf[m] = "Direct" /\ todo' = [todo EXCEPT ![m] = <<TargetOf[m]>>]
             /\ GoTo(m, AckFirst(m, "send"))
    <3>1. todo'[m] = <<TargetOf[m]>> /\ TargetOf[m] \in Clients
      BY <1>1, <2>2, MessagesAssumption DEF TypeOK
    <3>2. pc'[m] \in {"ack", "send"}
      BY <1>1, <2>2 DEF TypeOK, AckFirst
    <3>3. todo'[m] \in Seq(Clients) /\ Len(todo'[m]) = 1 /\ todo'[m] # <<>>
      BY <3>1
    <3>4. Distinct(todo'[m])
      BY <3>3 DEF Distinct
    <3>5. TypeOf[m] = "Direct"
      BY <2>2
    <3> QED
      BY <3>1, <3>2, <3>3, <3>4, <3>5
  <2> QED
    BY <1>9, <2>1, <2>2 DEF Receive
<1>10. CASE Reply(m)
  <2>1. todo'[m] = todo[m] /\ pc'[m] = AfterReply(m) /\ pc[m] \in {"ack", "error"}
    BY <1>1, <1>10 DEF Reply, TypeOK
  <2>2. CASE pc[m] = "error" \/ TypeOf[m] # "Direct"
    <3>1. todo'[m] = <<>> /\ pc'[m] # "ack"
      BY <1>1, <2>1, <2>2 DEF AfterReply, Sound, Progress
    <3> QED
      BY <1>8, <3>1
  <2>3. CASE pc[m] = "ack" /\ TypeOf[m] = "Direct"
    <3>1. /\ pc'[m] = "send" /\ Len(todo'[m]) <= 1
          /\ todo'[m] \in {<<>>, <<TargetOf[m]>>}
      BY <1>1, <2>1, <2>3 DEF AfterReply, Sound, Audience
    <3> QED
      BY <1>7, <2>1, <2>3, <3>1
  <2> QED
    BY <2>1, <2>2, <2>3
<1>11. CASE Snapshot(m)
  <2>1. todo'[m] = Without(values, SenderOf[m])
    BY <1>1, <1>11 DEF Snapshot, TypeOK
  <2>2. /\ todo'[m] \in Seq(Clients) /\ Distinct(todo'[m])
        /\ SenderOf[m] \notin Elements(todo'[m])
    BY <1>1, <2>1, WithoutProperties DEF MembersInv, TypeOK
  <2>3. TypeOf[m] = "Broadcast" /\ pc'[m] = IF todo'[m] = <<>> THEN "done" ELSE "send"
    BY <1>1, <1>11 DEF Snapshot, TypeOK
  <2> QED
    BY <1>8, <2>2, <2>3
<1>12. CASE NobodyLeft(m) \/ Draw(m) \/ WantLock(m) \/ Advance(m)
  <2>1. todo' = todo /\ pc[m] \in {"route", "lock"} /\ pc'[m] # "ack"
    BY <1>1, <1>12 DEF NobodyLeft, Draw, WantLock, Advance, TypeOK
  <2> QED
    BY <1>1, <1>8, <2>1 DEF Sound, Progress
<1>13. CASE ElementAt(m)
  <2>1. CASE UNCHANGED todo
    <3>1. pc'[m] # "ack"
      BY <1>1, <1>13 DEF ElementAt, Retry, TypeOK
    <3> QED
      BY <1>1, <1>8, <1>13, <2>1, <3>1 DEF Sound, Progress, ElementAt
  <2>2. CASE ~UNCHANGED todo
    <3> DEFINE i == IF TypeOf[m] = "Random" THEN index[m] ELSE rrIndex
    <3>1. /\ i < Len(values) /\ todo' = [todo EXCEPT ![m] = <<values[i + 1]>>]
          /\ GoTo(m, "send") /\ pc[m] = "element"
      BY <1>13, <2>2 DEF ElementAt
    <3>2. i \in Nat /\ TypeOf[m] \notin {"Direct", "Broadcast"}
      BY <1>1, <3>1 DEF MembersInv, Placed, TypeOK, HasLock
    <3>3. values[i + 1] \in Clients
      BY <1>1, <3>1, <3>2 DEF TypeOK
    <3>4. todo'[m] = <<values[i + 1]>> /\ pc'[m] = "send"
      BY <1>1, <3>1 DEF TypeOK
    <3> HIDE DEF i
    <3> QED
      BY <3>2, <3>3, <3>4 DEF Distinct
  <2> QED
    BY <2>1, <2>2
<1> QED
  BY <1>9, <1>10, <1>11, <1>12, <1>13

\* Addressing the next client keeps a task sound.
LEMMA AddressKeepsSound ==
    ASSUME DeliveryInv, NEW m \in Messages, Address(m)
    PROVE  \A k \in Messages : Sound(k)'
<1>1. Sound(m) /\ TypeOK
  BY DEF DeliveryInv, MembersInv
<1>2. ASSUME NEW k \in Messages \ {m} PROVE Sound(k)'
  <2>1. Sound(k)
    BY DEF DeliveryInv
  <2>2. /\ pc'[k] = pc[k] /\ todo'[k] = todo[k] /\ reciever'[k] = reciever[k]
        /\ writing'[k] = writing[k] /\ sent'[k] = sent[k]
    BY <1>1 DEF Address, TypeOK, history
  <2> QED
    BY <2>1, <2>2, SoundFrame
<1> DEFINE c == Head(todo[m])
<1>3. /\ pc'[m] = "send" /\ reciever'[m] = c /\ writing'[m] = {c} /\ writing[m] = {}
      /\ todo'[m] = Tail(todo[m]) /\ sent'[m] = sent[m] /\ todo[m] # <<>>
  BY <1>1 DEF Address, TypeOK, history
<1>4. todo[m] \in Seq(Clients) /\ Distinct(todo[m])
  BY <1>1 DEF TypeOK, Sound, Delivery
<1>5. /\ c \in Elements(todo[m]) /\ Distinct(todo'[m])
      /\ Elements(todo'[m]) = Elements(todo[m]) \ {c}
  BY <1>3, <1>4, TailProperties
<1>6. Receivers(m)' = Receivers(m)
  BY <1>3 DEF Receivers
<1>7. Delivery(m)'
  BY <1>1, <1>3, <1>5, <1>6 DEF Sound, Delivery
<1>8. Progress(m)'
  BY <1>3 DEF Progress
<1>9. Audience(m)'
  <2>1. CASE TypeOf[m] = "Broadcast"
    BY <1>1, <1>3, <1>5, <1>6, <2>1 DEF Sound, Audience
  <2>2. CASE TypeOf[m] # "Broadcast"
    <3>1. sent[m] = <<>> /\ Len(todo[m]) <= 1
      BY <1>1, <1>3, <2>2 DEF Sound, Audience
    <3>2. todo'[m] = <<>>
      BY <1>3, <1>4, <3>1
    <3> QED
      BY <1>3, <2>2, <3>1, <3>2 DEF Audience
  <2> QED
    BY <2>1, <2>2
<1> QED
  BY <1>2, <1>7, <1>8, <1>9 DEF Sound

\* Writing a frame to a client makes it a receiver.
LEMMA WrittenIsReceiver ==
    ASSUME TypeOK, NEW m \in Messages, NEW c \in Clients,
           sent' = [sent EXCEPT ![m] = Append(@, [to |-> c, reciever |-> reciever[m]])]
    PROVE  Receivers(m)' = Receivers(m) \union {c}
<1> DEFINE f == [to |-> c, reciever |-> reciever[m]]
           n == Len(sent[m])
<1>1. f.to = c
  OBVIOUS
<1>2. f \in Frames /\ sent[m] \in Seq(Frames)
  BY DEF Frames, TypeOK
<1>3. sent'[m] = Append(sent[m], f)
  BY DEF TypeOK
<1> HIDE DEF f
<1>4. /\ Len(sent'[m]) = n + 1 /\ n \in Nat /\ sent'[m][n + 1] = f
      /\ \A i \in 1..n : sent'[m][i] = sent[m][i]
  BY <1>2, <1>3
<1> QED
  BY <1>1, <1>4 DEF Receivers

\* Writing to the addressed client keeps a task sound, whether it fails or not.
LEMMA WriteKeepsSound ==
    ASSUME DeliveryInv, NEW m \in Messages, NEW c \in Clients, Write(m, c)
    PROVE  \A k \in Messages : Sound(k)'
<1> USE DEF GoTo
<1>1. Sound(m) /\ TypeOK
  BY DEF DeliveryInv, MembersInv
<1>2. ASSUME NEW k \in Messages \ {m} PROVE Sound(k)'
  <2>1. Sound(k)
    BY DEF DeliveryInv
  <2>2. /\ pc'[k] = pc[k] /\ todo'[k] = todo[k] /\ reciever'[k] = reciever[k]
        /\ writing'[k] = writing[k] /\ sent'[k] = sent[k]
    BY <1>1 DEF Write, TypeOK
  <2> QED
    BY <2>1, <2>2, SoundFrame
<1>3. pc[m] = "send" /\ c = reciever[m] /\ writing[m] = {c}
  BY <1>1 DEF Sound, Delivery, Progress, Write
<1>4. /\ pc'[m] = (IF todo[m] = <<>> THEN "done" ELSE "send") /\ writing'[m] = {}
      /\ todo'[m] = todo[m] /\ reciever'[m] = reciever[m]
  BY <1>1, <1>3 DEF Write, AfterWrite, TypeOK
<1>5. Progress(m)'
  BY <1>4 DEF Progress
<1>6. CASE UNCHANGED sent
  <2>1. Receivers(m)' = Receivers(m) /\ sent'[m] = sent[m]
    BY <1>6 DEF Receivers
  <2>2. Delivery(m)'
    BY <1>1, <1>4, <2>1 DEF Sound, Delivery
  <2>3. Audience(m)'
    BY <1>1, <1>4, <2>1 DEF Sound, Audience
  <2> QED
    BY <1>2, <1>5, <2>2, <2>3 DEF Sound
<1>7. CASE sent' = [sent EXCEPT ![m] = Append(@, [to |-> c, reciever |-> reciever[m]])]
  <2> DEFINE f == [to |-> c, reciever |-> reciever[m]]
             n == Len(sent[m])
  <2>1. f \in Frames /\ f.to = c /\ f.reciever = c /\ sent[m] \in Seq(Frames) /\ n \in Nat
    <3>1. f.to = c /\ f.reciever = c /\ f \in Frames
      BY <1>3 DEF Frames
    <3>2. sent[m] \in Seq(Frames)
      BY <1>1 DEF TypeOK
    <3> QED
      BY <3>1, <3>2
  <2>2. sent'[m] = Append(sent[m], f)
    BY <1>1, <1>7 DEF TypeOK
  <2> HIDE DEF f
  <2>3. /\ Len(sent'[m]) = n + 1 /\ sent'[m][n + 1] = f
        /\ \A i \in 1..n : sent'[m][i] = sent[m][i]
    BY <2>1, <2>2
  <2>4. Receivers(m)' = Receivers(m) \union {c}
    BY <1>1, <1>7, WrittenIsReceiver
  <2>5. \A i \in 1..n : sent[m][i].to # c
    BY <1>1, <1>3 DEF Sound, Delivery, Receivers
  <2>6. Delivery(m)'
    <3>1. \A i \in 1..Len(sent'[m]) : sent'[m][i].reciever = sent'[m][i].to
      BY <1>1, <2>1, <2>3 DEF Sound, Delivery
    <3>2. ASSUME NEW i \in 1..Len(sent'[m]), NEW j \in 1..Len(sent'[m]),
                 sent'[m][i].to = sent'[m][j].to
          PROVE  i = j
      <4>1. CASE i \in 1..n /\ j \in 1..n
        BY <1>1, <2>3, <3>2, <4>1 DEF Sound, Delivery
      <4>a. n \in Nat /\ i \in 1..(n + 1) /\ j \in 1..(n + 1)
        BY <2>1, <2>3
      <4>b. /\ sent'[m][n + 1].to = c
            /\ \A l \in 1..n : sent'[m][l].to # c
        BY <2>1, <2>3, <2>5
      <4> HIDE DEF n
      <4>2. CASE i = n + 1 /\ j \in 1..n
        BY <3>2, <4>a, <4>b, <4>2
      <4>3. CASE j = n + 1 /\ i \in 1..n
        BY <3>2, <4>a, <4>b, <4>3
      <4> QED
        BY <4>a, <4>1, <4>2, <4>3
    <3>3. Elements(todo[m]) \intersect (Receivers(m) \union {c}) = {} /\ Distinct(todo[m])
      BY <1>1, <1>3 DEF Sound, Delivery
    <3> QED
      BY <1>4, <2>4, <3>1, <3>2, <3>3 DEF Delivery
  <2>7. Audience(m)'
    <3>1. CASE TypeOf[m] = "Broadcast"
      BY <1>1, <1>3, <1>4, <2>4, <3>1 DEF Sound, Audience
    <3>2. CASE TypeOf[m] # "Broadcast"
      <4>1. todo[m] = <<>> /\ sent[m] = <<>>
        BY <1>1, <1>3, <3>2 DEF Sound, Audience
      <4>2. Len(sent'[m]) = 1 /\ todo'[m] = <<>>
        BY <1>4, <2>3, <4>1
      <4> QED
        BY <1>4, <3>2, <4>2 DEF Audience
    <3> QED
      BY <3>1, <3>2
  <2> QED
    BY <1>2, <1>5, <2>6, <2>7 DEF Sound
<1> QED
  BY <1>6, <1>7 DEF Write

\* Every step keeps DeliveryInv.
LEMMA DeliveryStep == DeliveryInv /\ [Next]_vars => DeliveryInv'
<1> SUFFICES ASSUME DeliveryInv, [Next]_vars PROVE \A k \in Messages : Sound(k)'
  BY MembersStep DEF DeliveryInv
<1>1. ASSUME UNCHANGED taskVars, UNCHANGED sent PROVE \A k \in Messages : Sound(k)'
  BY <1>1, SoundFrame DEF DeliveryInv, taskVars
<1>2. ASSUME NEW c \in Clients, Join(c) \/ Leave(c) PROVE \A k \in Messages : Sound(k)'
  BY <1>1, <1>2 DEF Join, Leave
<1>3. ASSUME NEW m \in Messages, Task(m) PROVE \A k \in Messages : Sound(k)'
  BY <1>3, PrepareKeepsSound, AddressKeepsSound, WriteKeepsSound DEF Task
<1>4. CASE UNCHANGED vars
  BY <1>1, <1>4 DEF vars, history
<1> QED
  BY <1>2, <1>3, <1>4 DEF Next

\* The tasks of a network keep DeliveryInv.
LEMMA DeliveryHolds == Spec => []DeliveryInv
BY DeliveryInit, DeliveryStep, PTL DEF Spec

\* The frame a client gets names that client (Network.SendAsync).
THEOREM FramesNameTheirReceiver == Spec => []FrameNamesReceiver
<1>1. DeliveryInv => FrameNamesReceiver
  BY DEF DeliveryInv, Sound, Delivery, FrameNamesReceiver
<1> QED
  BY <1>1, DeliveryHolds, PTL

\* No message is delivered twice, and no broadcast to its sender.
THEOREM DeliveredAtMostOnce == Spec => []AtMostOnce
<1>1. DeliveryInv => AtMostOnce
  BY DEF DeliveryInv, Sound, Delivery, Audience, AtMostOnce
<1> QED
  BY <1>1, DeliveryHolds, PTL

-----------------------------------------------------------------------------
(* Replies.                                                                *)

\* The sender of m was told that its message arrived, or cannot be told, or did
\* not ask to be.
Told(m) ==
    /\ replies[m] \in {<<>>, <<"ack">>}
    /\ replies[m] = <<>> => m \in NoAck \/ SenderOf[m] \in failedTo[m]

\* A task tells the sender before it goes for the receivers; one that ends after
\* an error has delivered nothing.
Answered(m) ==
    /\ pc[m] \in {"new", "ack", "error"} => replies[m] = <<>>
    /\ pc[m] \in {"route", "lock", "element", "send"} => Told(m)
    /\ pc[m] = "done" => Told(m) \/ sent[m] = <<>>

ReplyInv == DeliveryInv /\ \A m \in Messages : Answered(m)

\* ReplyInv holds initially.
LEMMA ReplyInit == Init => ReplyInv
BY DeliveryInit DEF Init, ReplyInv, Answered

\* A step that neither replies nor loses a failure, and moves a task on only among
\* the steps after the ack, keeps it answered.
LEMMA AnsweredFrame ==
    ASSUME NEW m \in Messages, Answered(m), replies'[m] = replies[m],
           failedTo[m] \subseteq failedTo'[m],
           \/ pc'[m] = pc[m] /\ sent'[m] = sent[m]
           \/ /\ pc[m] \in {"route", "lock", "element", "send"}
              /\ pc'[m] \in {"route", "lock", "element", "send", "done"}
    PROVE  Answered(m)'
BY DEF Answered, Told

\* Every step keeps ReplyInv.
LEMMA ReplyStep == ReplyInv /\ [Next]_vars => ReplyInv'
<1> SUFFICES ASSUME ReplyInv, [Next]_vars PROVE \A k \in Messages : Answered(k)'
  BY DeliveryStep DEF ReplyInv
<1> USE DEF GoTo
<1>1. TypeOK /\ \A k \in Messages : Answered(k) /\ Sound(k)
  BY DEF ReplyInv, DeliveryInv, MembersInv
<1>2. ASSUME UNCHANGED <<pc, replies, sent, failedTo>> PROVE \A k \in Messages : Answered(k)'
  BY <1>1, <1>2, AnsweredFrame
<1>3. ASSUME NEW c \in Clients, Join(c) \/ Leave(c) PROVE \A k \in Messages : Answered(k)'
  BY <1>2, <1>3 DEF Join, Leave, taskVars
<1>4. ASSUME NEW m \in Messages, Task(m), NEW k \in Messages \ {m} PROVE Answered(k)'
  <2>1. CASE \E c \in Clients : Write(m, c)
    BY <1>1, <2>1, AnsweredFrame DEF Write, WriteFails, TypeOK
  <2>2. CASE Reply(m)
    BY <1>1, <2>2, AnsweredFrame DEF Reply, WriteFails, TypeOK
  <2>3. CASE Receive(m) \/ Snapshot(m) \/ NobodyLeft(m) \/ Draw(m) \/ WantLock(m)
               \/ Advance(m) \/ ElementAt(m) \/ Address(m)
    <3>1. pc'[k] = pc[k] /\ UNCHANGED <<replies, sent, failedTo>>
      BY <1>1, <2>3 DEF Receive, Snapshot, NobodyLeft, Draw, WantLock, Advance,
            ElementAt, Address, history, TypeOK
    <3> QED
      BY <1>1, <3>1, AnsweredFrame
  <2> QED
    BY <1>4, <2>1, <2>2, <2>3 DEF Task
<1>5. ASSUME NEW m \in Messages, Receive(m) PROVE Answered(m)'
  <2>1. /\ pc[m] = "new" /\ replies'[m] = <<>> /\ sent'[m] = sent[m]
        /\ pc'[m] \in {"ack", "error"} \/ (pc'[m] \in {"send", "route"} /\ m \in NoAck)
    BY <1>1, <1>5 DEF Receive, AckFirst, TypeOK, Answered
  <2> QED
    BY <2>1 DEF Answered, Told
<1>6. ASSUME NEW m \in Messages, Reply(m) PROVE Answered(m)'
  <2>1. /\ pc[m] \in {"ack", "error"} /\ replies[m] = <<>> /\ sent[m] = <<>>
        /\ sent'[m] = sent[m]
    BY <1>1, <1>6 DEF Reply, Answered, Sound, Progress
  <2>2. CASE pc[m] = "error"
    <3>1. pc'[m] = "done"
      BY <1>1, <1>6, <2>2 DEF Reply, AfterReply, TypeOK
    <3> QED
      BY <2>1, <3>1 DEF Answered
  <2>3. CASE pc[m] = "ack"
    <3>1. pc'[m] \in {"send", "route"}
      BY <1>1, <1>6, <2>3 DEF Reply, AfterReply, TypeOK
    <3>2. Told(m)'
      <4>1. CASE replies' = [replies EXCEPT ![m] = Append(@, pc[m])]
        <5>1. replies'[m] = <<"ack">>
          BY <1>1, <2>1, <2>3, <4>1 DEF TypeOK
        <5>2. replies'[m] # <<>>
          BY <5>1
        <5> QED
          BY <5>1, <5>2 DEF Told
      <4>2. CASE WriteFails(m, SenderOf[m]) /\ UNCHANGED replies
        BY <1>1, <2>1, <4>2 DEF WriteFails, Told, TypeOK
      <4> QED
        BY <1>6, <4>1, <4>2 DEF Reply
    <3> QED
      BY <3>1, <3>2 DEF Answered
  <2> QED
    BY <2>1, <2>2, <2>3
<1>7. ASSUME NEW m \in Messages,
             \/ Snapshot(m) \/ NobodyLeft(m) \/ Draw(m) \/ WantLock(m) \/ Advance(m)
             \/ ElementAt(m) \/ Address(m)
      PROVE  Answered(m)'
  <2>1. /\ pc[m] \in {"route", "lock", "element", "send"}
        /\ pc'[m] \in {"route", "lock", "element", "send", "done"}
        /\ UNCHANGED <<replies, failedTo>>
    BY <1>1, <1>7 DEF Snapshot, NobodyLeft, Draw, WantLock, Advance, ElementAt, Retry,
          Address, history, TypeOK
  <2> QED
    BY <1>1, <2>1, AnsweredFrame
<1>8. ASSUME NEW m \in Messages, NEW c \in Clients, Write(m, c) PROVE Answered(m)'
  <2>1. pc[m] = "send"
    BY <1>1, <1>8 DEF Write, Sound, Progress, Delivery
  <2>2. pc'[m] \in {"send", "done"} /\ replies' = replies
    BY <1>1, <1>8 DEF Write, AfterWrite, TypeOK
  <2>3. failedTo[m] \subseteq failedTo'[m]
    BY <1>1, <1>8 DEF Write, WriteFails, TypeOK
  <2> QED
    BY <1>1, <2>1, <2>2, <2>3, AnsweredFrame
<1>9. ASSUME NEW m \in Messages, Task(m) PROVE \A k \in Messages : Answered(k)'
  <2>1. Answered(m)'
    BY <1>5, <1>6, <1>7, <1>8, <1>9 DEF Task
  <2> QED
    BY <1>4, <1>9, <2>1
<1>10. CASE UNCHANGED vars
  BY <1>2, <1>10 DEF vars, taskVars, history
<1> QED
  BY <1>3, <1>9, <1>10 DEF Next

\* Nobody gets a message whose sender has not been told first, and none that was
\* refused with an error (Network.ProcessMessage).
THEOREM ReplyComesFirst == Spec => []ReplyBeforeDelivery
<1>1. ReplyInv => ReplyBeforeDelivery
  <2> SUFFICES ASSUME ReplyInv, NEW m \in Messages, Receivers(m) # {} PROVE Told(m)
    BY DEF Told, ReplyBeforeDelivery
  <2>1. sent[m] # <<>>
    BY DEF Receivers
  <2>2. pc[m] \in {"send", "done"}
    BY <2>1 DEF ReplyInv, DeliveryInv, Sound, Progress
  <2> QED
    BY <2>1, <2>2 DEF ReplyInv, Answered
<1> QED
  BY <1>1, ReplyInit, ReplyStep, PTL DEF Spec

-----------------------------------------------------------------------------
(* Completeness.                                                           *)

\* The clients m has reached, is being written to or will be.
Pending(m) == Receivers(m) \union Elements(todo[m]) \union writing[m]

\* Whoever has been a member since the task started is among them, once the task
\* has chosen its receivers.
Served(m) ==
    /\ pc[m] = "new" => stayed[m] = {}
    /\ pc[m] = "error" => TypeOf[m] = "Direct"
    /\ TypeOf[m] = "Broadcast" /\ pc[m] \in {"send", "done"} =>
          stayed[m] \ {SenderOf[m]} \subseteq Pending(m)
    /\ TypeOf[m] = "Direct" /\ TargetOf[m] \in stayed[m] =>
          pc[m] # "error" /\ TargetOf[m] \in Pending(m)
    /\ TypeOf[m] \in {"Random", "RoundRobin"} /\ failedTo[m] = {} =>
          /\ pc[m] = "send" => Pending(m) # {}
          /\ pc[m] = "done" /\ stayed[m] # {} => Pending(m) # {}

ServeInv == DeliveryInv /\ \A m \in Messages : Served(m)

\* ServeInv holds initially.
LEMMA ServeInit == Init => ServeInv
BY DeliveryInit DEF Init, ServeInv, Served

\* A task that does not move stays served: its stayers only become fewer.
LEMMA ServedFrame ==
    ASSUME NEW m \in Messages, Served(m), pc'[m] = pc[m], todo'[m] = todo[m],
           writing'[m] = writing[m], sent'[m] = sent[m],
           stayed'[m] \subseteq stayed[m], failedTo[m] \subseteq failedTo'[m]
    PROVE  Served(m)'
<1>1. Pending(m)' = Pending(m)
  BY DEF Pending, Receivers
<1>2. failedTo'[m] = {} => failedTo[m] = {}
  OBVIOUS
<1>3. stayed'[m] # {} => stayed[m] # {}
  OBVIOUS
<1> QED
  BY <1>1, <1>2, <1>3 DEF Served

\* Every step keeps ServeInv.
LEMMA ServeStep == ServeInv /\ [Next]_vars => ServeInv'
<1> SUFFICES ASSUME ServeInv, [Next]_vars PROVE \A k \in Messages : Served(k)'
  BY DeliveryStep DEF ServeInv
<1> USE DEF GoTo
<1>1. MembersInv /\ TypeOK /\ \A k \in Messages : Served(k) /\ Sound(k)
  BY DEF ServeInv, DeliveryInv, MembersInv
<1>2. ASSUME UNCHANGED <<taskVars, sent, stayed, failedTo>> PROVE \A k \in Messages : Served(k)'
  BY <1>1, <1>2, ServedFrame DEF taskVars
<1>3. ASSUME NEW c \in Clients, Remove(c), NEW k \in Messages PROVE stayed'[k] = stayed[k] \ {c}
  BY <1>1, <1>3 DEF Remove, TypeOK
<1>4. ASSUME NEW c \in Clients, Join(c) \/ Leave(c) PROVE \A k \in Messages : Served(k)'
  <2>1. CASE Join(c)
    BY <1>2, <2>1 DEF Join
  <2>2. CASE Leave(c)
    BY <1>1, <1>3, <2>2, ServedFrame DEF Leave, taskVars
  <2> QED
    BY <1>4, <2>1, <2>2
<1>5. ASSUME NEW m \in Messages, Task(m), NEW k \in Messages \ {m} PROVE Served(k)'
  <2>1. /\ pc'[k] = pc[k] /\ todo'[k] = todo[k] /\ writing'[k] = writing[k]
        /\ sent'[k] = sent[k]
    BY <1>1, <1>5 DEF Task, Receive, Reply, Snapshot, NobodyLeft, Draw, WantLock, Advance,
          ElementAt, Address, Write, history, TypeOK
  <2>2. ASSUME NEW c \in Clients, WriteFails(m, c)
        PROVE  stayed'[k] \subseteq stayed[k] /\ failedTo'[k] = failedTo[k]
    BY <1>1, <1>3, <2>2 DEF WriteFails, TypeOK
  <2>3. CASE \E c \in Clients : Write(m, c)
    BY <1>1, <2>1, <2>2, <2>3, ServedFrame DEF Write
  <2>4. CASE Reply(m)
    <3>1. SenderOf[m] \in Clients
      BY MessagesAssumption
    <3> QED
      BY <1>1, <2>1, <2>2, <2>4, <3>1, ServedFrame DEF Reply
  <2>5. CASE Receive(m)
    <3>1. stayed'[k] = stayed[k] /\ UNCHANGED failedTo
      BY <1>1, <2>5 DEF Receive, TypeOK
    <3> QED
      BY <1>1, <2>1, <3>1, ServedFrame
  <2>6. CASE Snapshot(m) \/ NobodyLeft(m) \/ Draw(m) \/ WantLock(m) \/ Advance(m)
             \/ ElementAt(m) \/ Address(m)
    <3>1. UNCHANGED <<stayed, failedTo>>
      BY <2>6 DEF Snapshot, NobodyLeft, Draw, WantLock, Advance, ElementAt, Address, history
    <3> QED
      BY <1>1, <2>1, <3>1, ServedFrame
  <2> QED
    BY <1>5, <2>3, <2>4, <2>5, <2>6 DEF Task
<1>6. ASSUME NEW m \in Messages, Receive(m) PROVE Served(m)'
  <2>1. stayed'[m] = Members /\ pc[m] = "new" /\ sent' = sent /\ writing' = writing
    BY <1>1, <1>6 DEF Receive, TypeOK
  <2>2. CASE TypeOf[m] = "Direct" /\ TargetOf[m] \in Members
    <3>1. todo'[m] = <<TargetOf[m]>> /\ pc'[m] \in {"ack", "send"}
      BY <1>1, <1>6, <2>2 DEF Receive, AckFirst, TypeOK
    <3>2. TargetOf[m] \in Pending(m)'
      BY <3>1 DEF Pending, Elements
    <3> QED
      BY <2>2, <3>1, <3>2 DEF Served
  <2>3. CASE TypeOf[m] = "Direct" /\ TargetOf[m] \notin Members
    <3>1. pc'[m] = "error"
      BY <1>1, <1>6, <2>3 DEF Receive, TypeOK
    <3> QED
      BY <2>1, <2>3, <3>1 DEF Served
  <2>4. CASE TypeOf[m] # "Direct"
    <3>1. pc'[m] \in {"ack", "route"}
      BY <1>1, <1>6, <2>4 DEF Receive, AckFirst, TypeOK
    <3> QED
      BY <2>4, <3>1 DEF Served
  <2> QED
    BY <2>2, <2>3, <2>4
<1>7. ASSUME NEW m \in Messages, Reply(m) PROVE Served(m)'
  <2>1. Pending(m)' = Pending(m)
    BY <1>7 DEF Reply, Pending, Receivers
  <2>2. stayed'[m] \subseteq stayed[m]
    <3>1. SenderOf[m] \in Clients
      BY MessagesAssumption
    <3> QED
      BY <1>3, <1>7, <3>1 DEF Reply, WriteFails
  <2>3. \/ TypeOf[m] = "Direct" /\ pc[m] = "error" /\ pc'[m] = "done"
        \/ TypeOf[m] = "Direct" /\ pc[m] = "ack" /\ pc'[m] = "send"
        \/ TypeOf[m] # "Direct" /\ pc[m] = "ack" /\ pc'[m] = "route"
    BY <1>1, <1>7 DEF Reply, AfterReply, Served, TypeOK
  <2> QED
    BY <1>1, <2>1, <2>2, <2>3 DEF Served
<1>8. ASSUME NEW m \in Messages, Snapshot(m) PROVE Served(m)'
  <2>1. TypeOf[m] = "Broadcast" /\ pc'[m] \in {"send", "done"} /\ stayed' = stayed
    BY <1>1, <1>8 DEF Snapshot, history, TypeOK
  <2>2. Elements(todo'[m]) = Members \ {SenderOf[m]}
    BY <1>1, <1>8, WithoutProperties DEF Snapshot, MembersInv, TypeOK, Members
  <2>3. stayed[m] \ {SenderOf[m]} \subseteq Pending(m)'
    BY <1>1, <2>2 DEF MembersInv, Pending
  <2> QED
    BY <2>1, <2>3 DEF Served
<1>9. ASSUME NEW m \in Messages, NobodyLeft(m) \/ Draw(m) \/ WantLock(m) \/ Advance(m)
      PROVE  Served(m)'
  <2>1. stayed' = stayed /\ failedTo' = failedTo /\ Pending(m)' = Pending(m)
    BY <1>9 DEF NobodyLeft, Draw, WantLock, Advance, history, Pending, Receivers
  <2>2. TypeOf[m] \in {"Random", "RoundRobin"}
    BY <1>1, <1>9 DEF NobodyLeft, Draw, WantLock, Advance, MembersInv, Placed
  <2>3. CASE NobodyLeft(m)
    <3>1. stayed[m] = {} /\ pc'[m] = "done"
      BY <1>1, <2>3 DEF NobodyLeft, MembersInv, Members, Elements, TypeOK
    <3> QED
      BY <2>1, <2>2, <3>1 DEF Served
  <2>4. CASE Draw(m) \/ WantLock(m) \/ Advance(m)
    <3>1. pc'[m] \in {"element", "lock"}
      BY <1>1, <2>4 DEF Draw, WantLock, Advance, TypeOK
    <3> QED
      BY <2>2, <3>1 DEF Served
  <2> QED
    BY <1>9, <2>3, <2>4
<1>10. ASSUME NEW m \in Messages, ElementAt(m) PROVE Served(m)'
  <2> DEFINE i == IF TypeOf[m] = "Random" THEN index[m] ELSE rrIndex
  <2>1. TypeOf[m] \in {"Random", "RoundRobin"}
    BY <1>1, <1>10 DEF ElementAt, MembersInv, Placed
  <2>2. CASE i < Len(values)
    <3>1. pc'[m] = "send" /\ todo'[m] = <<values[i + 1]>>
      BY <1>1, <1>10, <2>2 DEF ElementAt, TypeOK
    <3>2. values[i + 1] \in Pending(m)'
      BY <3>1 DEF Pending, Elements
    <3>3. Pending(m)' # {}
      BY <3>2
    <3> QED
      BY <2>1, <3>1, <3>3 DEF Served
  <2>3. CASE ~(i < Len(values))
    <3>1. pc'[m] = "route"
      BY <1>1, <1>10, <2>3 DEF ElementAt, Retry, TypeOK
    <3> QED
      BY <2>1, <3>1 DEF Served
  <2> QED
    BY <2>2, <2>3
<1>11. ASSUME NEW m \in Messages, Address(m) PROVE Served(m)'
  <2>1. /\ todo'[m] = Tail(todo[m]) /\ writing[m] = {} /\ writing'[m] = {Head(todo[m])}
        /\ UNCHANGED <<pc, sent, stayed, failedTo>>
    BY <1>1, <1>11 DEF Address, history, TypeOK
  <2>2. /\ Head(todo[m]) \in Elements(todo[m])
        /\ Elements(todo'[m]) = Elements(todo[m]) \ {Head(todo[m])}
    BY <1>1, <1>11, <2>1, TailProperties DEF Address, TypeOK, Sound, Delivery
  <2>3. Pending(m)' = Pending(m)
    BY <2>1, <2>2 DEF Pending, Receivers
  <2> QED
    BY <1>1, <2>1, <2>3 DEF Served
<1>12. ASSUME NEW m \in Messages, NEW c \in Clients, Write(m, c) PROVE Served(m)'
  <2>1. /\ pc[m] = "send" /\ writing[m] = {c} /\ writing'[m] = {} /\ todo'[m] = todo[m]
        /\ pc'[m] \in {"send", "done"}
    <3>1. pc[m] = "send" /\ writing[m] = {c}
      BY <1>1, <1>12 DEF Write, Sound, Progress, Delivery
    <3>2. writing'[m] = {} /\ todo'[m] = todo[m] /\ pc'[m] \in {"send", "done"}
      BY <1>1, <1>12, <3>1 DEF Write, AfterWrite, TypeOK
    <3> QED
      BY <3>1, <3>2
  <2>2. CASE /\ sent' = [sent EXCEPT ![m] = Append(@, [to |-> c, reciever |-> reciever[m]])]
             /\ UNCHANGED <<values, stayed, changed, failedTo>>
    <3>1. Pending(m)' = Pending(m)
      BY <1>1, <2>1, <2>2, WrittenIsReceiver DEF Pending
    <3>2. Pending(m) # {}
      BY <2>1 DEF Pending
    <3> QED
      BY <1>1, <2>1, <2>2, <3>1, <3>2 DEF Served
  <2>3. CASE WriteFails(m, c) /\ UNCHANGED sent
    <3>1. stayed'[m] = stayed[m] \ {c} /\ failedTo'[m] # {}
      BY <1>1, <1>3, <2>3 DEF WriteFails, TypeOK
    <3>2. Pending(m) \ {c} \subseteq Pending(m)'
      BY <2>1, <2>3 DEF Pending, Receivers
    <3> QED
      BY <1>1, <2>1, <3>1, <3>2 DEF Served
  <2> QED
    BY <1>12, <2>2, <2>3 DEF Write
<1>13. ASSUME NEW m \in Messages, Task(m) PROVE \A k \in Messages : Served(k)'
  <2>1. Served(m)'
    BY <1>6, <1>7, <1>8, <1>9, <1>10, <1>11, <1>12, <1>13 DEF Task
  <2> QED
    BY <1>5, <1>13, <2>1
<1>14. CASE UNCHANGED vars
  BY <1>2, <1>14 DEF vars, history
<1> QED
  BY <1>4, <1>13, <1>14 DEF Next

\* A finished task has not missed a client that was a member all along.
THEOREM StayersServed == Spec => []StayersAreServed
<1>1. ServeInv => StayersAreServed
  <2> SUFFICES ASSUME ServeInv, NEW m \in Messages, pc[m] = "done"
               PROVE  Served(m) /\ Pending(m) = Receivers(m)
    BY DEF StayersAreServed, Served
  <2>1. Served(m) /\ Sound(m)
    BY DEF ServeInv, DeliveryInv
  <2>2. todo[m] = <<>> /\ writing[m] = {}
    BY <2>1 DEF Sound, Progress
  <2> QED
    BY <2>1, <2>2 DEF Pending, Elements
<1> QED
  BY <1>1, ServeInit, ServeStep, PTL DEF Spec

-----------------------------------------------------------------------------
(* Round robin is balanced (Network.SendRoundRobin), for any finite set of *)
(* clients and any number of tasks that race for the index.                *)

\* How many clients the index has passed in this round.  A task that has the lock
\* has moved the index but has not chosen the client yet.
Turn == IF \E m \in Messages : HasLock(m) THEN rrIndex ELSE rrIndex + 1

\* The clients the index has passed were chosen once more than the others.
Level(n) ==
    \A i \in 1..Len(values) : picks[values[i]] = IF i <= Turn THEN n + 1 ELSE n

\* One task at a time has the lock; the choices are level while nobody comes or goes.
Even ==
    /\ \A m, k \in Messages : HasLock(m) /\ HasLock(k) => m = k
    /\ ~changed => /\ values # <<>> => rrIndex < Len(values)
                   /\ \E n \in Nat : Level(n)

TurnInv == DeliveryInv /\ Even

\* TurnInv holds initially.
LEMMA TurnInit == Init => TurnInv
<1> SUFFICES ASSUME Init PROVE Even
  BY DeliveryInit DEF TurnInv
<1>1. \A m \in Messages : ~HasLock(m)
  BY DEF Init, HasLock
<1>2. values \in Seq(Clients) /\ rrIndex = -1
  BY OrdersAreDistinct DEF Init
<1>3. Turn = 0
  BY <1>1, <1>2 DEF Turn
<1>4. Level(0)
  BY <1>2, <1>3 DEF Init, Level
<1>5. values # <<>> => rrIndex < Len(values)
  BY <1>2
<1> QED
  BY <1>1, <1>4, <1>5 DEF Even

\* The choices stay even in a step without index, lock and members.
LEMMA EvenFrame ==
    ASSUME Even, UNCHANGED <<rrIndex, picks>>,
           \A k \in Messages : HasLock(k)' = HasLock(k),
           ~changed' => ~changed /\ values' = values
    PROVE  Even'
<1>1. Turn' = Turn
  BY DEF Turn
<1>2. ASSUME ~changed', NEW n \in Nat, Level(n) PROVE Level(n)'
  BY <1>1, <1>2 DEF Level
<1> QED
  BY <1>2 DEF Even

\* Moving the index on keeps the choices even.
LEMMA AdvanceKeepsEven ==
    ASSUME TurnInv, NEW m \in Messages, Advance(m)
    PROVE  Even'
<1>1. values \in Seq(Clients) /\ rrIndex \in Nat \union {-1} /\ pc \in [Messages -> Labels]
  BY DEF TurnInv, DeliveryInv, MembersInv, TypeOK
<1>2. /\ \A k \in Messages : ~HasLock(k)
      /\ TypeOf[m] = "RoundRobin" /\ UNCHANGED <<values, picks, changed>>
      /\ pc' = [pc EXCEPT ![m] = "element"] /\ rrIndex' = NextIndex
  BY DEF Advance, GoTo, history, TurnInv, DeliveryInv, MembersInv, Placed
<1>3. \A k \in Messages : HasLock(k)' <=> k = m
  BY <1>1, <1>2 DEF HasLock
<1>4. Turn = rrIndex + 1 /\ Turn' = rrIndex'
  BY <1>2, <1>3 DEF Turn
<1>5. ASSUME ~changed PROVE /\ values # <<>> => rrIndex' < Len(values)
                           /\ \E n \in Nat : Level(n)'
  <2>1. PICK n \in Nat : Level(n)
    BY <1>5 DEF TurnInv, Even
  <2>2. values # <<>> => rrIndex < Len(values)
    BY <1>5 DEF TurnInv, Even
  <2>3. CASE rrIndex + 1 >= Len(values)
    <3>1. rrIndex' = 0
      BY <1>2, <2>3 DEF NextIndex
    <3>2. ASSUME NEW i \in 1..Len(values) PROVE picks'[values'[i]] = n + 1
      BY <1>1, <1>2, <1>4, <2>1, <2>3, <3>2 DEF Level
    <3>3. Level(n + 1)'
      BY <1>1, <1>2, <1>4, <3>1, <3>2 DEF Level
    <3> QED
      BY <1>1, <3>1, <3>3
  <2>4. CASE rrIndex + 1 < Len(values)
    <3>1. rrIndex' = rrIndex + 1
      BY <1>1, <1>2, <2>4 DEF NextIndex
    <3>2. Level(n)'
      BY <1>2, <1>4, <2>1, <3>1 DEF Level
    <3> QED
      BY <2>4, <3>1, <3>2
  <2> QED
    BY <1>1, <2>3, <2>4
<1> QED
  BY <1>2, <1>3, <1>5 DEF Even

\* Choosing the client at the index keeps the choices even.
LEMMA ElementAtKeepsEven ==
    ASSUME TurnInv, NEW m \in Messages, ElementAt(m)
    PROVE  Even'
<1>1. /\ values \in Seq(Clients) /\ rrIndex \in Nat \union {-1} /\ pc \in [Messages -> Labels]
      /\ picks \in [Clients -> Nat] /\ Distinct(values)
  BY DEF TurnInv, DeliveryInv, MembersInv, TypeOK
<1>2. UNCHANGED <<values, rrIndex, changed>> /\ pc[m] = "element" /\ pc'[m] # "element"
  BY <1>1 DEF ElementAt, GoTo, Retry
<1>3. \A k \in Messages \ {m} : pc'[k] = pc[k]
  BY <1>1 DEF ElementAt, GoTo
<1>4. CASE TypeOf[m] # "RoundRobin"
  <2>1. \A k \in Messages : HasLock(k)' = HasLock(k)
    BY <1>3, <1>4 DEF HasLock
  <2>2. picks' = picks
    BY <1>4 DEF ElementAt
  <2> QED
    BY <1>2, <2>1, <2>2, EvenFrame DEF TurnInv
<1>5. CASE TypeOf[m] = "RoundRobin"
  <2>1. HasLock(m) /\ rrIndex # -1
    BY <1>2, <1>5 DEF HasLock, TurnInv, DeliveryInv, MembersInv, Placed
  <2>2. \A k \in Messages : ~HasLock(k)'
    BY <1>2, <1>3, <2>1 DEF HasLock, TurnInv, Even
  <2>3. Turn = rrIndex /\ Turn' = rrIndex + 1 /\ rrIndex \in Nat
    BY <1>1, <1>2, <2>1, <2>2 DEF Turn
  <2>4. ASSUME ~changed PROVE \E n \in Nat : Level(n)'
    <3>1. PICK n \in Nat : Level(n)
      BY <2>4 DEF TurnInv, Even
    <3>2. CASE values = <<>>
      BY <1>2, <3>1, <3>2 DEF Level
    <3>3. CASE values # <<>>
      <4>1. rrIndex < Len(values)
        BY <2>4, <3>3 DEF TurnInv, Even
      <4> DEFINE chosen == values[rrIndex + 1]
      <4>2. picks' = [picks EXCEPT ![chosen] = @ + 1] /\ chosen \in Clients
        BY <1>1, <1>5, <2>3, <4>1 DEF ElementAt
      <4>3. ASSUME NEW i \in 1..Len(values)
            PROVE  picks'[values[i]] = IF i <= rrIndex + 1 THEN n + 1 ELSE n
        <5>1. values[i] \in Clients /\ (values[i] = chosen <=> i = rrIndex + 1)
          BY <1>1, <2>3, <4>1 DEF Distinct
        <5>2. picks[values[i]] = IF i <= rrIndex THEN n + 1 ELSE n
          BY <2>3, <3>1 DEF Level
        <5>3. CASE i = rrIndex + 1
          <6>1. picks'[values[i]] = picks[values[i]] + 1 /\ ~(i <= rrIndex)
            BY <1>1, <2>3, <4>2, <5>1, <5>3
          <6> QED
            BY <2>3, <5>2, <5>3, <6>1
        <5>4. CASE i # rrIndex + 1
          <6>1. picks'[values[i]] = picks[values[i]]
            BY <1>1, <4>2, <5>1, <5>4
          <6> QED
            BY <2>3, <5>2, <5>4, <6>1
        <5> QED
          BY <5>3, <5>4
      <4>4. Level(n)'
        BY <1>2, <2>3, <4>3 DEF Level
      <4> QED
        BY <4>4
    <3> QED
      BY <3>2, <3>3
  <2> QED
    BY <1>2, <2>2, <2>4 DEF TurnInv, Even
<1> QED
  BY <1>4, <1>5

\* Every step keeps TurnInv.
LEMMA TurnStep == TurnInv /\ [Next]_vars => TurnInv'
<1> SUFFICES ASSUME TurnInv, [Next]_vars PROVE Even'
  BY DeliveryStep DEF TurnInv
<1>1. DeliveryInv /\ MembersInv /\ Even /\ pc \in [Messages -> Labels]
  BY DEF TurnInv, DeliveryInv, MembersInv, TypeOK
<1>2. ASSUME NEW c \in Clients, Remove(c) PROVE ~changed' => ~changed /\ values' = values
  BY <1>1, <1>2, RemoveKeepsMembers
<1>3. ASSUME UNCHANGED <<pc, rrIndex, picks>>, ~changed' => ~changed /\ values' = values
      PROVE  Even'
  <2>1. \A k \in Messages : HasLock(k)' = HasLock(k)
    BY <1>3 DEF HasLock
  <2> QED
    BY <1>1, <1>3, <2>1, EvenFrame
<1>4. ASSUME NEW c \in Clients, Join(c) \/ Leave(c) PROVE Even'
  <2>1. CASE Join(c)
    BY <1>3, <2>1 DEF Join, taskVars
  <2>2. CASE Leave(c)
    BY <1>2, <1>3, <2>2 DEF Leave, taskVars
  <2> QED
    BY <1>4, <2>1, <2>2
<1>5. ASSUME NEW m \in Messages,
             \/ Receive(m) \/ Reply(m) \/ Snapshot(m) \/ NobodyLeft(m) \/ Draw(m)
             \/ WantLock(m) \/ Address(m) \/ (\E c \in Clients : Write(m, c))
      PROVE  Even'
  <2>1. UNCHANGED <<rrIndex, picks>>
    BY <1>5 DEF Receive, Reply, Snapshot, NobodyLeft, Draw, WantLock, Address, Write, history
  <2>2. ~changed' => ~changed /\ values' = values
    <3>1. CASE Reply(m)
      <4>1. SenderOf[m] \in Clients
        BY MessagesAssumption
      <4> QED
        BY <1>2, <3>1, <4>1 DEF Reply, WriteFails
    <3>2. CASE \E c \in Clients : Write(m, c)
      BY <1>2, <3>2 DEF Write, WriteFails
    <3>3. CASE Receive(m) \/ Snapshot(m) \/ NobodyLeft(m) \/ Draw(m) \/ WantLock(m)
               \/ Address(m)
      BY <3>3 DEF Receive, Snapshot, NobodyLeft, Draw, WantLock, Address, history
    <3> QED
      BY <1>5, <3>1, <3>2, <3>3
  <2>3. \A k \in Messages \ {m} : pc'[k] = pc[k]
    BY <1>1, <1>5 DEF Receive, Reply, Snapshot, NobodyLeft, Draw, WantLock, Address, Write, GoTo
  <2>4. HasLock(m)' = HasLock(m)
    <3>1. CASE TypeOf[m] # "RoundRobin"
      BY <3>1 DEF HasLock
    <3>2. CASE TypeOf[m] = "RoundRobin"
      <4>1. CASE \E c \in Clients : Write(m, c)
        <5>1. pc[m] = "send"
          BY <1>1, <4>1 DEF Write, DeliveryInv, Sound, Progress
        <5>2. pc'[m] \in {"send", "done"}
          BY <1>1, <4>1 DEF Write, AfterWrite, GoTo
        <5> QED
          BY <5>1, <5>2 DEF HasLock
      <4>2. CASE Address(m)
        BY <4>2 DEF Address, HasLock
      <4>3. CASE Receive(m) \/ Reply(m) \/ Snapshot(m) \/ NobodyLeft(m) \/ WantLock(m)
        BY <1>1, <4>3 DEF Receive, AckFirst, Reply, AfterReply, Snapshot, NobodyLeft,
              WantLock, GoTo, HasLock
      <4>4. ~Draw(m)
        BY <3>2 DEF Draw
      <4> QED
        BY <1>5, <4>1, <4>2, <4>3, <4>4
    <3> QED
      BY <3>1, <3>2
  <2>5. \A k \in Messages : HasLock(k)' = HasLock(k)
    BY <2>3, <2>4 DEF HasLock
  <2> QED
    BY <1>1, <2>1, <2>2, <2>5, EvenFrame
<1>6. ASSUME NEW m \in Messages, Task(m) PROVE Even'
  BY <1>5, <1>6, AdvanceKeepsEven, ElementAtKeepsEven DEF Task
<1>7. CASE UNCHANGED vars
  BY <1>3, <1>7 DEF vars, taskVars, history
<1> QED
  BY <1>4, <1>6, <1>7 DEF Next

\* As long as nobody comes or goes, round robin chooses every member equally often.
THEOREM RoundRobinIsBalanced == Spec => []RoundRobinBalanced
<1>1. TurnInv => RoundRobinBalanced
  <2> SUFFICES ASSUME TurnInv, ~changed, NEW c \in Members, NEW d \in Members
               PROVE  picks[c] <= picks[d] + 1
    BY DEF RoundRobinBalanced
  <2>1. PICK n \in Nat : Level(n)
    BY DEF TurnInv, Even
  <2>2. picks[c] \in {n, n + 1} /\ picks[d] \in {n, n + 1}
    BY <2>1 DEF Members, Elements, Level
  <2> QED
    BY <2>2
<1> QED
  BY <1>1, TurnInit, TurnStep, PTL DEF Spec

=============================================================================
