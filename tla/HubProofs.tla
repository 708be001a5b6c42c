----------------------------- MODULE HubProofs -----------------------------
(***************************************************************************)
(* Module Hub implements module Correlation: what that module takes for    *)
(* granted of the router, of the peer and of the connection is what they   *)
(* do in module Network, for any calls, ids, breaks and churn.             *)
(***************************************************************************)
EXTENDS Hub, TLAPS

\* The values Hub gives the variables of Correlation it does not have.
at == [c \in Calls |-> At(c)]
accepted == {c \in Calls : Accepted(c)}
answered == {c \in Calls : transit[<<c, "answer">>] # "unsent"}

\* The receiver of a message.
Target(m) == IF m[2] = "call" THEN Peer ELSE Me

PcLabels == {"idle", "write", "ack", "response", "ok", "failed", "timeout"}

TypesOK ==
    /\ pc \in [Calls -> PcLabels]
    /\ task \in [Messages -> {"new", "ack", "error", "send", "done"}]
    /\ todo \in [Messages -> Seq(Names)]
    /\ reciever \in [Messages -> Names]
    /\ writing \in [Messages -> SUBSET Names]
    /\ sent \in [Messages -> Seq(N!Frames)]
    /\ failedTo \in [Messages -> SUBSET Names]
    /\ transit \in [Messages -> {"unsent", "sent", "lost"}]
    /\ wire \in Seq(C!Frames)

\* A task starts only for a message the router read.  Until it goes on to send, its
\* receiver got nothing; it then sends once, and is done.
TaskOk(m) ==
    /\ transit[m] # "sent" => task[m] = "new"
    /\ task[m] \in {"new", "ack", "error"} =>
          sent[m] = <<>> /\ Target(m) \notin failedTo[m] /\ writing[m] = {}
    /\ task[m] = "ack" => m[1] \notin NoAcks
    /\ task[m] = "done" => writing[m] = {}
    /\ writing[m] # {} => writing[m] = {Target(m)} /\ todo[m] = <<>>
    /\ todo[m] \in {<<>>, <<Target(m)>>}

\* A call that has not written its message has none on its way, and only a message
\* that was accepted is answered.
CallOk(c) ==
    /\ pc[c] \in {"idle", "write"} => transit[<<c, "call">>] = "unsent"
    /\ transit[<<c, "answer">>] # "lost"
    /\ transit[<<c, "answer">>] = "sent" => transit[<<c, "call">>] = "sent" /\ Accepted(c)

Inv ==
    /\ TypesOK
    /\ \A m \in Messages : TaskOk(m)
    /\ \A c \in Calls : CallOk(c)

-----------------------------------------------------------------------------
(* Messages.                                                               *)

LEMMA MessageKinds ==
    /\ \A c \in Calls : <<c, "call">> \in Messages /\ <<c, "answer">> \in Messages
    /\ \A c, d \in Calls : <<c, "call">> # <<d, "answer">>
    /\ \A c, d \in Calls : <<c, "call">> = <<d, "call">> => c = d
    /\ \A c, d \in Calls : <<c, "answer">> = <<d, "answer">> => c = d
    /\ \A m \in Messages : \E c \in Calls : m = <<c, "call">> \/ m = <<c, "answer">>
    /\ \A c \in Calls : Target(<<c, "call">>) = Peer /\ Target(<<c, "answer">>) = Me
    /\ \A m \in Messages : Target(m) \in Names
  BY DEF Messages, Target, Names

\* Nothing happens to the task of a message, nor to the message on its way.
Untouched(k) ==
    /\ task'[k] = task[k] /\ todo'[k] = todo[k] /\ writing'[k] = writing[k]
    /\ sent'[k] = sent[k] /\ failedTo'[k] = failedTo[k]
    /\ transit'[k] = transit[k]

LEMMA UntouchedTask ==
    ASSUME NEW k \in Messages, TaskOk(k), Untouched(k)
    PROVE  TaskOk(k)'
  BY DEF TaskOk, Untouched, Target

\* A call both of whose messages are left alone is where it was.
LEMMA UntouchedCall ==
    ASSUME NEW c \in Calls, Untouched(<<c, "call">>), Untouched(<<c, "answer">>)
    PROVE  /\ At(c)' = At(c)
           /\ Accepted(c)' = Accepted(c)
           /\ CallOk(c) /\ (pc'[c] \in {"idle", "write"} => pc[c] \in {"idle", "write"})
                 => CallOk(c)'
  <1>1. Forwarded(c)' = Forwarded(c)
    BY DEF Untouched, Forwarded
  <1>2. Accepted(c)' = Accepted(c)
    BY <1>1 DEF Untouched, Accepted
  <1>3. At(c)' = At(c)
    BY <1>1, <1>2 DEF Untouched, At
  <1> QED
    BY <1>2, <1>3 DEF CallOk, Untouched

\* So nothing changes for Correlation when no message is touched.
LEMMA NoneTouched ==
    ASSUME \A k \in Messages : Untouched(k)
    PROVE  at' = at /\ accepted' = accepted /\ answered' = answered
  <1>1. \A c \in Calls : Untouched(<<c, "call">>) /\ Untouched(<<c, "answer">>)
    BY MessageKinds
  <1>2. \A c \in Calls : At(c)' = At(c) /\ Accepted(c)' = Accepted(c)
    BY <1>1, UntouchedCall
  <1>3. \A c \in Calls : transit'[<<c, "answer">>] = transit[<<c, "answer">>]
    BY <1>1 DEF Untouched
  <1> QED
    BY <1>2, <1>3 DEF at, accepted, answered

\* A frame more on the wire.
LEMMA WireGrows ==
    ASSUME wire \in Seq(C!Frames), NEW k, NEW kind \in C!Kinds, NEW c \in Calls,
           Arrives(k, [kind |-> kind, call |-> c])
    PROVE  /\ wire' \in Seq(C!Frames)
           /\ wire' = wire \/ (up /\ wire' = Append(wire, [kind |-> kind, call |-> c])
                                  /\ wire' # wire)
  <1>1. [kind |-> kind, call |-> c] \in C!Frames
    BY DEF C!Frames
  <1> DEFINE f == [kind |-> kind, call |-> c]
  <1> HIDE DEF f
  <1>2. Append(wire, f) \in Seq(C!Frames) /\ Len(Append(wire, f)) = Len(wire) + 1
        /\ Len(wire) \in Nat
    BY <1>1 DEF f
  <1>3. Append(wire, f) # wire
    BY <1>2
  <1> QED
    BY <1>2, <1>3 DEF Arrives, f

-----------------------------------------------------------------------------
(* The tasks of the router.                                                *)

\* What a step of the task of m does to the messages: nothing to the others, and to
\* m one of the steps of a Direct message.
TaskMoves(m) ==
    /\ \A k \in Messages \ {m} : Untouched(k)
    /\ transit'[m] = transit[m]
    /\ \/ /\ task[m] = "new" /\ task'[m] \in {"ack", "error", "send"} /\ transit[m] = "sent"
          /\ task'[m] = "ack" => m[1] \notin NoAcks
          /\ task'[m] = "send" => m[1] \in NoAcks
          /\ sent'[m] = sent[m] /\ failedTo'[m] = failedTo[m]
       \/ /\ task[m] = "ack" /\ task'[m] = "send"
          /\ sent'[m] = sent[m] /\ failedTo[m] \subseteq failedTo'[m]
       \/ /\ task[m] = "error" /\ task'[m] = "done"
          /\ sent'[m] = sent[m]
          /\ Target(m) \in failedTo'[m] => Target(m) \in failedTo[m]
       \/ /\ task[m] = "send" /\ task'[m] = "send"
          /\ sent'[m] = sent[m] /\ failedTo'[m] = failedTo[m]
       \/ /\ task[m] = "send" /\ task'[m] = "done"
          /\ sent'[m] # <<>> \/ Target(m) \in failedTo'[m]

LEMMA ReceiveMoves ==
    ASSUME Inv, NEW m \in Messages, Receive(m)
    PROVE  TypesOK' /\ TaskOk(m)' /\ TaskMoves(m) /\ task[m] = "new" /\ UNCHANGED wire
  <1> USE DEF TypesOK
  <1>0. TypesOK /\ TaskOk(m) /\ task[m] = "new" /\ transit[m] = "sent" /\ Target(m) \in Names
    BY MessageKinds DEF Inv, Receive, N!Receive
  <1>1. /\ UNCHANGED <<pc, reciever, writing, sent, failedTo, transit, wire>>
        /\ \/ /\ todo' = [todo EXCEPT ![m] = <<Target(m)>>]
              /\ task' = [task EXCEPT ![m] = IF m[1] \in NoAcks THEN "send" ELSE "ack"]
           \/ /\ todo' = todo
              /\ task' = [task EXCEPT ![m] = "error"]
    BY <1>0 DEF Receive, N!Receive, N!GoTo, N!AckFirst, clientVars, linkVars, Target
  <1>2. task' \in [Messages -> {"new", "ack", "error", "send", "done"}]
    BY <1>0, <1>1
  <1>3. todo' \in [Messages -> Seq(Names)] /\ todo'[m] \in {todo[m], <<Target(m)>>}
        /\ \A k \in Messages \ {m} : todo'[k] = todo[k]
    <2>1. <<Target(m)>> \in Seq(Names)
      BY <1>0
    <2>2. todo \in [Messages -> Seq(Names)]
      BY <1>0
    <2>3. todo' = todo \/ todo' = [todo EXCEPT ![m] = <<Target(m)>>]
      BY <1>1
    <2> QED
      BY <2>1, <2>2, <2>3
  <1>4. /\ \A k \in Messages \ {m} : task'[k] = task[k]
        /\ task'[m] \in {"ack", "error", "send"}
        /\ task'[m] = "ack" => m[1] \notin NoAcks
        /\ task'[m] = "send" => m[1] \in NoAcks
    BY <1>0, <1>1
  <1>5. TypesOK'
    BY <1>0, <1>1, <1>2, <1>3
  <1>6. TaskMoves(m)
    BY <1>0, <1>1, <1>3, <1>4 DEF TaskMoves, Untouched
  <1>7. TaskOk(m)'
    BY <1>0, <1>1, <1>3, <1>4 DEF TaskOk, Target
  <1> QED
    BY <1>0, <1>1, <1>5, <1>6, <1>7

LEMMA ReplyMoves ==
    ASSUME Inv, NEW m \in Messages, N!Reply(m), transit' = transit,
           UNCHANGED pc, wire' \in Seq(C!Frames)
    PROVE  /\ TypesOK' /\ TaskOk(m)' /\ TaskMoves(m)
           /\ \/ task[m] = "ack" /\ task'[m] = "send"
              \/ task[m] = "error" /\ task'[m] = "done"
  <1> USE DEF TypesOK
  <1> DEFINE s == IF m[2] = "call" THEN Me ELSE Peer
  <1>0. TypesOK /\ TaskOk(m) /\ task[m] \in {"ack", "error"} /\ s \in Names /\ s # Target(m)
    BY HubAssumption DEF Inv, N!Reply, Names, Target
  <1>1. UNCHANGED <<todo, reciever, writing, sent>>
    BY DEF N!Reply
  <1>2. /\ failedTo' = failedTo \/ failedTo' = [failedTo EXCEPT ![m] = @ \union {s}]
        /\ task' = [task EXCEPT ![m] = IF task[m] = "error" THEN "done" ELSE "send"]
    <2>1. failedTo' = failedTo \/ failedTo' = [failedTo EXCEPT ![m] = @ \union {s}]
      BY DEF N!Reply, N!WriteFails
    <2>2. task' = [task EXCEPT ![m] = N!AfterReply(m)]
      BY DEF N!Reply, N!GoTo
    <2>3. task[m] = "error" => N!AfterReply(m) = "done"
      BY DEF N!AfterReply
    <2>4. task[m] = "ack" => N!AfterReply(m) = "send"
      BY DEF N!AfterReply
    <2> QED
      BY <1>0, <2>1, <2>2, <2>3, <2>4
  <1>3. task' \in [Messages -> {"new", "ack", "error", "send", "done"}]
    BY <1>0, <1>2
  <1>4. /\ failedTo' \in [Messages -> SUBSET Names]
        /\ \A k \in Messages \ {m} : failedTo'[k] = failedTo[k]
        /\ failedTo'[m] = failedTo[m] \/ failedTo'[m] = failedTo[m] \union {s}
    <2> HIDE DEF s
    <2>1. CASE failedTo' = failedTo
      BY <1>0, <2>1
    <2>2. CASE failedTo' = [failedTo EXCEPT ![m] = @ \union {s}]
      BY <1>0, <2>2
    <2> QED
      BY <1>2, <2>1, <2>2
  <1>5. /\ \A k \in Messages \ {m} : task'[k] = task[k]
        /\ task[m] = "ack" => task'[m] = "send"
        /\ task[m] = "error" => task'[m] = "done"
    BY <1>0, <1>2
  <1>6. TypesOK'
    BY <1>0, <1>1, <1>3, <1>4
  <1>7. TaskMoves(m)
    BY <1>0, <1>1, <1>4, <1>5 DEF TaskMoves, Untouched
  <1>8. TaskOk(m)'
    BY <1>0, <1>1, <1>4, <1>5 DEF TaskOk, Target
  <1> QED
    BY <1>0, <1>5, <1>6, <1>7, <1>8

LEMMA AddressMoves ==
    ASSUME Inv, NEW m \in Messages, N!Address(m), transit' = transit, UNCHANGED <<pc, wire>>
    PROVE  TypesOK' /\ TaskOk(m)' /\ TaskMoves(m) /\ task' = task
  <1> USE DEF TypesOK
  <1>0. /\ TypesOK /\ TaskOk(m) /\ task[m] = "send" /\ writing[m] = {}
        /\ todo[m] = <<Target(m)>> /\ Target(m) \in Names
    BY MessageKinds DEF Inv, N!Address, TaskOk
  <1>1. /\ UNCHANGED <<task, sent, failedTo>>
        /\ reciever' = [reciever EXCEPT ![m] = Head(todo[m])]
        /\ writing' = [writing EXCEPT ![m] = {Head(todo[m])}]
        /\ todo' = [todo EXCEPT ![m] = Tail(todo[m])]
    BY DEF N!Address, N!history
  <1>2. Head(todo[m]) = Target(m) /\ Tail(todo[m]) = <<>> /\ <<>> \in Seq(Names)
    BY <1>0
  <1>3. reciever' \in [Messages -> Names]
    BY <1>0, <1>1, <1>2
  <1>4. /\ writing' \in [Messages -> SUBSET Names]
        /\ writing'[m] = {Target(m)}
        /\ \A k \in Messages \ {m} : writing'[k] = writing[k]
    BY <1>0, <1>1, <1>2
  <1>5. /\ todo' \in [Messages -> Seq(Names)]
        /\ todo'[m] = <<>>
        /\ \A k \in Messages \ {m} : todo'[k] = todo[k]
    BY <1>0, <1>1, <1>2
  <1>6. TypesOK'
    BY <1>0, <1>1, <1>3, <1>4, <1>5
  <1>7. TaskMoves(m)
    BY <1>0, <1>1, <1>4, <1>5 DEF TaskMoves, Untouched
  <1>8. TaskOk(m)'
    BY <1>0, <1>1, <1>4, <1>5 DEF TaskOk, Target
  <1> QED
    BY <1>1, <1>6, <1>7, <1>8

LEMMA WriteMoves ==
    ASSUME Inv, NEW m \in Messages, N!Write(m, Target(m)), transit' = transit,
           UNCHANGED pc, wire' \in Seq(C!Frames)
    PROVE  /\ TypesOK' /\ TaskOk(m)' /\ TaskMoves(m)
           /\ task[m] = "send" /\ task'[m] = "done"
  <1> USE DEF TypesOK
  <1> DEFINE t == Target(m)
             f == [to |-> t, reciever |-> reciever[m]]
  <1>0. /\ TypesOK /\ TaskOk(m) /\ writing[m] = {t} /\ todo[m] = <<>> /\ task[m] = "send"
        /\ t \in Names
    BY MessageKinds DEF Inv, N!Write, TaskOk
  <1>1. /\ UNCHANGED <<todo, reciever>>
        /\ writing' = [writing EXCEPT ![m] = writing[m] \ {t}]
        /\ \/ sent' = [sent EXCEPT ![m] = Append(sent[m], f)] /\ failedTo' = failedTo
           \/ sent' = sent /\ failedTo' = [failedTo EXCEPT ![m] = failedTo[m] \union {t}]
    BY DEF N!Write, N!WriteFails
  <1>2. /\ writing' \in [Messages -> SUBSET Names]
        /\ writing'[m] = {}
        /\ \A k \in Messages \ {m} : writing'[k] = writing[k]
    BY <1>0, <1>1
  <1>3. task' = [task EXCEPT ![m] = "done"]
    BY <1>0, <1>2 DEF N!Write, N!GoTo, N!AfterWrite
  <1>4. /\ task' \in [Messages -> {"new", "ack", "error", "send", "done"}]
        /\ task'[m] = "done"
        /\ \A k \in Messages \ {m} : task'[k] = task[k]
    BY <1>0, <1>3
  <1>5. /\ Append(sent[m], f) \in Seq(N!Frames)
        /\ Append(sent[m], f) # <<>>
    <2>1. f \in N!Frames
      BY <1>0 DEF N!Frames
    <2>2. sent[m] \in Seq(N!Frames)
      BY <1>0
    <2> HIDE DEF f
    <2>3. Append(sent[m], f) \in Seq(N!Frames) /\ Len(Append(sent[m], f)) = Len(sent[m]) + 1
          /\ Len(sent[m]) \in Nat
      BY <2>1, <2>2
    <2>4. Append(sent[m], f) # <<>>
      BY <2>3
    <2> QED
      BY <2>3, <2>4
  <1> HIDE DEF f
  <1>6. /\ sent' \in [Messages -> Seq(N!Frames)]
        /\ failedTo' \in [Messages -> SUBSET Names]
        /\ sent'[m] # <<>> \/ t \in failedTo'[m]
        /\ \A k \in Messages \ {m} : sent'[k] = sent[k] /\ failedTo'[k] = failedTo[k]
    <2>1. sent \in [Messages -> Seq(N!Frames)] /\ failedTo \in [Messages -> SUBSET Names]
      BY <1>0
    <2>2. CASE sent' = [sent EXCEPT ![m] = Append(sent[m], f)] /\ failedTo' = failedTo
      BY <1>5, <2>1, <2>2
    <2>3. CASE /\ sent' = sent
               /\ failedTo' = [failedTo EXCEPT ![m] = failedTo[m] \union {t}]
      <3>1. failedTo[m] \union {t} \in SUBSET Names
        BY <1>0, <2>1
      <3> QED
        BY <2>1, <2>3, <3>1
    <2> QED
      BY <1>1, <2>2, <2>3
  <1>7. TypesOK'
    BY <1>0, <1>1, <1>2, <1>4, <1>6
  <1>8. TaskMoves(m)
    BY <1>0, <1>1, <1>2, <1>4, <1>6 DEF TaskMoves, Untouched
  <1>9. TaskOk(m)'
    BY <1>0, <1>1, <1>2, <1>4, <1>6 DEF TaskOk, Target
  <1> QED
    BY <1>0, <1>4, <1>7, <1>8, <1>9

\* The messages of other calls are left alone, and so are those calls.
LEMMA OtherCalls ==
    ASSUME NEW m \in Messages, TaskMoves(m), NEW c \in Calls, m \in {<<c, "call">>, <<c, "answer">>}
    PROVE  \A d \in Calls \ {c} : Untouched(<<d, "call">>) /\ Untouched(<<d, "answer">>)
  BY MessageKinds DEF TaskMoves

\* A step of a task keeps the invariant.
LEMMA TaskKeepsInv ==
    ASSUME Inv, NEW m \in Messages, TaskMoves(m), TypesOK', TaskOk(m)', UNCHANGED pc
    PROVE  Inv'
  <1>1. \A k \in Messages : TaskOk(k)'
    BY UntouchedTask DEF Inv, TaskMoves
  <1>2. PICK c \in Calls : m \in {<<c, "call">>, <<c, "answer">>}
    BY MessageKinds
  <1>3. \A d \in Calls \ {c} : CallOk(d)'
    BY <1>2, OtherCalls, UntouchedCall DEF Inv
  <1>4. CallOk(c)'
    <2> DEFINE k == <<c, "call">>
               l == <<c, "answer">>
    <2>1. /\ k \in Messages /\ l \in Messages /\ k # l /\ Target(k) = Peer
          /\ CallOk(c) /\ TaskOk(k) /\ TaskOk(l)
      BY MessageKinds DEF Inv
    <2>2. transit'[k] = transit[k] /\ transit'[l] = transit[l] /\ pc' = pc
      BY <1>2, <2>1 DEF TaskMoves, Untouched
    <2>3. Accepted(c) => Accepted(c)'
      <3>1. CASE m = l
        BY <2>1, <3>1 DEF TaskMoves, Untouched, Accepted, Forwarded
      <3>2. CASE m = k
        BY <2>1, <3>2 DEF TaskMoves, Accepted, Forwarded
      <3> QED
        BY <1>2, <3>1, <3>2
    <2> QED
      BY <2>1, <2>2, <2>3 DEF CallOk
  <1> QED
    BY <1>1, <1>3, <1>4 DEF Inv

\* What the step of an answer's task is for Correlation: nothing, until it is done.
LEMMA AnswerTask ==
    ASSUME Inv, NEW c \in Calls, TaskMoves(<<c, "answer">>)
    PROVE  /\ accepted' = accepted /\ answered' = answered
           /\ task'[<<c, "answer">>] # "done" => at' = at
           /\ task'[<<c, "answer">>] = "done" =>
                 at[c] = "answer" /\ at' = [at EXCEPT ![c] = "gone"]
  <1> DEFINE k == <<c, "call">>
             l == <<c, "answer">>
  <1>1. /\ k \in Messages /\ l \in Messages /\ k # l
        /\ CallOk(c) /\ TaskOk(k) /\ TaskOk(l) /\ TypesOK
    BY MessageKinds DEF Inv
  <1>2. Untouched(k)
    BY <1>1 DEF TaskMoves
  <1>3. \A d \in Calls \ {c} : Untouched(<<d, "call">>) /\ Untouched(<<d, "answer">>)
    BY <1>1, OtherCalls
  <1>4. \A d \in Calls \ {c} : At(d)' = At(d) /\ Accepted(d)' = Accepted(d)
    BY <1>3, UntouchedCall
  <1>5. Accepted(c)' = Accepted(c) /\ Forwarded(c)' = Forwarded(c)
    BY <1>2 DEF Untouched, Accepted, Forwarded
  <1>6. \A d \in Calls : transit'[<<d, "answer">>] = transit[<<d, "answer">>]
    BY <1>3 DEF Untouched, TaskMoves
  <1>7. CASE transit[l] # "sent"
    <2>1. task[l] = "new" /\ transit[l] = "unsent" /\ task'[l] # "done"
      BY <1>1, <1>7 DEF TaskMoves, TaskOk, CallOk, TypesOK
    <2>2. At(c)' = At(c)
      BY <1>2, <1>5, <1>6, <2>1 DEF At, Untouched
    <2> QED
      BY <1>4, <1>5, <1>6, <2>1, <2>2 DEF at, accepted, answered
  <1>8. CASE transit[l] = "sent"
    <2>1. transit[k] = "sent" /\ Accepted(c) /\ Forwarded(c) /\ transit'[k] = "sent"
          /\ task[l] # "done"
      BY <1>1, <1>2, <1>8 DEF CallOk, Accepted, Untouched, TaskMoves
    <2>2. At(c) = "answer" /\ At(c)' = IF task'[l] # "done" THEN "answer" ELSE "gone"
      BY <1>5, <1>6, <1>8, <2>1 DEF At
    <2> QED
      BY <1>4, <1>5, <1>6, <2>2 DEF at, accepted, answered
  <1> QED
    BY <1>7, <1>8

\* And that of a call's task: acceptance, refusal or nothing.
LEMMA CallTask ==
    ASSUME Inv, NEW c \in Calls, TaskMoves(<<c, "call">>)
    PROVE  LET k == <<c, "call">> IN
           /\ answered' = answered
           /\ task[k] \in {"new", "ack"} /\ task'[k] = "send" =>
                 /\ at[c] = "router" /\ at' = [at EXCEPT ![c] = "receiver"]
                 /\ accepted' = accepted \union {c}
           /\ task[k] = "error" =>
                 /\ at[c] = "router" /\ at' = [at EXCEPT ![c] = "gone"]
                 /\ accepted' = accepted
           /\ task'[k] \in {"ack", "error"} \/ task[k] = "send" =>
                 at' = at /\ accepted' = accepted
  <1> DEFINE k == <<c, "call">>
             l == <<c, "answer">>
  <1>1. /\ k \in Messages /\ l \in Messages /\ k # l /\ Target(k) = Peer
        /\ CallOk(c) /\ TaskOk(k) /\ TaskOk(l) /\ TypesOK
    BY MessageKinds DEF Inv
  <1>2. Untouched(l) /\ transit'[k] = transit[k]
    BY <1>1 DEF TaskMoves
  <1>3. \A d \in Calls \ {c} : Untouched(<<d, "call">>) /\ Untouched(<<d, "answer">>)
    BY <1>1, OtherCalls
  <1>4. \A d \in Calls \ {c} : At(d)' = At(d) /\ Accepted(d)' = Accepted(d)
    BY <1>3, UntouchedCall
  <1>5. \A d \in Calls : transit'[<<d, "answer">>] = transit[<<d, "answer">>]
    BY <1>2, <1>3 DEF Untouched
  <1>6. answered' = answered
    BY <1>5 DEF answered
  <1>7. ASSUME At(c)' = At(c), Accepted(c)' = Accepted(c)
        PROVE  at' = at /\ accepted' = accepted
    BY <1>4, <1>7 DEF at, accepted
  <1>8. ASSUME NEW x, At(c)' = x PROVE at' = [at EXCEPT ![c] = x]
    BY <1>4, <1>8 DEF at
  <1>9. CASE task[k] \in {"new", "ack", "error"} /\ task'[k] \in {"ack", "error"}
    <2>1. ~Forwarded(c) /\ ~Forwarded(c)'
      BY <1>9 DEF Forwarded
    <2>2. At(c)' = At(c) /\ Accepted(c)' = Accepted(c)
      BY <1>2, <2>1 DEF At, Accepted
    <2>3. task[k] # "error"
      BY <1>9 DEF TaskMoves
    <2> QED
      BY <1>6, <1>7, <1>9, <2>2, <2>3
  <1>10. CASE task[k] \in {"new", "ack"} /\ task'[k] = "send"
    <2>1. ~Forwarded(c) /\ Forwarded(c)' /\ Accepted(c)' /\ ~Accepted(c)
      BY <1>10 DEF Forwarded, Accepted
    <2>2. transit[l] = "unsent"
      BY <1>1, <2>1 DEF CallOk, TypesOK
    <2>3. transit[k] = "sent"
      <3>1. CASE task[k] = "ack"
        BY <1>1, <3>1 DEF TaskOk
      <3>2. CASE task[k] = "new"
        BY <3>2 DEF TaskMoves
      <3> QED
        BY <1>10, <3>1, <3>2
    <2>4. At(c) = "router" /\ At(c)' = "receiver"
      BY <1>2, <1>5, <2>1, <2>2, <2>3 DEF At
    <2>5. accepted' = accepted \union {c}
      BY <1>4, <2>1 DEF accepted
    <2> QED
      BY <1>6, <1>8, <1>10, <2>4, <2>5 DEF at
  <1>11. CASE task[k] = "error"
    <2>1. task'[k] = "done" /\ sent'[k] = <<>> /\ Peer \notin failedTo'[k]
      BY <1>1, <1>11 DEF TaskMoves, TaskOk
    <2>2. ~Forwarded(c) /\ Forwarded(c)' /\ ~Accepted(c) /\ ~Accepted(c)'
      BY <1>11, <2>1 DEF Forwarded, Accepted
    <2>3. transit[k] = "sent"
      BY <1>1, <1>11 DEF TaskOk
    <2>4. At(c) = "router" /\ At(c)' = "gone"
      BY <1>2, <2>2, <2>3 DEF At
    <2>5. accepted' = accepted
      BY <1>4, <2>2 DEF accepted
    <2> QED
      BY <1>6, <1>8, <1>11, <2>1, <2>4, <2>5 DEF at
  <1>12. CASE task[k] = "send"
    <2>1. Forwarded(c) /\ Forwarded(c)' /\ Accepted(c) /\ Accepted(c)'
      BY <1>1, <1>12 DEF Forwarded, Accepted, TaskMoves
    <2>2. At(c)' = At(c)
      BY <1>2, <2>1 DEF At, Untouched
    <2> QED
      BY <1>6, <1>7, <1>12, <2>1, <2>2
  <1> QED
    BY <1>9, <1>10, <1>11, <1>12 DEF TaskMoves

-----------------------------------------------------------------------------
(* The steps of the client and of the connection.                          *)

\* Every step keeps the invariant and is one of Correlation, or changes nothing there.
Maps == Inv' /\ [C!Next]_C!vars

\* A step that touches no message keeps the invariant when it sends no call back.
LEMMA QuietInv ==
    ASSUME Inv, \A k \in Messages : Untouched(k), UNCHANGED <<routerVars, transit>>,
           pc' \in [Calls -> PcLabels], wire' \in Seq(C!Frames),
           \A c \in Calls : pc'[c] \in {"idle", "write"} => pc[c] \in {"idle", "write"}
    PROVE  Inv'
  <1>1. TypesOK'
    BY DEF Inv, TypesOK, routerVars
  <1>2. \A m \in Messages : TaskOk(m)'
    BY UntouchedTask DEF Inv
  <1>3. \A c \in Calls : CallOk(c)'
    BY MessageKinds, UntouchedCall DEF Inv
  <1> QED
    BY <1>1, <1>2, <1>3 DEF Inv

LEMMA Unrouted ==
    ASSUME UNCHANGED <<routerVars, transit>>
    PROVE  \A k \in Messages : Untouched(k)
  BY DEF routerVars, Untouched

LEMMA ClientMaps ==
    ASSUME Inv, NEW c \in Calls, Begin(c) \/ Resume(c) \/ Expire(c)
    PROVE  Maps
  <1>1. UNCHANGED <<routerVars, transit>>
    BY DEF Begin, Resume, Expire, pathVars
  <1>2. \A k \in Messages : Untouched(k)
    BY <1>1, Unrouted
  <1>3. C!Start(c) \/ C!Resume(c) \/ C!Expire(c)
    BY DEF Begin, Resume, Expire
  <1>4. PICK l \in PcLabels \ {"idle", "write"} : pc' = [pc EXCEPT ![c] = l]
                                                  \/ (pc[c] = "idle" /\ pc' = [pc EXCEPT ![c] = "write"])
    BY <1>3 DEF C!Start, C!Resume, C!Expire, PcLabels
  <1>5. wire' = wire
    BY <1>3 DEF C!Start, C!Resume, C!Expire, C!linkVars
  <1>6. /\ pc' \in [Calls -> PcLabels] /\ wire' \in Seq(C!Frames)
        /\ \A d \in Calls : pc'[d] \in {"idle", "write"} => pc[d] \in {"idle", "write"}
    BY <1>4, <1>5 DEF Inv, TypesOK, PcLabels
  <1>7. Inv'
    BY <1>1, <1>2, <1>6, QuietInv
  <1> QED
    BY <1>3, <1>7 DEF Maps, C!Next, C!Call

LEMMA WriteCallMaps ==
    ASSUME Inv, NEW c \in Calls, WriteCall(c)
    PROVE  Maps
  <1> DEFINE k == <<c, "call">>
             l == <<c, "answer">>
  <1>0. /\ k \in Messages /\ l \in Messages /\ k # l
        /\ TypesOK /\ CallOk(c) /\ TaskOk(k)
    BY MessageKinds DEF Inv
  <1>1. /\ C!Write(c) /\ UNCHANGED routerVars /\ UNCHANGED wire
        /\ \E w \in {"unsent", "sent"} : transit' = [transit EXCEPT ![k] = w]
    BY DEF WriteCall, C!Write
  <1>2. pc[c] = "write" /\ pc' \in [Calls -> PcLabels]
        /\ \A d \in Calls : pc'[d] \in {"idle", "write"} => d # c /\ pc'[d] = pc[d]
    <2>1. PICK a \in {"ok", "ack", "failed"} : pc' = [pc EXCEPT ![c] = a]
      BY <1>1 DEF C!Write, C!Awaited
    <2>2. pc[c] = "write"
      BY <1>1 DEF C!Write
    <2> QED
      BY <1>0, <2>1, <2>2 DEF TypesOK, PcLabels
  <1>3. transit[k] = "unsent" /\ transit[l] = "unsent" /\ task[k] = "new"
    BY <1>0, <1>2 DEF CallOk, TaskOk, TypesOK
  <1>4. /\ transit' \in [Messages -> {"unsent", "sent", "lost"}]
        /\ \A m \in Messages \ {k} : transit'[m] = transit[m]
    BY <1>0, <1>1 DEF TypesOK
  <1>5. TypesOK'
    BY <1>0, <1>1, <1>2, <1>4 DEF TypesOK, routerVars
  <1>6. \A m \in Messages \ {k} : Untouched(m)
    BY <1>1, <1>4 DEF Untouched, routerVars
  <1>7. \A m \in Messages : TaskOk(m)'
    <2>1. TaskOk(k)'
      BY <1>0, <1>1, <1>3 DEF TaskOk, routerVars, Target
    <2> QED
      BY <1>6, <2>1, UntouchedTask DEF Inv
  <1>8. CallOk(c)'
    BY <1>0, <1>2, <1>3, <1>4 DEF CallOk
  <1>9. \A d \in Calls \ {c} : CallOk(d)'
    <2>1. \A d \in Calls \ {c} : Untouched(<<d, "call">>) /\ Untouched(<<d, "answer">>)
      BY <1>6, MessageKinds
    <2> QED
      BY <1>2, <2>1, UntouchedCall DEF Inv
  <1> QED
    BY <1>1, <1>5, <1>7, <1>8, <1>9 DEF Maps, Inv, C!Next, C!Call

LEMMA LoopMaps ==
    ASSUME Inv, NEW k \in C!Loops, Read(k) \/ OnInternalMessage(k) \/ LoopEnds(k)
    PROVE  Maps
  <1>1. /\ C!Read(k) \/ C!OnInternalMessage(k) \/ C!LoopEnds(k)
        /\ UNCHANGED <<routerVars, transit>>
    BY DEF Read, OnInternalMessage, LoopEnds, pathVars
  <1>2. \A m \in Messages : Untouched(m)
    BY <1>1, Unrouted
  <1>3. /\ pc' = pc /\ pc \in [Calls -> PcLabels] /\ wire \in Seq(C!Frames)
        /\ wire' = wire \/ (wire # <<>> /\ wire' = Tail(wire))
    <2>1. CASE C!Read(k)
      BY <2>1 DEF C!Read, C!clientVars, Inv, TypesOK
    <2>2. CASE C!OnInternalMessage(k)
      BY <2>2 DEF C!OnInternalMessage, C!linkVars, Inv, TypesOK
    <2>3. CASE C!LoopEnds(k)
      BY <2>3 DEF C!LoopEnds, C!clientVars, C!linkVars, Inv, TypesOK
    <2> QED
      BY <1>1, <2>1, <2>2, <2>3
  <1>4. wire' \in Seq(C!Frames)
    BY <1>3
  <1>5. Inv'
    BY <1>1, <1>2, <1>3, <1>4, QuietInv
  <1> QED
    BY <1>1, <1>5 DEF Maps, C!Next

LEMMA BreakMaps ==
    ASSUME Inv, Break
    PROVE  Maps
  <1>0. TypesOK
    BY DEF Inv
  <1>1. PICK lost \in SUBSET {m \in Calls \X {"call"} : transit[m] = "sent" /\ task[m] = "new"} :
                transit' = [m \in Messages |-> IF m \in lost THEN "lost" ELSE transit[m]]
    BY DEF Break
  <1>2. /\ UNCHANGED <<clientVars, routerVars, sentOn, loopVars, handled, raised, missed>>
        /\ up /\ breaks < MaxBreaks /\ up' = FALSE /\ breaks' = breaks + 1 /\ wire' = <<>>
        /\ disturbed' = disturbed \union {c \in Calls : pc[c] # "idle"}
    BY DEF Break
  <1>3. transit' \in [Messages -> {"unsent", "sent", "lost"}]
    BY <1>0, <1>1 DEF TypesOK
  <1>4. TypesOK'
    BY <1>0, <1>2, <1>3 DEF TypesOK, routerVars, clientVars
  <1>5. \A c \in Calls : <<c, "answer">> \notin lost
    BY <1>1
  <1>6. \A m \in Messages :
           \/ m \in lost /\ transit[m] = "sent" /\ task[m] = "new" /\ transit'[m] = "lost"
           \/ m \notin lost /\ transit'[m] = transit[m]
    BY <1>1
  <1>7. \A m \in Messages : TaskOk(m)'
    BY <1>2, <1>6 DEF Inv, TaskOk, routerVars, Target
  <1>8. ASSUME NEW c \in Calls
        PROVE  /\ CallOk(c)' /\ Accepted(c)' = Accepted(c)
               /\ transit'[<<c, "answer">>] = transit[<<c, "answer">>]
               /\ At(c)' = IF <<c, "call">> \in lost THEN "gone" ELSE At(c)
               /\ <<c, "call">> \in lost => At(c) = "router"
    <2> DEFINE k == <<c, "call">>
               l == <<c, "answer">>
    <2>0. k \in Messages /\ l \in Messages /\ CallOk(c) /\ TaskOk(k) /\ TaskOk(l)
      BY MessageKinds DEF Inv
    <2>1. transit'[l] = transit[l]
      BY <1>5, <1>6, <2>0
    <2>2. Accepted(c)' = Accepted(c) /\ Forwarded(c)' = Forwarded(c)
      BY <1>2 DEF Accepted, Forwarded, routerVars
    <2>3. CASE k \notin lost
      <3>1. transit'[k] = transit[k]
        BY <1>6, <2>0, <2>3
      <3>2. At(c)' = At(c)
        BY <1>2, <2>1, <2>2, <3>1 DEF At, routerVars
      <3>3. CallOk(c)'
        BY <1>2, <2>0, <2>1, <2>2, <3>1 DEF CallOk, clientVars
      <3> QED
        BY <2>1, <2>2, <2>3, <3>2, <3>3
    <2>4. CASE k \in lost
      <3>1. transit[k] = "sent" /\ task[k] = "new" /\ transit'[k] = "lost"
        BY <1>6, <2>0, <2>4
      <3>2. ~Forwarded(c) /\ ~Accepted(c)
        BY <3>1 DEF Forwarded, Accepted
      <3>3. At(c) = "router" /\ At(c)' = "gone"
        BY <2>2, <3>1, <3>2 DEF At
      <3>4. CallOk(c)'
        BY <1>2, <2>0, <2>1, <3>1, <3>2 DEF CallOk, clientVars
      <3> QED
        BY <2>1, <2>2, <2>4, <3>3, <3>4
    <2> QED
      BY <2>3, <2>4
  <1>9. Inv'
    BY <1>4, <1>7, <1>8 DEF Inv
  <1>10. accepted' = accepted /\ answered' = answered
    BY <1>8 DEF accepted, answered
  <1>11. C!Break
    <2> DEFINE gone == {c \in Calls : <<c, "call">> \in lost}
    <2>1. at' = [c \in Calls |-> IF c \in gone THEN "gone" ELSE at[c]]
      BY <1>8 DEF at
    <2>2. gone \in SUBSET {c \in Calls : at[c] = "router"}
      BY <1>8 DEF at
    <2> HIDE DEF gone
    <2>3. \E g \in SUBSET {c \in Calls : at[c] = "router"} :
             at' = [c \in Calls |-> IF c \in g THEN "gone" ELSE at[c]]
      BY <2>1, <2>2
    <2> QED
      BY <1>2, <1>10, <2>3 DEF C!Break, C!clientVars, clientVars, C!loopVars, loopVars,
                              at, accepted, answered
  <1> QED
    BY <1>9, <1>11 DEF Maps, C!Next

LEMMA ReconnectMaps ==
    ASSUME Inv, Reconnect
    PROVE  Maps
  <1>1. /\ UNCHANGED <<clientVars, task, todo, reciever, writing, sent, failedTo, transit,
                       sentOn, breaks, wire, hand, history>>
        /\ ~up /\ up' = TRUE /\ readers' = readers \union {breaks}
    BY DEF Reconnect
  <1>2. \A k \in Messages : Untouched(k)
    BY <1>1 DEF Untouched
  <1>3. at' = at /\ accepted' = accepted /\ answered' = answered
    BY <1>2, NoneTouched
  <1>4. TypesOK'
    BY <1>1 DEF Inv, TypesOK, clientVars
  <1>5. \A m \in Messages : TaskOk(m)'
    BY <1>2, UntouchedTask DEF Inv
  <1>6. \A c \in Calls : CallOk(c)'
    BY <1>1, <1>2, MessageKinds, UntouchedCall DEF Inv, clientVars
  <1>7. C!Restore
    BY <1>1, <1>3 DEF C!Restore, C!clientVars, C!history, clientVars, history,
                      at, accepted, answered
  <1> QED
    BY <1>4, <1>5, <1>6, <1>7 DEF Maps, Inv, C!Next

-----------------------------------------------------------------------------
(* The steps of the router and of the peer.                                *)

\* What the environment changes is nothing for Correlation as long as no message is.
LEMMA RouterStutters ==
    ASSUME at' = at, accepted' = accepted, answered' = answered,
           UNCHANGED <<clientVars, linkVars, loopVars, history>>
    PROVE  UNCHANGED C!vars
  BY DEF C!vars, C!clientVars, C!linkVars, C!loopVars, C!history, clientVars, linkVars,
         loopVars, history, at, accepted, answered

LEMMA AnswerMaps ==
    ASSUME Inv, NEW c \in Calls, Answer(c)
    PROVE  Maps
  <1> DEFINE k == <<c, "call">>
             l == <<c, "answer">>
  <1>0. /\ k \in Messages /\ l \in Messages /\ k # l
        /\ TypesOK /\ CallOk(c) /\ TaskOk(k) /\ TaskOk(l)
    BY MessageKinds DEF Inv
  <1>1. /\ transit[l] = "unsent" /\ transit' = [transit EXCEPT ![l] = "sent"]
        /\ sent[k] # <<>> \/ Peer \in failedTo[k]
        /\ UNCHANGED <<clientVars, routerVars, linkVars, loopVars, history>>
    BY DEF Answer
  <1>2. transit' \in [Messages -> {"unsent", "sent", "lost"}]
        /\ transit'[l] = "sent" /\ \A m \in Messages \ {l} : transit'[m] = transit[m]
    BY <1>0, <1>1 DEF TypesOK
  <1>3. \A m \in Messages \ {l} : Untouched(m)
    BY <1>1, <1>2 DEF Untouched, routerVars
  <1>4. \A d \in Calls \ {c} : Untouched(<<d, "call">>) /\ Untouched(<<d, "answer">>)
    BY <1>0, <1>3, MessageKinds
  <1>5. \A d \in Calls \ {c} : At(d)' = At(d) /\ Accepted(d)' = Accepted(d)
    BY <1>4, UntouchedCall
  <1>6. transit[k] = "sent" /\ Accepted(c) /\ Forwarded(c) /\ task[l] = "new"
    <2>1. task[k] \notin {"new", "ack", "error"}
      BY <1>0, <1>1, MessageKinds DEF TaskOk
    <2>2. Forwarded(c)
      BY <1>0, <2>1 DEF Forwarded, TypesOK
    <2> QED
      BY <1>0, <1>1, <2>1, <2>2 DEF TaskOk, Accepted
  <1>7. Accepted(c)' = Accepted(c) /\ Forwarded(c)' = Forwarded(c) /\ transit'[k] = "sent"
    BY <1>0, <1>3, <1>6 DEF Untouched, Accepted, Forwarded
  <1>8. At(c) = "receiver" /\ At(c)' = "answer"
    BY <1>1, <1>2, <1>6, <1>7 DEF At, routerVars
  <1>9. /\ at' = [at EXCEPT ![c] = "answer"] /\ at[c] = "receiver"
        /\ accepted' = accepted /\ answered' = answered \union {c}
    <2>1. at' = [at EXCEPT ![c] = "answer"] /\ at[c] = "receiver"
      BY <1>5, <1>8 DEF at
    <2>2. accepted' = accepted
      BY <1>5, <1>7 DEF accepted
    <2>3. answered' = answered \union {c}
      BY <1>2, <1>0, MessageKinds DEF answered
    <2> QED
      BY <2>1, <2>2, <2>3
  <1>10. C!AnswerCall(c)
    BY <1>1, <1>9 DEF C!AnswerCall, C!clientVars, C!loopVars, clientVars, linkVars, loopVars,
                      history, at, accepted, answered
  <1>11. TypesOK'
    BY <1>0, <1>1, <1>2 DEF TypesOK, clientVars, routerVars, linkVars
  <1>12. \A m \in Messages : TaskOk(m)'
    <2>1. TaskOk(l)'
      BY <1>0, <1>1, <1>2 DEF TaskOk, routerVars, Target
    <2> QED
      BY <1>3, <2>1, UntouchedTask DEF Inv
  <1>13. \A d \in Calls : CallOk(d)'
    <2>1. CallOk(c)'
      BY <1>0, <1>1, <1>2, <1>6, <1>7 DEF CallOk, clientVars
    <2>2. \A d \in Calls \ {c} : CallOk(d)'
      BY <1>1, <1>4, UntouchedCall DEF Inv, clientVars
    <2> QED
      BY <2>1, <2>2
  <1> QED
    BY <1>10, <1>11, <1>12, <1>13 DEF Maps, Inv, C!Next, C!Outside

LEMMA MembershipMaps ==
    ASSUME Inv, PeerComesOrGoes \/ \E k \in loops : ReceiveLoopEnds(k)
    PROVE  Maps
  <1>1. UNCHANGED <<clientVars, linkVars, loopVars, history, task, todo, reciever, writing,
                    sent, failedTo, transit>>
    BY DEF PeerComesOrGoes, ReceiveLoopEnds, N!Join, N!Leave, N!taskVars, pathVars
  <1>2. \A k \in Messages : Untouched(k)
    BY <1>1 DEF Untouched
  <1>3. at' = at /\ accepted' = accepted /\ answered' = answered
    BY <1>2, NoneTouched
  <1>4. TypesOK'
    BY <1>1 DEF Inv, TypesOK, clientVars, linkVars
  <1>5. \A m \in Messages : TaskOk(m)'
    BY <1>2, UntouchedTask DEF Inv
  <1>6. \A c \in Calls : CallOk(c)'
    BY <1>1, <1>2, MessageKinds, UntouchedCall DEF Inv, clientVars
  <1> QED
    BY <1>1, <1>3, <1>4, <1>5, <1>6, RouterStutters DEF Maps, Inv

LEMMA ReceiveMaps ==
    ASSUME Inv, NEW m \in Messages, Receive(m)
    PROVE  Maps
  <1>1. /\ TaskMoves(m) /\ TypesOK' /\ TaskOk(m)' /\ task[m] = "new"
        /\ UNCHANGED <<clientVars, linkVars, loopVars, history>>
    BY ReceiveMoves DEF Receive
  <1>2. Inv'
    BY <1>1, TaskKeepsInv DEF clientVars
  <1>3. ASSUME NEW c \in Calls, m = <<c, "answer">>
        PROVE  UNCHANGED C!vars
    <2>1. task'[m] # "done"
      BY <1>1 DEF TaskMoves
    <2> QED
      BY <1>1, <1>3, <2>1, AnswerTask, RouterStutters
  <1>4. ASSUME NEW c \in Calls, m = <<c, "call">>
        PROVE  [C!Next]_C!vars
    <2>1. CASE task'[m] \in {"ack", "error"}
      BY <1>1, <1>4, <2>1, CallTask, RouterStutters
    <2>2. CASE task'[m] = "send"
      <3>1. c \in NoAcks
        BY <1>1, <1>4, <2>2 DEF TaskMoves
      <3>2. /\ at[c] = "router" /\ at' = [at EXCEPT ![c] = "receiver"]
            /\ accepted' = accepted \union {c} /\ answered' = answered
        BY <1>1, <1>4, <2>2, CallTask
      <3>3. C!Accept(c)
        BY <1>1, <3>1, <3>2 DEF C!Accept, C!clientVars, C!loopVars, clientVars, linkVars,
                                loopVars, history, at, accepted, answered
      <3> QED
        BY <3>3 DEF C!Next, C!Outside
    <2> QED
      BY <1>1, <2>1, <2>2 DEF TaskMoves
  <1> QED
    BY <1>2, <1>3, <1>4, MessageKinds DEF Maps

LEMMA ReplyToCallMaps ==
    ASSUME Inv, NEW c \in Calls, ReplyToCall(c)
    PROVE  Maps
  <1> DEFINE m == <<c, "call">>
  <1>0. m \in Messages /\ TaskOk(m) /\ TypesOK
    BY MessageKinds DEF Inv
  <1>1. /\ N!Reply(m)
        /\ UNCHANGED <<clientVars, up, breaks, sentOn, pathVars, loopVars, history>>
        /\ wire' = IF up /\ sentOn[c] = breaks
                   THEN Append(wire, [kind |-> task[m], call |-> c]) ELSE wire
    BY DEF ReplyToCall, Arrives
  <1>2. wire' \in Seq(C!Frames)
    <2>1. task[m] \in C!Kinds
      BY <1>1 DEF N!Reply, C!Kinds
    <2> QED
      BY <1>0, <2>1, WireGrows DEF ReplyToCall, TypesOK
  <1>3. /\ TypesOK' /\ TaskOk(m)' /\ TaskMoves(m)
        /\ \/ task[m] = "ack" /\ task'[m] = "send"
           \/ task[m] = "error" /\ task'[m] = "done"
    BY <1>0, <1>1, <1>2, ReplyMoves DEF clientVars, pathVars
  <1>4. Inv'
    BY <1>0, <1>1, <1>3, TaskKeepsInv DEF clientVars
  <1>5. CASE task[m] = "ack" /\ task'[m] = "send"
    <2>1. c \notin NoAcks
      BY <1>0, <1>5 DEF TaskOk
    <2>2. /\ at[c] = "router" /\ at' = [at EXCEPT ![c] = "receiver"]
          /\ accepted' = accepted \union {c} /\ answered' = answered
      BY <1>3, <1>5, CallTask
    <2>3. C!Reply(c, "ack")
      BY <1>1, <1>5 DEF C!Reply
    <2>4. C!Accept(c)
      BY <1>1, <2>1, <2>2, <2>3 DEF C!Accept, C!clientVars, C!loopVars, clientVars,
                                    loopVars, history, at, accepted, answered
    <2> QED
      BY <1>4, <2>4 DEF Maps, C!Next, C!Outside
  <1>6. CASE task[m] = "error" /\ task'[m] = "done"
    <2>1. /\ at[c] = "router" /\ at' = [at EXCEPT ![c] = "gone"]
          /\ accepted' = accepted /\ answered' = answered
      BY <1>3, <1>6, CallTask
    <2>2. C!Reply(c, "error")
      BY <1>1, <1>6 DEF C!Reply
    <2>3. C!Refuse(c)
      BY <1>1, <2>1, <2>2 DEF C!Refuse, C!clientVars, C!loopVars, C!history, clientVars,
                              loopVars, history, at, accepted, answered
    <2> QED
      BY <1>4, <2>3 DEF Maps, C!Next, C!Outside
  <1> QED
    BY <1>3, <1>5, <1>6

LEMMA ReplyToAnswerMaps ==
    ASSUME Inv, NEW c \in Calls, ReplyToAnswer(c)
    PROVE  Maps
  <1> DEFINE m == <<c, "answer">>
  <1>0. m \in Messages /\ TypesOK
    BY MessageKinds DEF Inv
  <1>1. /\ N!Reply(m)
        /\ UNCHANGED <<clientVars, linkVars, pathVars, loopVars, handled, raised, disturbed>>
        /\ missed' = IF task[m] = "error" THEN missed \union {c} ELSE missed
    BY DEF ReplyToAnswer
  <1>2. /\ TypesOK' /\ TaskOk(m)' /\ TaskMoves(m)
        /\ \/ task[m] = "ack" /\ task'[m] = "send"
           \/ task[m] = "error" /\ task'[m] = "done"
    BY <1>0, <1>1, ReplyMoves DEF clientVars, pathVars, linkVars, TypesOK
  <1>3. Inv'
    BY <1>0, <1>1, <1>2, TaskKeepsInv DEF clientVars
  <1>4. CASE task[m] = "ack" /\ task'[m] = "send"
    <2>1. at' = at /\ accepted' = accepted /\ answered' = answered
      BY <1>2, <1>4, AnswerTask
    <2> QED
      BY <1>1, <1>3, <1>4, <2>1, RouterStutters DEF Maps, history
  <1>5. CASE task[m] = "error" /\ task'[m] = "done"
    <2>1. /\ at[c] = "answer" /\ at' = [at EXCEPT ![c] = "gone"]
          /\ accepted' = accepted /\ answered' = answered
      BY <1>2, <1>5, AnswerTask
    <2>2. C!ForwardAnswer(c)
      BY <1>1, <1>5, <2>1 DEF C!ForwardAnswer, C!clientVars, C!loopVars, clientVars,
                              linkVars, loopVars, at, accepted, answered
    <2> QED
      BY <1>3, <2>2 DEF Maps, C!Next, C!Outside
  <1> QED
    BY <1>2, <1>4, <1>5

LEMMA AddressMaps ==
    ASSUME Inv, NEW m \in Messages, Address(m)
    PROVE  Maps
  <1>1. N!Address(m) /\ UNCHANGED <<clientVars, linkVars, pathVars, loopVars, history>>
    BY DEF Address
  <1>2. TypesOK' /\ TaskOk(m)' /\ TaskMoves(m) /\ task' = task /\ task[m] = "send"
    BY <1>1, AddressMoves DEF clientVars, linkVars, pathVars, N!Address
  <1>3. Inv'
    BY <1>1, <1>2, TaskKeepsInv DEF clientVars
  <1>4. at' = at /\ accepted' = accepted /\ answered' = answered
    <2>1. PICK c \in Calls : m = <<c, "call">> \/ m = <<c, "answer">>
      BY MessageKinds
    <2> QED
      BY <1>2, <2>1, CallTask, AnswerTask
  <1> QED
    BY <1>1, <1>3, <1>4, RouterStutters DEF Maps

LEMMA WriteToPeerMaps ==
    ASSUME Inv, NEW c \in Calls, WriteToPeer(c)
    PROVE  Maps
  <1> DEFINE m == <<c, "call">>
  <1>0. m \in Messages /\ TypesOK /\ Target(m) = Peer
    BY MessageKinds DEF Inv
  <1>1. N!Write(m, Target(m)) /\ UNCHANGED <<clientVars, linkVars, pathVars, loopVars, history>>
    BY <1>0 DEF WriteToPeer
  <1>2. /\ TypesOK' /\ TaskOk(m)' /\ TaskMoves(m)
        /\ task[m] = "send" /\ task'[m] = "done"
    BY <1>0, <1>1, WriteMoves DEF clientVars, linkVars, pathVars, TypesOK
  <1>3. Inv'
    BY <1>0, <1>1, <1>2, TaskKeepsInv DEF clientVars
  <1>4. at' = at /\ accepted' = accepted /\ answered' = answered
    BY <1>2, CallTask
  <1> QED
    BY <1>1, <1>3, <1>4, RouterStutters DEF Maps

LEMMA WriteToMeMaps ==
    ASSUME Inv, NEW c \in Calls, WriteToMe(c)
    PROVE  Maps
  <1> DEFINE m == <<c, "answer">>
             f == [kind |-> "response", call |-> c]
  <1>0. m \in Messages /\ TypesOK /\ Target(m) = Me
    BY MessageKinds DEF Inv
  <1>1. /\ N!Write(m, Target(m)) /\ Arrives(captured[m], f)
        /\ UNCHANGED <<clientVars, up, breaks, sentOn, pathVars, loopVars, handled, raised,
                       disturbed>>
        /\ missed' = IF wire' = wire THEN missed \union {c} ELSE missed
    BY <1>0 DEF WriteToMe
  <1>2. /\ wire' \in Seq(C!Frames)
        /\ wire' = wire \/ (up /\ wire' = Append(wire, f) /\ wire' # wire)
    BY <1>0, <1>1, WireGrows DEF TypesOK, C!Kinds
  <1>3. /\ TypesOK' /\ TaskOk(m)' /\ TaskMoves(m)
        /\ task[m] = "send" /\ task'[m] = "done"
    BY <1>0, <1>1, <1>2, WriteMoves DEF clientVars, pathVars
  <1>4. Inv'
    BY <1>0, <1>1, <1>3, TaskKeepsInv DEF clientVars
  <1>5. /\ at[c] = "answer" /\ at' = [at EXCEPT ![c] = "gone"]
        /\ accepted' = accepted /\ answered' = answered
    BY <1>3, AnswerTask
  <1>6. C!ForwardAnswer(c)
    BY <1>1, <1>2, <1>5 DEF C!ForwardAnswer, C!clientVars, C!loopVars, clientVars, loopVars,
                            at, accepted, answered
  <1> QED
    BY <1>4, <1>6 DEF Maps, C!Next, C!Outside

-----------------------------------------------------------------------------
(* The theorem.                                                            *)

LEMMA InitMaps == Init => Inv /\ C!Init
  <1> SUFFICES ASSUME Init PROVE Inv /\ C!Init
    OBVIOUS
  <1>1. /\ pc = [c \in Calls |-> "idle"] /\ wire = <<>>
        /\ transit = [m \in Messages |-> "unsent"]
    BY DEF Init
  <1>2. /\ task = [m \in Messages |-> "new"] /\ todo = [m \in Messages |-> <<>>]
        /\ reciever = [m \in Messages |-> IF m[2] = "call" THEN Peer ELSE Me]
        /\ writing = [m \in Messages |-> {}] /\ sent = [m \in Messages |-> <<>>]
        /\ failedTo = [m \in Messages |-> {}]
    BY DEF Init, N!Init
  <1>3. TypesOK
    BY <1>1, <1>2 DEF TypesOK, PcLabels, Names
  <1>4. \A m \in Messages : TaskOk(m)
    BY <1>1, <1>2 DEF TaskOk
  <1>5. \A c \in Calls : CallOk(c) /\ At(c) = "client" /\ ~Accepted(c)
                         /\ transit[<<c, "answer">>] = "unsent"
    BY <1>1, <1>2, MessageKinds DEF CallOk, At, Accepted, Forwarded
  <1>6. at = [c \in Calls |-> "client"] /\ accepted = {} /\ answered = {}
    BY <1>5 DEF at, accepted, answered
  <1>7. C!Init
    BY <1>6 DEF Init, C!Init, C!Loops, at, accepted, answered
  <1> QED
    BY <1>3, <1>4, <1>5, <1>7 DEF Inv

LEMMA StepMaps == Inv /\ [Next]_vars => Maps
  <1> SUFFICES ASSUME Inv, [Next]_vars PROVE Maps
    OBVIOUS
  <1>1. ASSUME NEW c \in Calls,
               Begin(c) \/ WriteCall(c) \/ Resume(c) \/ Expire(c) \/ Answer(c)
        PROVE  Maps
    BY <1>1, ClientMaps, WriteCallMaps, AnswerMaps
  <1>2. ASSUME NEW m \in Messages, Task(m) PROVE Maps
    BY <1>2, ReceiveMaps, AddressMaps, ReplyToCallMaps, WriteToPeerMaps, ReplyToAnswerMaps,
       WriteToMeMaps DEF Task
  <1>3. CASE Break \/ Reconnect
    BY <1>3, BreakMaps, ReconnectMaps
  <1>4. CASE PeerComesOrGoes \/ \E k \in loops : ReceiveLoopEnds(k)
    BY <1>4, MembershipMaps
  <1>5. CASE UNCHANGED vars
    <2>1. UNCHANGED <<clientVars, routerVars, linkVars, pathVars, loopVars, history>>
      BY <1>5 DEF vars
    <2>2. \A k \in Messages : Untouched(k)
      BY <2>1, Unrouted DEF pathVars
    <2>3. at' = at /\ accepted' = accepted /\ answered' = answered
      BY <2>2, NoneTouched
    <2>4. Inv'
      BY <2>1, <2>2, QuietInv DEF Inv, TypesOK, pathVars, clientVars, linkVars
    <2> QED
      BY <2>1, <2>3, <2>4, RouterStutters DEF Maps
  <1>6. ASSUME NEW k \in C!Loops, Read(k) \/ OnInternalMessage(k) \/ LoopEnds(k)
        PROVE  Maps
    BY <1>6, LoopMaps
  <1> QED
    BY <1>1, <1>2, <1>3, <1>4, <1>5, <1>6 DEF Next

\* The router, the peer and the connection do no more than module Correlation lets
\* them: its environment is not made up, whatever the members of the network, the
\* connections and the names do.
THEOREM HubImplementsCorrelation == Spec => ImplementsCorrelation
  <1>1. Init => Inv /\ C!Init
    BY InitMaps
  <1>2. Inv /\ [Next]_vars => Inv' /\ [C!Next]_C!vars
    BY StepMaps DEF Maps
  <1> QED
    BY <1>1, <1>2, PTL DEF Spec, ImplementsCorrelation, C!Spec

-----------------------------------------------------------------------------
(* What the theorems of module Correlation say here.                       *)

CP == INSTANCE CorrelationProofs

\* The instance in module Hub and the one with the theorems begin alike.
LEMMA SameInit == C!Init => CP!Init
  BY DEF C!Init, CP!Init, C!Loops, CP!Loops, at, accepted, answered

\* A call takes the same steps in both.
LEMMA SameCall ==
    ASSUME NEW c \in Calls, C!Call(c)
    PROVE  CP!Call(c)
  <1> USE DEF C!linkVars, CP!linkVars, C!loopVars, CP!loopVars, C!history, CP!history,
              at, accepted, answered
  <1>1. CASE C!Start(c)
    BY <1>1 DEF C!Start, CP!Start, C!TryAdd, CP!TryAdd, C!HasEnded, CP!HasEnded, CP!Call
  <1>2. CASE C!Write(c)
    BY <1>2 DEF C!Write, CP!Write, C!Awaited, CP!Awaited, CP!Call
  <1>3. CASE C!Resume(c)
    BY <1>3 DEF C!Resume, CP!Resume, CP!Call
  <1>4. CASE C!Expire(c)
    BY <1>4 DEF C!Expire, CP!Expire, C!WaitsInVain, CP!WaitsInVain, CP!Call
  <1> QED
    BY <1>1, <1>2, <1>3, <1>4 DEF C!Call

\* So does what is outside the client.
LEMMA SameOutside ==
    ASSUME NEW c \in Calls, C!Outside(c)
    PROVE  CP!Outside(c)
  <1> USE DEF C!clientVars, CP!clientVars, C!loopVars, CP!loopVars, C!history, CP!history,
              at, accepted, answered, C!Reply, CP!Reply
  <1>1. CASE C!Accept(c)
    BY <1>1 DEF C!Accept, CP!Accept, CP!Outside
  <1>2. CASE C!Refuse(c)
    BY <1>2 DEF C!Refuse, CP!Refuse, CP!Outside
  <1>3. CASE C!AnswerCall(c)
    BY <1>3 DEF C!AnswerCall, CP!AnswerCall, CP!Outside
  <1>4. CASE C!ForwardAnswer(c)
    BY <1>4 DEF C!ForwardAnswer, CP!ForwardAnswer, CP!Outside
  <1> QED
    BY <1>1, <1>2, <1>3, <1>4 DEF C!Outside

\* And the receive loops.
LEMMA SameLoop ==
    ASSUME NEW k \in C!Loops, C!Read(k) \/ C!OnInternalMessage(k) \/ C!LoopEnds(k)
    PROVE  CP!Read(k) \/ CP!OnInternalMessage(k) \/ CP!LoopEnds(k)
  <1> USE DEF C!clientVars, CP!clientVars, C!linkVars, CP!linkVars, C!history, CP!history,
              at, accepted, answered
  <1>1. CASE C!Read(k)
    BY <1>1 DEF C!Read, CP!Read
  <1>2. CASE C!OnInternalMessage(k)
    BY <1>2 DEF C!OnInternalMessage, CP!OnInternalMessage, C!Dispatch, CP!Dispatch,
                C!CompletesAck, CP!CompletesAck, C!CompletesResponse, CP!CompletesResponse,
                C!TakeAck, CP!TakeAck, C!TakeResponse, CP!TakeResponse, C!Raise, CP!Raise
  <1>3. CASE C!LoopEnds(k)
    BY <1>3 DEF C!LoopEnds, CP!LoopEnds
  <1> QED
    BY <1>1, <1>2, <1>3

\* And the connection.
LEMMA SameConnection ==
    ASSUME C!Break \/ C!Restore
    PROVE  CP!Break \/ CP!Restore
  <1> USE DEF C!clientVars, CP!clientVars, C!loopVars, CP!loopVars, C!history, CP!history,
              at, accepted, answered
  <1>1. CASE C!Break
    BY <1>1 DEF C!Break, CP!Break
  <1>2. CASE C!Restore
    BY <1>2 DEF C!Restore, CP!Restore
  <1> QED
    BY <1>1, <1>2

\* Hence every behaviour of the one is a behaviour of the other.
LEMMA SameSpec == C!Spec => CP!Spec
  <1>1. [C!Next]_C!vars => [CP!Next]_CP!vars
    <2>1. ASSUME C!Next PROVE CP!Next
      <3>1. CASE \E c \in Calls : C!Call(c) \/ C!Outside(c)
        BY <3>1, SameCall, SameOutside DEF CP!Next
      <3>2. CASE \E k \in C!Loops : C!Read(k) \/ C!OnInternalMessage(k) \/ C!LoopEnds(k)
        <4>1. C!Loops = CP!Loops
          BY DEF C!Loops, CP!Loops
        <4> QED
          BY <3>2, <4>1, SameLoop DEF CP!Next
      <3>3. CASE C!Break \/ C!Restore
        BY <3>3, SameConnection DEF CP!Next
      <3> QED
        BY <2>1, <3>1, <3>2, <3>3 DEF C!Next
    <2>2. ASSUME UNCHANGED C!vars PROVE UNCHANGED CP!vars
      BY <2>2 DEF C!vars, CP!vars, C!clientVars, CP!clientVars, C!linkVars, CP!linkVars,
                  C!loopVars, CP!loopVars, C!history, CP!history, at, accepted, answered
    <2> QED
      BY <2>1, <2>2
  <1> QED
    BY <1>1, SameInit, PTL DEF C!Spec, CP!Spec

\* The guarantees of HubNetworkClient hold with the router as it is: no step of its
\* tasks, of a lost connection with the receive loop it leaves behind, or of a name
\* that changes hands can make a call return that was not passed on, make an ask
\* return without the ack and the answer to its own message, or waste a frame that
\* arrived.  Only for a disturbed call may the two be taken for each other.
THEOREM HubCallsAreSound == Spec => []CallsAreSound
  <1>1. CP!CallsAssumption
    BY HubCallsAssumption DEF C!CallsAssumption, CP!CallsAssumption, C!Frames, CP!Frames,
                              C!Kinds, CP!Kinds, C!Reused, CP!Reused
  <1>2. CP!Spec => [](CP!OkMeansAccepted /\ CP!OkAskWasAnswered)
    BY <1>1, CP!ReturnedWasAccepted, CP!ReturnedAskWasAnswered, PTL
  <1>3. CP!Spec => [](CP!AnswersComplete /\ CP!OnMessageForMessages)
    BY <1>1, CP!FramesComplete, CP!OnlyMessagesRaised, PTL
  <1>4. /\ CP!OkMeansAccepted => C!OkMeansAccepted
        /\ CP!OkAskWasAnswered => C!OkAskWasAnswered
    BY DEF C!OkMeansAccepted, CP!OkMeansAccepted, C!OkAskWasAnswered, CP!OkAskWasAnswered,
           C!Frames, CP!Frames, C!Kinds, CP!Kinds, accepted, answered
  <1>5. /\ CP!AnswersComplete => C!AnswersComplete
        /\ CP!OnMessageForMessages => C!OnMessageForMessages
    BY DEF C!AnswersComplete, CP!AnswersComplete, C!OnMessageForMessages,
           CP!OnMessageForMessages, C!Reused, CP!Reused
  <1> QED
    BY <1>2, <1>3, <1>4, <1>5, HubImplementsCorrelation, SameSpec, PTL
       DEF ImplementsCorrelation, CallsAreSound

=============================================================================
