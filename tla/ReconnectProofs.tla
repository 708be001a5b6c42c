-------------------------- MODULE ReconnectProofs --------------------------
(***************************************************************************)
(* Proofs about module Reconnect: who replaces the CancellationTokenSource. *)
(* Inv is inductive.  As long as no two callers of Dispose met between its   *)
(* first two statements, the source is cancelled exactly while one caller   *)
(* is past Cancel or the user has disposed the client, and it is disposed   *)
(* exactly when nobody is between the two: Cancel throws for everybody      *)
(* else.  The argument only needs to know what each actor's label can be,   *)
(* whatever the options and the bounds.                                     *)
(***************************************************************************)
EXTENDS Reconnect, TLAPS

Actors == Tasks \union {User}

\* The labels an actor can have.
Labels(a) ==
    IF a = User THEN UserLabels
    ELSE IF a \in Receivers THEN ReceiverLabels
    ELSE IF a \in Heartbeats THEN HeartbeatLabels
    ELSE ReconnectorLabels

\* The labels that CancelledByOne is about.
Marks == {"release", "releaseHere", "reset", "resetHere", "stuck", "joining", "disposed"}

\* Nobody replaces the source once the user has disposed the client.
NobodyAfterUser ==
    ~Overlapped => (pc[User] = "disposed" => \A a \in Owners : ~Replacing(a))

\* Between Cancel and Dispose of the source.
Releasing(a) == pc[a] \in {"release", "releaseHere"}

\* A cancelled source is disposed unless somebody is about to dispose it.
Released ==
    ~Overlapped => /\ disposed => cancelled
                   /\ cancelled /\ ~disposed <=> \E a \in Owners : Releasing(a)

\* The tasks of connections still to come have not been started.
Unstarted == connects \in Nat /\ \A t \in Tasks : t[2] > connects => pc[t] = "none"

Inv ==
    /\ cancelled \in BOOLEAN /\ disposed \in BOOLEAN /\ overlaps \in Nat /\ PcOK
    /\ OneReplacer /\ CancelledByOne /\ NobodyAfterUser /\ Released
    /\ Unstarted

-----------------------------------------------------------------------------
(* Labels.                                                                 *)

LEMMA Kinds ==
    /\ Actors = Receivers \union Heartbeats \union Reconnectors \union {User}
    /\ Owners = Reconnectors \union {User}
    /\ \A t \in Receivers : t \notin Heartbeats /\ t \notin Reconnectors /\ t # User
    /\ \A t \in Heartbeats : t \notin Receivers /\ t \notin Reconnectors /\ t # User
    /\ \A t \in Reconnectors : t \notin Receivers /\ t \notin Heartbeats /\ t # User
  BY DEF Actors, Owners, Tasks, User, Receivers, Heartbeats, Reconnectors

LEMMA TaskNumber == \A t \in Tasks : t[2] \in Int
  BY BoundsAssumption DEF Tasks, Receivers, Heartbeats, Reconnectors, Connections

LEMMA PcTyped ==
    PcOK <=> pc = [a \in Actors |-> pc[a]] /\ \A a \in Actors : pc[a] \in Labels(a)
  BY Kinds DEF PcOK, Labels, Actors

\* The invariant depends on the marks of the owners and on the source only.
LEMMA Unmarked ==
  ASSUME Inv, PcOK', Unstarted', UNCHANGED <<source, overlaps>>,
         \A a \in Owners : pc[a] \in Marks \/ pc'[a] \in Marks => pc'[a] = pc[a]
  PROVE  Inv'
  <1>1. \A a \in Owners : /\ Replacing(a)' <=> Replacing(a)
                          /\ Releasing(a)' <=> Releasing(a)
    BY DEF Marks, Replacing, Releasing
  <1>2. pc'[User] = "disposed" <=> pc[User] = "disposed"
    BY Kinds DEF Marks
  <1>3. cancelled' = cancelled /\ disposed' = disposed /\ overlaps' = overlaps
    BY DEF source
  <1>4. OneReplacer'
    BY <1>1, <1>3 DEF Inv, OneReplacer, Overlapped
  <1>5. CancelledByOne'
    BY <1>1, <1>2, <1>3 DEF Inv, CancelledByOne, Overlapped
  <1>6. NobodyAfterUser'
    BY <1>1, <1>2, <1>3 DEF Inv, NobodyAfterUser, Overlapped
  <1>7. Released'
    BY <1>1, <1>3 DEF Inv, Released, Overlapped
  <1> QED
    BY <1>3, <1>4, <1>5, <1>6, <1>7 DEF Inv

\* One actor goes to a label of its kind.
LEMMA StepTyped ==
  ASSUME NEW a \in Actors, NEW l \in Labels(a), PcOK, pc' = [pc EXCEPT ![a] = l]
  PROVE  PcOK' /\ pc'[a] = l /\ \A b \in Actors \ {a} : pc'[b] = pc[b]
  <1>1. pc = [b \in Actors |-> pc[b]] /\ \A b \in Actors : pc[b] \in Labels(b)
    BY PcTyped
  <1>2. pc' = [b \in Actors |-> IF b = a THEN l ELSE pc[b]]
    BY <1>1
  <1>3. pc' = [b \in Actors |-> pc'[b]] /\ \A b \in Actors : pc'[b] \in Labels(b)
    BY <1>1, <1>2
  <1>4. PcOK'
    BY <1>3, Kinds DEF PcOK, Labels, Actors
  <1> QED
    BY <1>2, <1>4

LEMMA GotoTyped ==
  ASSUME NEW a \in Actors, NEW l \in Labels(a), PcOK, Goto(a, l)
  PROVE  PcOK' /\ pc'[a] = l /\ \A b \in Actors \ {a} : pc'[b] = pc[b]
  BY StepTyped DEF Goto

\* A step of one actor that leaves the source alone and is not about the marks.
LEMMA GotoUnmarked ==
  ASSUME NEW a \in Actors, NEW l \in Labels(a), Inv, Goto(a, l),
         UNCHANGED <<source, overlaps>>, connects' = connects,
         pc[a] \notin Marks \union {"none"}, l \notin Marks
  PROVE  Inv'
  <1>1. PcOK' /\ pc'[a] = l /\ \A b \in Actors \ {a} : pc'[b] = pc[b]
    BY GotoTyped DEF Inv
  <1>2. \A b \in Owners : pc[b] \in Marks \/ pc'[b] \in Marks => pc'[b] = pc[b]
    BY <1>1, Kinds
  <1>3. Unstarted'
    BY <1>1 DEF Inv, Unstarted, Actors
  <1> QED
    BY <1>1, <1>2, <1>3, Unmarked

-----------------------------------------------------------------------------
(* Steps that are not about the source: one label, none of the marks.       *)

LEMMA ReceiverStep ==
  ASSUME Inv, NEW t \in Receivers,
         RecieveMessages(t) \/ EmitDisconnectAndWait(t) \/ Read(t) \/ ReadThrows(t)
  PROVE  Inv'
  <1>1. t \in Actors /\ Labels(t) = ReceiverLabels
    BY Kinds DEF Labels
  <1>2. pc[t] \in {"new", "loop", "waiting", "reading", "emit", "emitted", "blocked"}
    BY DEF RecieveMessages, NextRead, AtLoop, AfterWait, ReadFails, EmitDisconnectAndWait,
        EmitDisconnect, AwaitRestored, Restored, Read, ReadThrows
  <1>3. UNCHANGED <<source, overlaps>> /\ connects' = connects
    BY DEF RecieveMessages, NextRead, AfterWait, ReadFails, EmitDisconnectAndWait,
        EmitDisconnect, AwaitRestored, Restored, Read, ReadThrows, Moves, others, bounds
  <1>4. PICK l \in {"loop", "waiting", "reading", "emit", "emitted", "blocked", "ended"} : Goto(t, l)
    BY DEF RecieveMessages, NextRead, AfterWait, ReadFails, EmitDisconnectAndWait,
        EmitDisconnect, AwaitRestored, Restored, Read, ReadThrows, Moves, StartOfRead
  <1>5. l \in Labels(t)
    BY <1>1 DEF ReceiverLabels, Loop
  <1> QED
    BY <1>1, <1>2, <1>3, <1>4, <1>5, GotoUnmarked DEF Marks

LEMMA HeartbeatStep ==
  ASSUME Inv, NEW t \in Heartbeats, HeartbeatSender(t) \/ EmitDisconnectAndWait(t)
  PROVE  Inv'
  <1>1. t \in Actors /\ Labels(t) = HeartbeatLabels
    BY Kinds DEF Labels
  <1>2. pc[t] \in {"new", "loop", "waiting", "writing", "listening", "delay",
                   "emit", "emitted", "blocked"}
    BY DEF HeartbeatSender, NextBeat, AtLoop, AfterWait, Beat, Listen, BeatDelay,
        EmitDisconnectAndWait, EmitDisconnect, AwaitRestored, Restored
  <1>3. UNCHANGED <<source, overlaps>> /\ connects' = connects
    BY DEF HeartbeatSender, NextBeat, AfterWait, Beat, Listen, BeatDelay,
        EmitDisconnectAndWait, EmitDisconnect, AwaitRestored, Restored, Moves, others, bounds
  <1>4. PICK l \in {"loop", "waiting", "writing", "listening", "delay",
                    "emit", "emitted", "blocked", "ended"} : Goto(t, l)
    BY Kinds DEF HeartbeatSender, NextBeat, AfterWait, Beat, Listen, BeatDelay,
        EmitDisconnectAndWait, EmitDisconnect, AwaitRestored, Restored, Moves
  <1>5. l \in Labels(t)
    BY <1>1 DEF HeartbeatLabels, Loop
  <1> QED
    BY <1>1, <1>2, <1>3, <1>4, <1>5, GotoUnmarked DEF Marks

LEMMA ReconnectStep ==
  ASSUME Inv, NEW t \in Reconnectors, Reconnect(t)
  PROVE  Inv'
  <1>1. t \in Actors /\ Labels(t) = ReconnectorLabels
    BY Kinds DEF Labels
  <1>2. pc[t] \in {"new", "loop", "watching", "restore", "clear", "signal", "retry", "delay"}
    BY DEF Reconnect, Watch, AtLoop, LossSeen, SetConnected, ResetLost, SetRestored, Retry
  <1>3. UNCHANGED <<source, overlaps>> /\ connects' = connects
    BY DEF Reconnect, Watch, LossSeen, SetConnected, ResetLost, SetRestored, Retry, Moves, others, bounds
  <1>4. PICK l \in {"loop", "watching", "disposeHere", "dispose", "clear", "signal",
                    "delay", "ended"} : Goto(t, l)
    BY DEF Reconnect, Watch, LossSeen, SetConnected, ResetLost, SetRestored, Retry, Moves
  <1>5. l \in Labels(t)
    BY <1>1 DEF ReconnectorLabels, Calls
  <1> QED
    BY <1>1, <1>2, <1>3, <1>4, <1>5, GotoUnmarked DEF Marks

\* The labels that ConnectAsync returns to.
LEMMA ConnectLabels ==
  ASSUME NEW a \in Owners
  PROVE  /\ a \in Actors
         /\ Thrown(a) \in Labels(a) \ Marks /\ Returned(a) \in Labels(a) \ Marks
         /\ "connecting" \in Labels(a) \ Marks /\ "shaking" \in Labels(a) \ Marks
         /\ "starting" \in Labels(a) \ Marks
  BY Kinds DEF Labels, Thrown, Returned, UserLabels, ReconnectorLabels, Calls, Marks

LEMMA StartStep ==
  ASSUME Inv, NEW a \in Owners, StartTasks(a)
  PROVE  Inv'
  <1> DEFINE S == Started(connects + 1)
  <1>1. a \in Actors /\ Returned(a) \in Labels(a) \ Marks
    BY ConnectLabels
  <1>2. pc = [b \in Actors |-> pc[b]] /\ \A b \in Actors : pc[b] \in Labels(b)
    BY PcTyped DEF Inv
  <1>3. pc[a] = "starting" /\ UNCHANGED <<source, overlaps>> /\ connects' = connects + 1
    BY DEF StartTasks, bounds
  <1>4. pc' = [b \in Actors |-> IF b = a THEN Returned(a) ELSE IF b \in S THEN "new" ELSE pc[b]]
    BY <1>2 DEF StartTasks
  <1>5. connects \in Nat /\ \A b \in S : b[2] = connects + 1 /\ b # User
    BY DEF Inv, Unstarted, Started, User
  <1>6. \A b \in Tasks : b \in S => pc[b] = "none"
    BY <1>5 DEF Inv, Unstarted
  <1>7. \A b \in Tasks : "new" \in Labels(b)
    BY DEF Labels, ReceiverLabels, HeartbeatLabels, ReconnectorLabels, Loop, Tasks, User,
        Receivers, Heartbeats, Reconnectors
  <1>8. pc' = [b \in Actors |-> pc'[b]] /\ \A b \in Actors : pc'[b] \in Labels(b)
    BY <1>1, <1>2, <1>4, <1>5, <1>7 DEF Actors
  <1>9. PcOK'
    BY <1>8, Kinds DEF PcOK, Labels, Actors
  <1>10. Unstarted'
    <2>1. \A t \in Tasks : t[2] > connects + 1 => t[2] > connects /\ t[2] # connects + 1
      BY <1>5, TaskNumber
    <2>2. \A t \in Tasks : t[2] > connects + 1 => pc[t] = "none" /\ t \notin S /\ t # a
      BY <1>3, <1>5, <2>1 DEF Inv, Unstarted
    <2>3. \A t \in Tasks : t[2] > connects + 1 => pc'[t] = "none"
      BY <1>4, <2>2 DEF Actors
    <2> QED
      BY <1>3, <1>5, <2>3 DEF Unstarted
  <1>11. ASSUME NEW b \in Owners, pc[b] \in Marks \/ pc'[b] \in Marks
         PROVE  pc'[b] = pc[b]
    <2>1. b \in Actors /\ (b = User \/ b \in Tasks)
      BY Kinds DEF Actors
    <2>2. b # a
      BY <1>1, <1>3, <1>4, <1>11 DEF Marks
    <2>3. b \notin S
      BY <1>4, <1>5, <1>6, <1>11, <2>1, <2>2 DEF Marks
    <2> QED
      BY <1>4, <2>1, <2>2, <2>3
  <1> QED
    BY <1>3, <1>9, <1>10, <1>11, Unmarked

LEMMA ConnectStep ==
  ASSUME Inv, NEW a \in Owners, ConnectAsync(a)
  PROVE  Inv'
  <1> DEFINE L == {Thrown(a), Returned(a), "connecting", "shaking", "starting"}
  <1>1. a \in Actors /\ L \subseteq Labels(a) /\ L \cap Marks = {}
    BY ConnectLabels
  <1>2. CASE StartTasks(a)
    BY <1>2, StartStep
  <1>3. CASE Connect(a) \/ SendInit(a) \/ Refused(a) \/ AttemptFails(a) \/ Connected(a)
    <2>1. pc[a] \in {"connect", "connecting", "shaking"}
      BY <1>3 DEF Connect, SendInit, Refused, AttemptFails, Connected
    <2>2. UNCHANGED <<source, overlaps>> /\ connects' = connects
      BY <1>3 DEF Connect, SendInit, Refused, AttemptFails, Connected, Moves, others, bounds
    <2>3. PICK l \in L : Goto(a, l)
      BY <1>3 DEF Connect, SendInit, Refused, AttemptFails, Connected, Moves
    <2>4. l \in Labels(a) /\ l \notin Marks
      BY <1>1
    <2> QED
      BY <1>1, <2>1, <2>2, <2>3, <2>4, GotoUnmarked DEF Marks
  <1> QED
    BY <1>2, <1>3 DEF ConnectAsync

-----------------------------------------------------------------------------
(* Dispose.                                                                *)

LEMMA NobodyReplaces ==
  ASSUME Inv, ~cancelled, ~Overlapped
  PROVE  pc[User] # "disposed" /\ \A a \in Owners : pc[a] \notin Marks
  <1>1. pc[User] # "disposed" /\ \A a \in Owners : ~Replacing(a)
    BY DEF Inv, CancelledByOne
  <1>2. \A a \in Reconnectors : pc[a] # "disposed"
    BY DEF Inv, PcOK, ReconnectorLabels, Calls
  <1> QED
    BY <1>1, <1>2, Kinds DEF Replacing, Marks

\* A caller past Cancel is the only one.
LEMMA OnlyReplacer ==
  ASSUME Inv, NEW a \in Owners, Replacing(a), ~Overlapped
  PROVE  cancelled /\ pc[User] # "disposed" /\ \A b \in Owners \ {a} : pc[b] \notin Marks
  <1>1. cancelled /\ pc[User] # "disposed" /\ \A b \in Owners \ {a} : ~Replacing(b)
    BY DEF Inv, OneReplacer, CancelledByOne, NobodyAfterUser
  <1>2. \A b \in Reconnectors : pc[b] # "disposed"
    BY DEF Inv, PcOK, ReconnectorLabels, Calls
  <1> QED
    BY <1>1, <1>2, Kinds DEF Replacing, Marks

\* Once two callers met, the invariant is only about types.
LEMMA Met ==
  ASSUME Inv, PcOK', Unstarted', Overlapped', overlaps' \in Nat,
         cancelled' \in BOOLEAN, disposed' \in BOOLEAN
  PROVE  Inv'
  BY DEF Inv, OneReplacer, CancelledByOne, NobodyAfterUser, Released

\* A step after which a is the only owner with a mark, and is past Cancel.
LEMMA MarkedAlone ==
  ASSUME Inv, PcOK', Unstarted', overlaps' = overlaps, cancelled', disposed' \in BOOLEAN,
         NEW a \in Owners, Replacing(a)', disposed' <=> ~Releasing(a)',
         \A b \in Owners \ {a} : pc'[b] \notin Marks
  PROVE  Inv'
  <1>1. \A b \in Owners : Replacing(b)' <=> b = a
    BY DEF Replacing, Marks
  <1>2. \A b \in Owners : Releasing(b)' => b = a
    BY DEF Releasing, Marks
  <1>3. pc'[User] # "disposed"
    BY Kinds DEF Replacing, Marks
  <1>4. overlaps' \in Nat /\ cancelled' \in BOOLEAN
    BY DEF Inv
  <1> QED
    BY <1>1, <1>2, <1>3, <1>4
       DEF Inv, OneReplacer, CancelledByOne, NobodyAfterUser, Released

LEMMA CancelStep ==
  ASSUME Inv, NEW a \in Owners, CancelSource(a)
  PROVE  Inv'
  <1>1. /\ pc = [b \in Actors |-> pc[b]] /\ \A b \in Actors : pc[b] \in Labels(b)
        /\ a \in Actors
    BY PcTyped, Kinds DEF Inv
  <1>2. pc' = [b \in Actors |-> IF b = a THEN AfterCall(a) ELSE AfterCancel(b)]
    BY <1>1 DEF CancelSource
  <1>3. AfterCall(a) \in Labels(a)
    <2>1. CASE a = User
      BY <2>1 DEF Inv, PcOK, CancelSource, AtCancel, AfterCall, Labels, UserLabels, Calls
    <2>2. CASE a # User
      BY <2>2, Kinds DEF AfterCall, Labels, ReconnectorLabels, Calls
    <2> QED
      BY <2>1, <2>2
  <1>4. ASSUME NEW b \in Actors
        PROVE  AfterCancel(b) \in Labels(b)
    <2>1. pc[b] \in Labels(b)
      BY <1>1
    <2>2. CASE b \notin Waiting \ deaf
      BY <2>1, <2>2 DEF AfterCancel
    <2>3. CASE b \in Waiting \ deaf
      BY <2>1, <2>3 DEF AfterCancel, Waiting, Labels, UserLabels, ReceiverLabels,
          HeartbeatLabels, ReconnectorLabels, Calls, Loop
    <2> QED
      BY <2>2, <2>3
  <1>5. pc' = [b \in Actors |-> pc'[b]] /\ \A b \in Actors : pc'[b] \in Labels(b)
    BY <1>1, <1>2, <1>3, <1>4
  <1>6. PcOK'
    BY <1>5, Kinds DEF PcOK, Labels, Actors
  <1>7. pc'[a] \in {"release", "releaseHere"}
    BY <1>1, <1>2 DEF AfterCall
  <1>8. ~cancelled /\ ~disposed /\ cancelled' /\ disposed' = disposed /\ overlaps' = overlaps
        /\ connects' = connects /\ pc[a] # "none"
    BY DEF CancelSource, bounds, AtCancel
  <1>9. Unstarted'
    <2>1. \A t \in Tasks : pc[t] = "none" => pc'[t] = "none"
      BY <1>2, <1>8 DEF AfterCancel, Waiting, Actors
    <2> QED
      BY <1>8, <2>1 DEF Inv, Unstarted
  <1>10. CASE Overlapped
    BY <1>6, <1>8, <1>9, <1>10, Met DEF Inv, Overlapped
  <1>11. CASE ~Overlapped
    <2>1. \A b \in Owners \ {a} : pc[b] \notin Marks
      BY <1>8, <1>11, NobodyReplaces
    <2>2. \A b \in Owners \ {a} : AfterCancel(b) \notin Marks
      BY <2>1 DEF AfterCancel, Marks
    <2>3. \A b \in Owners \ {a} : pc'[b] \notin Marks
      BY <1>2, <2>2, Kinds
    <2>4. Replacing(a)' /\ Releasing(a)'
      BY <1>7 DEF Replacing, Releasing
    <2> QED
      BY <1>6, <1>8, <1>9, <2>3, <2>4, MarkedAlone DEF Inv
  <1> QED
    BY <1>10, <1>11

LEMMA AgainStep ==
  ASSUME Inv, NEW a \in Owners, CancelsAgain(a)
  PROVE  Inv'
  <1>1. PICK l \in {"release", "releaseHere"} :
            Goto(a, l) /\ (l = "release" <=> pc[a] = "dispose")
    BY DEF CancelsAgain, AfterCall
  <1>2. a \in Actors /\ l \in Labels(a)
    <2>1. a \in Actors /\ pc[a] \in Labels(a) /\ pc[a] \in {"dispose", "disposeHere"}
      BY PcTyped, Kinds DEF Inv, CancelsAgain, AtCancel
    <2>2. CASE a = User
      BY <1>1, <2>1, <2>2 DEF Labels, UserLabels, Calls
    <2>3. CASE a # User
      BY <2>1, <2>3, Kinds DEF Labels, ReconnectorLabels, Calls
    <2> QED
      BY <2>1, <2>2, <2>3
  <1>3. PcOK' /\ pc'[a] = l /\ \A b \in Actors \ {a} : pc'[b] = pc[b]
    BY <1>1, <1>2, GotoTyped DEF Inv
  <1>4. UNCHANGED source /\ overlaps' = overlaps + 1 /\ connects' = connects /\ pc[a] # "none"
    BY DEF CancelsAgain, AtCancel
  <1>5. Unstarted'
    BY <1>3, <1>4 DEF Inv, Unstarted, Actors
  <1>6. overlaps' \in Nat /\ Overlapped' /\ cancelled' \in BOOLEAN /\ disposed' \in BOOLEAN
    BY <1>4 DEF Inv, Overlapped, source
  <1> QED
    BY <1>3, <1>5, <1>6, Met

LEMMA ThrowStep ==
  ASSUME Inv, NEW a \in Owners, CancelThrows(a)
  PROVE  Inv'
  <1>1. PICK l \in {"done", "retry"} : Goto(a, l) /\ (l = "done" <=> a = User)
    BY DEF CancelThrows, Moves
  <1>2. a \in Actors /\ l \in Labels(a)
    BY <1>1, Kinds DEF Labels, UserLabels, ReconnectorLabels
  <1>3. /\ pc[a] \in {"dispose", "disposeHere"}
        /\ UNCHANGED <<source, overlaps>> /\ connects' = connects
    BY DEF CancelThrows, AtCancel, Moves, others, bounds
  <1> QED
    BY <1>1, <1>2, <1>3, GotoUnmarked DEF Marks

LEMMA ReleaseStep ==
  ASSUME Inv, NEW a \in Owners, DisposeSource(a)
  PROVE  Inv'
  <1>1. PICK l \in {"reset", "resetHere"} :
            pc' = [pc EXCEPT ![a] = l] /\ (l = "reset" <=> pc[a] = "release")
    BY DEF DisposeSource
  <1>2. a \in Actors /\ l \in Labels(a)
    <2>1. a \in Actors /\ pc[a] \in Labels(a) /\ pc[a] \in {"release", "releaseHere"}
      BY PcTyped, Kinds DEF Inv, DisposeSource
    <2>2. CASE a = User
      BY <1>1, <2>1, <2>2 DEF Labels, UserLabels, Calls
    <2>3. CASE a # User
      BY <2>1, <2>3, Kinds DEF Labels, ReconnectorLabels, Calls
    <2> QED
      BY <2>1, <2>2, <2>3
  <1>3. PcOK' /\ pc'[a] = l /\ \A b \in Actors \ {a} : pc'[b] = pc[b]
    BY <1>1, <1>2, StepTyped DEF Inv
  <1>4. /\ disposed' /\ cancelled' = cancelled /\ overlaps' = overlaps /\ connects' = connects
        /\ pc[a] # "none"
    BY DEF DisposeSource, bounds
  <1>5. Unstarted'
    BY <1>3, <1>4 DEF Inv, Unstarted, Actors
  <1>6. CASE Overlapped
    BY <1>3, <1>4, <1>5, <1>6, Met DEF Inv, Overlapped
  <1>7. CASE ~Overlapped
    <2>1. cancelled /\ \A b \in Owners \ {a} : pc[b] \notin Marks
      BY <1>7, OnlyReplacer DEF DisposeSource, Replacing
    <2>2. \A b \in Owners \ {a} : pc'[b] \notin Marks
      BY <1>3, <2>1, Kinds
    <2>3. Replacing(a)' /\ ~Releasing(a)'
      BY <1>3 DEF Replacing, Releasing
    <2> QED
      BY <1>3, <1>4, <1>5, <2>1, <2>2, <2>3, MarkedAlone
  <1> QED
    BY <1>6, <1>7

LEMMA ResetStep ==
  ASSUME Inv, NEW a \in Owners, ResetSocket(a)
  PROVE  Inv'
  <1>1. /\ pc = [b \in Actors |-> pc[b]] /\ \A b \in Actors : pc[b] \in Labels(b)
        /\ a \in Actors
    BY PcTyped, Kinds DEF Inv
  <1>2. PICK l \in {"stuck", "joining"} :
            /\ pc' = [b \in Actors |-> IF b # a THEN AfterReset(b) ELSE l]
            /\ l = "stuck" => pc[a] = "resetHere"
    BY <1>1 DEF ResetSocket
  <1>3. l \in Labels(a)
    <2>1. CASE a = User
      BY <1>2, <2>1 DEF Inv, PcOK, Labels, UserLabels, Calls
    <2>2. CASE a # User
      BY <2>2, Kinds DEF Labels, ReconnectorLabels, Calls
    <2> QED
      BY <2>1, <2>2
  <1>4. ASSUME NEW b \in Actors
        PROVE  AfterReset(b) \in Labels(b)
    <2>1. pc[b] \in Labels(b)
      BY <1>1
    <2>2. CASE pc[b] = "reading"
      BY <2>1, <2>2 DEF AfterReset, Labels, UserLabels, ReceiverLabels, HeartbeatLabels,
          ReconnectorLabels, Calls, Loop
    <2>3. CASE pc[b] \in {"connecting", "shaking"}
      <3>1. b \in Owners
        BY <2>1, <2>3, Kinds DEF Labels, ReceiverLabels, HeartbeatLabels, Loop
      <3> QED
        BY <2>3, <3>1, ConnectLabels DEF AfterReset
    <2>4. CASE pc[b] \notin {"reading", "connecting", "shaking"}
      BY <2>1, <2>4 DEF AfterReset
    <2> QED
      BY <2>2, <2>3, <2>4
  <1>5. pc' = [b \in Actors |-> pc'[b]] /\ \A b \in Actors : pc'[b] \in Labels(b)
    BY <1>1, <1>2, <1>3, <1>4
  <1>6. PcOK'
    BY <1>5, Kinds DEF PcOK, Labels, Actors
  <1>7. /\ pc'[a] \in {"stuck", "joining"} /\ pc[a] \in {"reset", "resetHere"}
        /\ UNCHANGED source /\ overlaps' = overlaps /\ connects' = connects
    BY <1>1, <1>2 DEF ResetSocket, bounds
  <1>8. Unstarted'
    <2>1. \A t \in Tasks : pc[t] = "none" => pc'[t] = "none"
      BY <1>2, <1>7 DEF AfterReset, Actors
    <2> QED
      BY <1>7, <2>1 DEF Inv, Unstarted
  <1>9. CASE Overlapped
    BY <1>6, <1>7, <1>8, <1>9, Met DEF Inv, Overlapped, source
  <1>10. CASE ~Overlapped
    <2>1. cancelled /\ \A b \in Owners \ {a} : pc[b] \notin Marks
      BY <1>7, <1>10, OnlyReplacer DEF Replacing
    <2>2. \A b \in Owners \ {a} : pc'[b] \notin Marks
      BY <1>2, <2>1, Kinds DEF AfterReset, Thrown, Marks
    <2>3. disposed
      <3>1. \A b \in Owners : ~Releasing(b)
        BY <1>7, <2>1 DEF Releasing, Marks
      <3> QED
        BY <1>10, <2>1, <3>1 DEF Inv, Released
    <2>4. Replacing(a)' /\ ~Releasing(a)'
      BY <1>7 DEF Replacing, Releasing
    <2> QED
      BY <1>6, <1>7, <1>8, <2>1, <2>2, <2>3, <2>4, MarkedAlone DEF source
  <1> QED
    BY <1>9, <1>10

LEMMA JoinStep ==
  ASSUME Inv, NEW a \in Owners, Join(a)
  PROVE  Inv'
  <1> DEFINE l == IF a = User THEN "disposed" ELSE "connect"
  <1>1. /\ pc' = [pc EXCEPT ![a] = l] /\ connects' = connects /\ overlaps' = overlaps
        /\ pc[a] = "joining"
    BY DEF Join, bounds
  <1>2. a \in Actors /\ l \in Labels(a)
    BY Kinds DEF Labels, UserLabels, ReconnectorLabels, Calls
  <1>3. PcOK' /\ pc'[a] = l /\ \A b \in Actors \ {a} : pc'[b] = pc[b]
    BY <1>1, <1>2, StepTyped DEF Inv
  <1>4. cancelled' = (a = User /\ cancelled) /\ disposed' = (a = User /\ disposed)
    BY DEF Join, source, Inv
  <1>5. Unstarted'
    BY <1>1, <1>3 DEF Inv, Unstarted, Actors
  <1>6. CASE Overlapped
    BY <1>1, <1>3, <1>4, <1>5, <1>6, Met DEF Inv, Overlapped
  <1>7. CASE ~Overlapped
    <2>1. cancelled /\ \A b \in Owners \ {a} : pc[b] \notin Marks
      BY <1>1, <1>7, OnlyReplacer DEF Replacing
    <2>2. \A b \in Owners \ {a} : pc'[b] \notin Marks
      BY <1>3, <2>1, Kinds
    <2>3. disposed
      <3>1. \A b \in Owners : ~Releasing(b)
        BY <1>1, <2>1 DEF Releasing, Marks
      <3> QED
        BY <1>7, <2>1, <3>1 DEF Inv, Released
    <2>4. \A b \in Owners : ~Replacing(b)' /\ ~Releasing(b)'
      BY <1>3, <2>2 DEF Replacing, Releasing, Marks
    <2>5. pc'[User] = "disposed" <=> a = User
      BY <1>3, <2>2, Kinds DEF Marks
    <2>6. cancelled' = (a = User) /\ disposed' = (a = User) /\ overlaps' \in Nat
      BY <1>1, <1>4, <2>1, <2>3 DEF Inv
    <2> QED
      BY <1>3, <1>5, <2>4, <2>5, <2>6
         DEF Inv, OneReplacer, CancelledByOne, NobodyAfterUser, Released
  <1> QED
    BY <1>6, <1>7

LEMMA UserStep ==
  ASSUME Inv, UserConnects \/ UserDisposes
  PROVE  Inv'
  <1>1. PICK l \in {"connect", "dispose"} : Goto(User, l)
    BY DEF UserConnects, UserDisposes, Moves
  <1>2. User \in Actors /\ l \in Labels(User)
    BY Kinds DEF Labels, UserLabels, Calls
  <1>3. /\ pc[User] \in {"idle", "failed", "done"}
        /\ UNCHANGED <<source, overlaps>> /\ connects' = connects
    BY DEF UserConnects, UserDisposes, Moves, others, bounds
  <1> QED
    BY <1>1, <1>2, <1>3, GotoUnmarked DEF Marks

-----------------------------------------------------------------------------
(* The invariant and the theorems.                                         *)

LEMMA InvInit == Init => Inv
  <1> SUFFICES ASSUME Init PROVE Inv
    OBVIOUS
  <1>1. pc = [a \in Actors |-> IF a = User THEN "idle" ELSE "none"]
    BY DEF Init, Actors
  <1>2. PcOK /\ pc[User] = "idle" /\ \A t \in Tasks : pc[t] = "none"
    <2>1. pc = [a \in Actors |-> pc[a]]
      BY <1>1
    <2>2. pc[User] = "idle"
      BY <1>1 DEF Actors
    <2>3. \A t \in Tasks : pc[t] = "none"
      BY <1>1, Kinds DEF Actors, Tasks
    <2> QED
      BY <2>1, <2>2, <2>3, Kinds DEF PcOK, UserLabels, ReceiverLabels, HeartbeatLabels,
          ReconnectorLabels, Loop, Actors, Tasks
  <1>3. \A a \in Owners : ~Replacing(a) /\ ~Releasing(a)
    BY <1>2 DEF Owners, Tasks, Replacing, Releasing
  <1> QED
    BY <1>2, <1>3
       DEF Init, Inv, OneReplacer, CancelledByOne, NobodyAfterUser, Released, Unstarted

LEMMA InvStep == Inv /\ [Next]_vars => Inv'
  <1> SUFFICES ASSUME Inv, [Next]_vars PROVE Inv'
    OBVIOUS
  <1>1. CASE UserConnects \/ UserDisposes
    BY <1>1, UserStep
  <1>2. CASE Break
    <2>1. UNCHANGED <<pc, source, overlaps, connects>>
      BY <1>2 DEF Break, where
    <2>2. PcOK' /\ Unstarted'
      BY <2>1 DEF Inv, PcOK, Unstarted
    <2> QED
      BY <2>1, <2>2, Unmarked
  <1>3. ASSUME NEW a \in Owners, Dispose(a)
        PROVE  Inv'
    BY <1>3, CancelStep, AgainStep, ThrowStep, ReleaseStep, ResetStep, JoinStep DEF Dispose
  <1>4. ASSUME NEW a \in Owners, ConnectAsync(a)
        PROVE  Inv'
    BY <1>4, ConnectStep
  <1>5. ASSUME NEW t \in Receivers,
               RecieveMessages(t) \/ EmitDisconnectAndWait(t) \/ Read(t) \/ ReadThrows(t)
        PROVE  Inv'
    BY <1>5, ReceiverStep
  <1>6. ASSUME NEW t \in Heartbeats, HeartbeatSender(t) \/ EmitDisconnectAndWait(t)
        PROVE  Inv'
    BY <1>6, HeartbeatStep
  <1>7. ASSUME NEW t \in Reconnectors, Reconnect(t)
        PROVE  Inv'
    BY <1>7, ReconnectStep
  <1>8. CASE UNCHANGED vars
    <2>1. UNCHANGED <<pc, source, overlaps, connects>>
      BY <1>8 DEF vars, where, others, bounds
    <2>2. PcOK' /\ Unstarted'
      BY <2>1 DEF Inv, PcOK, Unstarted
    <2> QED
      BY <2>1, <2>2, Unmarked
  <1> QED
    BY <1>1, <1>2, <1>3, <1>4, <1>5, <1>6, <1>7, <1>8, Kinds DEF Next

\* No step moves a user who disposed the client.
LEMMA UserStays ==
  ASSUME Inv, Next, pc[User] = "disposed"
  PROVE  pc'[User] = "disposed"
  <1> DEFINE Elsewhere == \E t \in Tasks : \E l : Goto(t, l)
  <1>1. pc = [b \in Actors |-> pc[b]] /\ User \in Actors /\ User \notin Tasks
    BY Kinds DEF Inv, PcOK, Actors, Tasks
  <1>2. ASSUME Elsewhere
        PROVE  pc'[User] = "disposed"
    BY <1>1, <1>2 DEF Goto
  <1>3. ASSUME NEW a \in Owners, ConnectAsync(a)
        PROVE  pc'[User] = "disposed"
    <2>1. a # User
      BY <1>3 DEF ConnectAsync, Connect, SendInit, Refused, AttemptFails, Connected, StartTasks
    <2>2. CASE StartTasks(a)
      <3>1. User \notin Started(connects + 1)
        BY DEF Started, User
      <3> QED
        BY <1>1, <2>1, <2>2, <3>1 DEF StartTasks
    <2>3. CASE Connect(a) \/ SendInit(a) \/ Refused(a) \/ AttemptFails(a) \/ Connected(a)
      BY <1>1, <2>1, <2>3 DEF Connect, SendInit, Refused, AttemptFails, Connected, Moves, Goto
    <2> QED
      BY <1>3, <2>2, <2>3 DEF ConnectAsync
  <1>4. ASSUME NEW a \in Owners, Dispose(a)
        PROVE  pc'[User] = "disposed"
    <2>1. a # User
      BY <1>4 DEF Dispose, CancelSource, CancelsAgain, CancelThrows, AtCancel, DisposeSource,
          ResetSocket, Join
    <2>2. CASE CancelSource(a)
      BY <1>1, <2>1, <2>2 DEF CancelSource, AfterCancel, Waiting
    <2>3. CASE ResetSocket(a)
      BY <1>1, <2>1, <2>3 DEF ResetSocket, AfterReset
    <2>4. CASE CancelsAgain(a) \/ CancelThrows(a)
      BY <1>1, <2>1, <2>4 DEF CancelsAgain, CancelThrows, Moves, Goto
    <2>5. CASE DisposeSource(a) \/ Join(a)
      BY <1>1, <2>1, <2>5 DEF DisposeSource, Join
    <2> QED
      BY <1>4, <2>2, <2>3, <2>4, <2>5 DEF Dispose
  <1>5. ASSUME NEW t \in Receivers,
               RecieveMessages(t) \/ EmitDisconnectAndWait(t) \/ Read(t) \/ ReadThrows(t)
        PROVE  Elsewhere
    BY <1>5 DEF Tasks, RecieveMessages, NextRead, AfterWait, ReadFails,
        EmitDisconnectAndWait, EmitDisconnect, AwaitRestored, Restored, Read, ReadThrows, Moves
  <1>6. ASSUME NEW t \in Heartbeats, HeartbeatSender(t) \/ EmitDisconnectAndWait(t)
        PROVE  Elsewhere
    BY <1>6 DEF Tasks, HeartbeatSender, NextBeat, AfterWait, Beat, Listen, BeatDelay,
        EmitDisconnectAndWait, EmitDisconnect, AwaitRestored, Restored, Moves
  <1>7. ASSUME NEW t \in Reconnectors, Reconnect(t)
        PROVE  Elsewhere
    BY <1>7 DEF Tasks, Reconnect, Watch, LossSeen, SetConnected, ResetLost, SetRestored, Retry,
        Moves
  <1>8. ~UserConnects /\ ~UserDisposes /\ (Break => pc' = pc)
    BY DEF UserConnects, UserDisposes, Break, where
  <1> QED
    BY <1>2, <1>3, <1>4, <1>5, <1>6, <1>7, <1>8, Kinds DEF Next

\* Nobody meets another caller in Dispose once the user has disposed the client.
LEMMA NobodyMeets ==
  ASSUME Inv, Next, pc[User] = "disposed", ~Overlapped
  PROVE  ~Overlapped'
  <1>1. \A a \in Owners : ~Replacing(a)
    BY DEF Inv, NobodyAfterUser
  <1>2. \A a \in Owners : ~Releasing(a)
    BY <1>1 DEF Replacing, Releasing
  <1>3. ~(cancelled /\ ~disposed)
    BY <1>2 DEF Inv, Released
  <1>4. ASSUME NEW a, Dispose(a)
        PROVE  overlaps' = overlaps
    <2>1. ~CancelsAgain(a)
      BY <1>3 DEF CancelsAgain
    <2> QED
      BY <1>4, <2>1 DEF Dispose, CancelSource, CancelThrows, DisposeSource, ResetSocket, Join,
          Moves, others, bounds
  <1>5. ASSUME NEW a, ConnectAsync(a)
        PROVE  overlaps' = overlaps
    BY <1>5 DEF ConnectAsync, Connect, SendInit, Refused, AttemptFails, Connected, StartTasks,
        Moves, others, bounds
  <1>6. ASSUME NEW t, RecieveMessages(t) \/ EmitDisconnectAndWait(t) \/ Read(t) \/ ReadThrows(t)
        PROVE  overlaps' = overlaps
    BY <1>6 DEF RecieveMessages, NextRead, AfterWait, ReadFails, EmitDisconnectAndWait,
        EmitDisconnect, AwaitRestored, Restored, Read, ReadThrows, Moves, others, bounds
  <1>7. ASSUME NEW t, HeartbeatSender(t)
        PROVE  overlaps' = overlaps
    BY <1>7 DEF HeartbeatSender, NextBeat, AfterWait, Beat, Listen, BeatDelay, Moves, others,
        bounds
  <1>8. ASSUME NEW t, Reconnect(t)
        PROVE  overlaps' = overlaps
    BY <1>8 DEF Reconnect, Watch, LossSeen, SetConnected, ResetLost, SetRestored, Retry, Moves,
        others, bounds
  <1>9. CASE UserConnects \/ UserDisposes \/ Break
    BY <1>9 DEF UserConnects, UserDisposes, Break, Moves, others, bounds, Overlapped
  <1> QED
    BY <1>4, <1>5, <1>6, <1>7, <1>8, <1>9 DEF Next, Overlapped

\* At most one caller of Dispose is past Cancel, whatever the options and the
\* number of connections, unless a second one called Cancel between the first
\* one's Cancel and Dispose of the source: once it is disposed, Cancel throws.
THEOREM OneReplaces == Spec => []OneReplacer
  <1>1. Inv => OneReplacer
    BY DEF Inv
  <1> QED
    BY <1>1, InvInit, InvStep, PTL DEF Spec

\* The source is cancelled exactly while it is being replaced or once the user
\* disposed the client, unless two callers met in Dispose: no task waits with a
\* source nobody will replace.
THEOREM CancelledWhileReplaced == Spec => []CancelledByOne
  <1>1. Inv => CancelledByOne
    BY DEF Inv
  <1> QED
    BY <1>1, InvInit, InvStep, PTL DEF Spec

\* Once the user's Dispose returned, and unless it met that of Reconnect, no task
\* that is still in Reconnect gives the client a new source, and no later call of
\* Dispose gets past Cancel.
THEOREM NothingReplacesDisposed == Spec => DisposedStaysDisposed
  <1>1. Inv /\ [Next]_vars
            => [pc[User] = "disposed" /\ ~Overlapped => cancelled' /\ ~Overlapped']_vars
    <2> SUFFICES ASSUME Inv, Next, pc[User] = "disposed", ~Overlapped
                 PROVE  cancelled' /\ ~Overlapped'
      OBVIOUS
    <2>1. pc'[User] = "disposed"
      BY UserStays
    <2>2. Inv' /\ ~Overlapped'
      BY InvStep, NobodyMeets
    <2> QED
      BY <2>1, <2>2 DEF Inv, CancelledByOne
  <1> QED
    BY <1>1, InvInit, InvStep, PTL DEF Spec, DisposedStaysDisposed

-----------------------------------------------------------------------------
(* Type correctness.                                                       *)

\* The events and flags.
FlagsOK ==
    /\ connected \in BOOLEAN /\ lost \in BOOLEAN /\ restored \in BOOLEAN
    /\ newMessage \in BOOLEAN /\ cancelled \in BOOLEAN /\ disposed \in BOOLEAN
    /\ deaf \subseteq Tasks
    /\ reported \in BOOLEAN /\ owed \in BOOLEAN /\ attended \in BOOLEAN /\ erased \in BOOLEAN

\* The options, the socket and the bounded counters.
CountersOK ==
    /\ opts \in Options
    /\ link \in {"none", "up", "down"}
    /\ connects \in 0..opts.connects
    /\ breaks \in 0..opts.breaks /\ failures \in 0..opts.failures
    /\ overlaps \in 0..opts.overlaps

LEMMA OptionsTyped ==
  ASSUME CountersOK
  PROVE  /\ opts.AutoReconnect \in BOOLEAN /\ opts.Heartbeat \in BOOLEAN
         /\ opts.connects \in Nat /\ opts.breaks \in Nat
         /\ opts.failures \in Nat /\ opts.overlaps \in Nat
  BY OptionsAssumption, BoundsAssumption DEF CountersOK

LEMMA FlagsStep ==
  ASSUME FlagsOK, CountersOK, Next
  PROVE  FlagsOK'
  <1> USE DEF FlagsOK
  <1>0. opts.AutoReconnect \in BOOLEAN /\ opts.Heartbeat \in BOOLEAN
    BY OptionsTyped
  <1>1. ASSUME NEW a, NEW l, Moves(a, l) PROVE FlagsOK'
    BY <1>1 DEF Moves, Goto, others, events, source, history
  <1>2. ASSUME NEW t, EmitDisconnectAndWait(t) PROVE FlagsOK'
    <2>1. CASE EmitDisconnect(t)
      BY <2>1 DEF EmitDisconnect, Goto, events, source
    <2> QED
      BY <1>1, <1>2, <2>1 DEF EmitDisconnectAndWait, AwaitRestored, Restored
  <1>3. ASSUME NEW t, RecieveMessages(t) \/ Read(t) \/ ReadThrows(t) PROVE FlagsOK'
    <2>1. CASE Read(t) \/ ReadThrows(t)
      BY <1>0, <2>1 DEF Read, ReadThrows, Goto, events, source, history
    <2> QED
      BY <1>1, <1>3, <2>1 DEF RecieveMessages, NextRead, AfterWait, ReadFails
  <1>4. ASSUME NEW t, HeartbeatSender(t) PROVE FlagsOK'
    <2>1. CASE Listen(t)
      BY <2>1 DEF Listen, Goto, events, source, history
    <2>2. CASE NextBeat(t) \/ AfterWait(t)
      BY <1>1, <2>2 DEF NextBeat, AfterWait
    <2>3. CASE Beat(t) \/ BeatDelay(t)
      BY <1>1, <2>3 DEF Beat, BeatDelay
    <2> QED
      BY <1>4, <2>1, <2>2, <2>3 DEF HeartbeatSender
  <1>5. ASSUME NEW a, Dispose(a) PROVE FlagsOK'
    <2>1. CASE CancelSource(a)
      BY <2>1 DEF CancelSource, events, history
    <2>6. CASE ResetSocket(a)
      BY <2>6 DEF ResetSocket, events, source, history
    <2>2. CASE CancelsAgain(a)
      BY <2>2 DEF CancelsAgain, Goto, events, source, history
    <2>3. CASE DisposeSource(a)
      BY <2>3 DEF DisposeSource, Waiting, events, history
    <2>4. CASE Join(a)
      <3>1. UNCHANGED <<source, deaf>> \/ (cancelled' = FALSE /\ disposed' = FALSE)
        BY <2>4 DEF Join
      <3>2. deaf' \subseteq deaf \union Waiting
        BY <2>4 DEF Join
      <3> QED
        BY <2>4, <3>1, <3>2 DEF Join, Waiting, events, source, history
    <2>5. CASE CancelThrows(a)
      BY <1>1, <2>5 DEF CancelThrows
    <2> QED
      BY <1>5, <2>1, <2>2, <2>3, <2>4, <2>5, <2>6 DEF Dispose
  <1>6. ASSUME NEW a, ConnectAsync(a) PROVE FlagsOK'
    <2>1. CASE Connect(a)
      <3>1. /\ UNCHANGED <<events, newMessage, source, reported, owed, erased>>
            /\ attended' \in BOOLEAN
        BY <2>1 DEF Connect
      <3>2. deaf' \subseteq Tasks
        BY <2>1 DEF Connect, Goto
      <3> QED
        BY <3>1, <3>2 DEF events, source
    <2>4. CASE SendInit(a) \/ Refused(a)
      BY <2>4 DEF SendInit, Refused, Goto, events, source, history
    <2>5. CASE Connected(a)
      BY <2>5 DEF Connected, Goto, events, source, history
    <2>2. CASE StartTasks(a)
      BY <1>0, <2>2 DEF StartTasks, events, source
    <2>3. CASE AttemptFails(a)
      BY <1>1, <2>3 DEF AttemptFails
    <2> QED
      BY <1>6, <2>1, <2>2, <2>3, <2>4, <2>5 DEF ConnectAsync
  <1>7. ASSUME NEW t, Reconnect(t) PROVE FlagsOK'
    <2>1. CASE SetConnected(t)
      BY <2>1 DEF SetConnected, Goto, source, history
    <2>2. CASE ResetLost(t)
      BY <2>2 DEF ResetLost, Goto, source, history
    <2>3. CASE SetRestored(t)
      BY <2>3 DEF SetRestored, Goto, source, history
    <2> QED
      BY <1>1, <1>7, <2>1, <2>2, <2>3 DEF Reconnect, Watch, LossSeen, Retry
  <1>8. CASE Break
    <2>1. owed' \in BOOLEAN
      BY <1>8 DEF Break
    <2>2. reported' \in BOOLEAN
      BY <1>0, <1>8 DEF Break
    <2>3. UNCHANGED <<connected, lost, restored, newMessage, cancelled, disposed, deaf,
                      attended, erased>>
      BY <1>8 DEF Break, events, source, where
    <2> QED
      BY <2>1, <2>2, <2>3
  <1> QED
    BY <1>1, <1>2, <1>3, <1>4, <1>5, <1>6, <1>7, <1>8 DEF Next, UserConnects, UserDisposes

LEMMA CountersStep ==
  ASSUME CountersOK, Next
  PROVE  CountersOK'
  <1> USE DEF CountersOK
  <1>1. ASSUME UNCHANGED <<opts, link, connects, bounds>> PROVE CountersOK'
    BY <1>1 DEF bounds
  <1>2. ASSUME NEW a, NEW l, Moves(a, l) PROVE CountersOK'
    BY <1>1, <1>2 DEF Moves, others
  <1>3. ASSUME NEW t, EmitDisconnectAndWait(t) PROVE CountersOK'
    BY <1>1, <1>2, <1>3 DEF EmitDisconnectAndWait, EmitDisconnect, AwaitRestored, Restored
  <1>4. ASSUME NEW t, RecieveMessages(t) \/ Read(t) \/ ReadThrows(t) PROVE CountersOK'
    <2>1. CASE ReadThrows(t)
      BY <2>1, OptionsTyped DEF ReadThrows
    <2> QED
      BY <1>1, <1>2, <1>4, <2>1 DEF RecieveMessages, NextRead, AfterWait, Read, ReadFails
  <1>5. ASSUME NEW t, HeartbeatSender(t) PROVE CountersOK'
    BY <1>1, <1>2, <1>5 DEF HeartbeatSender, NextBeat, AfterWait, Beat, Listen, BeatDelay
  <1>6. ASSUME NEW a, Dispose(a) PROVE CountersOK'
    <2>1. CASE ResetSocket(a)
      BY <2>1 DEF ResetSocket, bounds
    <2>2. CASE CancelsAgain(a)
      BY <2>2, OptionsTyped DEF CancelsAgain
    <2> QED
      BY <1>1, <1>2, <1>6, <2>1, <2>2
         DEF Dispose, CancelSource, CancelThrows, DisposeSource, Join
  <1>7. ASSUME NEW a, ConnectAsync(a) PROVE CountersOK'
    <2>1. CASE Connect(a) \/ SendInit(a)
      BY <2>1 DEF Connect, SendInit, bounds
    <2>2. CASE Refused(a)
      BY <2>2, OptionsTyped DEF Refused
    <2>3. CASE StartTasks(a)
      BY <2>3, OptionsTyped DEF StartTasks, bounds
    <2> QED
      BY <1>1, <1>2, <1>7, <2>1, <2>2, <2>3 DEF ConnectAsync, AttemptFails, Connected
  <1>8. ASSUME NEW t, Reconnect(t) PROVE CountersOK'
    BY <1>1, <1>2, <1>8
    DEF Reconnect, Watch, LossSeen, SetConnected, ResetLost, SetRestored, Retry
  <1>9. CASE Break
    BY <1>9, OptionsTyped DEF Break
  <1> QED
    BY <1>2, <1>3, <1>4, <1>5, <1>6, <1>7, <1>8, <1>9 DEF Next, UserConnects, UserDisposes

\* Type correctness for any options and bounds: in particular every actor only ever
\* has labels of its own kind (no heartbeat sender or receive loop goes on where a
\* Reconnect loop would).
THEOREM TypeCorrect == Spec => []TypeOK
  <1>1. Init => FlagsOK
    BY DEF Init, FlagsOK
  <1>2. Init => CountersOK
    BY OptionsAssumption, BoundsAssumption DEF Init, CountersOK
  <1>3. FlagsOK /\ CountersOK /\ [Next]_vars => FlagsOK' /\ CountersOK'
    <2>1. CASE UNCHANGED vars
      BY <2>1 DEF vars, where, others, events, source, bounds, history, FlagsOK, CountersOK
    <2> QED
      BY <2>1, FlagsStep, CountersStep
  <1>4. FlagsOK /\ CountersOK /\ Inv => TypeOK
    BY DEF FlagsOK, CountersOK, Inv, TypeOK
  <1> QED
    BY <1>1, <1>2, <1>3, <1>4, InvInit, InvStep, PTL DEF Spec

=============================================================================
