---------------------------- MODULE RouterProofs ----------------------------
(***************************************************************************)
(* Theorems about module Router, for every set of connections, names and   *)
(* networks, any number of ServeMessage tasks and any number of Stops.     *)
(***************************************************************************)
EXTENDS Router, TLAPS

\* The initial state is well typed.
LEMMA TypeInit == Init => TypeOK
<1> SUFFICES ASSUME Init PROVE TypeOK
  OBVIOUS
<1>1. task \in [Tasks -> {Idle} \union [to : Conns, gen : Nat \ {0}]]
  BY DEF Init
<1>2. networks \in [NetNames -> Nat] /\ gen \in [Conns -> Nat] /\ stops \in Nat
  BY DEF Init
<1>3. QED
  BY <1>1, <1>2 DEF Init, TypeOK

\* Every step keeps the types.
LEMMA TypeStep == TypeOK /\ [Next]_vars => TypeOK'
<1> SUFFICES ASSUME TypeOK, [Next]_vars PROVE TypeOK'
  OBVIOUS
<1> USE DEF TypeOK, peerVars, listenVars, sessionVars, stopVars, history
<1>1. ASSUME NEW c \in Conns, Connect(c) \/ SendInit(c) \/ ClosePeer(c)
      PROVE TypeOK'
  BY <1>1 DEF Connect, SendInit, ClosePeer
<1>2. CASE Start
  BY <1>2 DEF Start
<1>3. CASE StartListener \/ AcceptFails
  BY <1>3 DEF StartListener, AcceptFails, NextRound
<1>4. ASSUME NEW c \in Conns, Accept(c) PROVE TypeOK'
  BY <1>4 DEF Accept
<1>5. ASSUME NEW c \in Conns, ReadInit(c) PROVE TypeOK'
  <2>1. GetOrAdd(NetOf[c]) \in Nat
    BY ConnsAssumption DEF GetOrAdd
  <2> QED
    BY <1>5, <2>1 DEF ReadInit
<1>6. ASSUME NEW c \in Conns, ReadInitFails(c) PROVE TypeOK'
  BY <1>6 DEF ReadInitFails, AfterReadFails, NextRound
<1>7. ASSUME NEW c \in Conns, Hook(c) PROVE TypeOK'
  BY <1>7 DEF Hook
<1>8. ASSUME NEW c \in Conns, TryAdd(c) PROVE TypeOK'
  BY <1>8 DEF TryAdd
<1>9. ASSUME NEW c \in Conns, Answer(c) PROVE TypeOK'
  BY <1>9 DEF Answer, Frame, NextRound
<1>10. ASSUME NEW c \in Conns, AnswerFails(c) PROVE TypeOK'
  BY <1>10 DEF AnswerFails, NextRound
<1>11. ASSUME NEW c \in Conns, ReceiveFails(c) PROVE TypeOK'
  BY <1>11 DEF ReceiveFails, Unregister
<1>12. ASSUME NEW c \in Conns, ReceiveStops(c) PROVE TypeOK'
  BY <1>12 DEF ReceiveStops
<1>13. ASSUME NEW t \in Tasks, NEW s \in Conns, NEW d \in Conns, Serve(t, s, d)
       PROVE TypeOK'
  BY <1>13, ConnsAssumption DEF Serve
<1>14. ASSUME NEW t \in Tasks, WriteDone(t) PROVE TypeOK'
  BY <1>14 DEF WriteDone, Frame
<1>15. ASSUME NEW t \in Tasks, WriteFails(t) PROVE TypeOK'
  BY <1>15 DEF WriteFails
<1>16. CASE Stop
  <2>1. CASE Cancel
    BY <2>1 DEF Cancel
  <2>2. CASE WaitListen
    BY <2>2 DEF WaitListen
  <2>3. CASE StopReturns
    BY <2>3 DEF StopReturns
  <2>4. ASSUME NEW n \in NetNames, DisposeNetwork(n) PROVE TypeOK'
    BY <2>4 DEF DisposeNetwork, Members
  <2>5. ASSUME NEW n \in NetNames, ClearNetwork(n) PROVE TypeOK'
    BY <2>5 DEF ClearNetwork
  <2>6. ASSUME NEW c \in Conns, DisposeClient(c) PROVE TypeOK'
    BY <2>6 DEF DisposeClient
  <2> QED
    BY <1>16, <2>1, <2>2, <2>3, <2>4, <2>5, <2>6 DEF Stop
<1>17. CASE UNCHANGED vars
  BY <1>17 DEF vars
<1> QED
  BY <1>1, <1>2, <1>3, <1>4, <1>5, <1>6, <1>7, <1>8, <1>9, <1>10, <1>11,
     <1>12, <1>13, <1>14, <1>15, <1>16, <1>17
  DEF Next, Peers, ListenLoop, ServeTask

\* Type correctness: every variable of the router keeps its type.
THEOREM TypeCorrect == Spec => []TypeOK
BY TypeInit, TypeStep, PTL DEF Spec

-----------------------------------------------------------------------------
(* The registry between the receive loops, the writers and Listen.         *)

\* A connection that Listen has not identified yet has no receive loop.
NoEarlyLoop ==
    \A c \in Conns :
        /\ peer[c] = "new" => rcv[c] = "off" /\ c \notin backlog /\ c # cur
        /\ c \in backlog => rcv[c] = "off" /\ c # cur
        /\ lpc = "read" /\ c = cur => rcv[c] = "off"
        /\ lpc \in {"hook", "add"} /\ c = cur => rcv[c] # "off"

\* AddClient has subscribed to the receive loop of every connection it added or
\* is about to add.
AddedAreHooked ==
    /\ registered \subseteq hooked
    /\ lpc = "add" => cur \in hooked

\* Listen never misses that the connection it is adding has died.
EarlyIsSeen ==
    lpc \in {"hook", "add"} =>
        \A c \in Conns : c = cur /\ rcv[c] = "dead" => c \in early \union disposed

AdmittedHadLoop == \A c \in admitted : rcv[c] # "off"

\* Only a Stop that has cancelled walks the Networks.
StopCancelsFirst == (spc # "idle" \/ stops > 0) => cancelled

RegistryInv ==
    /\ TypeOK
    /\ NoEarlyLoop
    /\ AddedAreHooked
    /\ EarlyIsSeen
    /\ AdmittedHadLoop
    /\ StopCancelsFirst
    /\ DeadOnlyFromHandshake
    /\ EvictedOnlyByNamesake

\* RegistryInv holds initially.
LEMMA RegistryInit == Init => RegistryInv
<1> SUFFICES ASSUME Init PROVE RegistryInv
  OBVIOUS
<1>1. TypeOK
  BY TypeInit
<1>2. NoEarlyLoop
  BY ConnsAssumption DEF Init, NoEarlyLoop
<1>3. AddedAreHooked /\ EarlyIsSeen /\ AdmittedHadLoop /\ StopCancelsFirst
  BY DEF Init, AddedAreHooked, EarlyIsSeen, AdmittedHadLoop, StopCancelsFirst
<1>4. DeadOnlyFromHandshake /\ EvictedOnlyByNamesake
  BY DEF Init, DeadOnlyFromHandshake, EvictedOnlyByNamesake
<1> QED
  BY <1>1, <1>2, <1>3, <1>4 DEF RegistryInv

\* Every step keeps RegistryInv.
LEMMA RegistryStep == RegistryInv /\ [Next]_vars => RegistryInv'
<1> SUFFICES ASSUME RegistryInv, [Next]_vars PROVE RegistryInv'
  OBVIOUS
<1>0. TypeOK /\ TypeOK'
  BY TypeStep DEF RegistryInv
<1> USE ConnsAssumption, <1>0 DEF RegistryInv, peerVars, listenVars, sessionVars,
        stopVars, history, NoEarlyLoop, AddedAreHooked, EarlyIsSeen,
        AdmittedHadLoop, StopCancelsFirst, DeadOnlyFromHandshake,
        EvictedOnlyByNamesake, Live, TypeOK
<1>1. ASSUME NEW c \in Conns, Connect(c) PROVE RegistryInv'
  BY <1>1 DEF Connect
<1>2. ASSUME NEW c \in Conns, SendInit(c) PROVE RegistryInv'
  BY <1>2 DEF SendInit
<1>3. ASSUME NEW c \in Conns, ClosePeer(c) PROVE RegistryInv'
  BY <1>3 DEF ClosePeer
<1>4. ASSUME NEW c \in Conns, Accept(c) PROVE RegistryInv'
  BY <1>4 DEF Accept
<1>5. ASSUME NEW c \in Conns, ReadInit(c) PROVE RegistryInv'
  BY <1>5 DEF ReadInit
<1>6. ASSUME NEW c \in Conns, ReadInitFails(c) PROVE RegistryInv'
  BY <1>6 DEF ReadInitFails, AfterReadFails, NextRound
<1>7. ASSUME NEW c \in Conns, Hook(c) PROVE RegistryInv'
  BY <1>7 DEF Hook
<1>8. ASSUME NEW c \in Conns, TryAdd(c) PROVE RegistryInv'
  BY <1>8 DEF TryAdd
<1>9. ASSUME NEW c \in Conns, Answer(c) PROVE RegistryInv'
  BY <1>9 DEF Answer, NextRound
<1>10. ASSUME NEW c \in Conns, AnswerFails(c) PROVE RegistryInv'
  BY <1>10 DEF AnswerFails, NextRound
<1>11. ASSUME NEW c \in Conns, ReceiveFails(c) PROVE RegistryInv'
  BY <1>11 DEF ReceiveFails, Unregister, Holder, EntryOf, Members, Namesakes
<1>12. ASSUME NEW c \in Conns, ReceiveStops(c) PROVE RegistryInv'
  BY <1>12 DEF ReceiveStops
<1>13. ASSUME NEW c \in Conns, DisposeClient(c) PROVE RegistryInv'
  BY <1>13 DEF DisposeClient
<1>14. CASE Start
  BY <1>14 DEF Start
<1>15. CASE StartListener \/ AcceptFails
  BY <1>15 DEF StartListener, AcceptFails, NextRound
<1>16. ASSUME NEW t \in Tasks, NEW s \in Conns, NEW d \in Conns, Serve(t, s, d)
       PROVE RegistryInv'
  BY <1>16 DEF Serve
<1>17. ASSUME NEW t \in Tasks, WriteDone(t) PROVE RegistryInv'
  BY <1>17 DEF WriteDone
<1>18. ASSUME NEW t \in Tasks, WriteFails(t) PROVE RegistryInv'
  BY <1>18 DEF WriteFails, EntryOf, Members, Namesakes
<1>19. CASE Cancel \/ WaitListen \/ StopReturns
  BY <1>19 DEF Cancel, WaitListen, StopReturns
<1>20. ASSUME NEW n \in NetNames, DisposeNetwork(n) \/ ClearNetwork(n)
       PROVE RegistryInv'
  BY <1>20 DEF DisposeNetwork, ClearNetwork
<1>21. CASE UNCHANGED vars
  BY <1>21 DEF vars
<1> QED
  BY <1>1, <1>2, <1>3, <1>4, <1>5, <1>6, <1>7, <1>8, <1>9, <1>10, <1>11, <1>12,
     <1>13, <1>14, <1>15, <1>16, <1>17, <1>18, <1>19, <1>20, <1>21
  DEF Next, Peers, ListenLoop, ServeTask, Stop

\* RegistryInv is an invariant of the router.
LEMMA Registry == Spec => []RegistryInv
BY RegistryInit, RegistryStep, PTL DEF Spec

\* No dead connection hides in the registry, except one that died inside its
\* handshake or that Stop is disposing: the end of a receive loop and AddClient
\* cannot miss each other.
THEOREM NoHiddenDead == Spec => []DeadOnlyFromHandshake
<1>1. RegistryInv => DeadOnlyFromHandshake
  BY DEF RegistryInv
<1> QED
  BY <1>1, Registry, PTL

\* Only a connection with the same name in the same network can unregister a
\* live accepted connection while the router runs.
THEOREM OnlyNamesakesEvict == Spec => []EvictedOnlyByNamesake
<1>1. RegistryInv => EvictedOnlyByNamesake
  BY DEF RegistryInv
<1> QED
  BY <1>1, Registry, PTL

\* Where names are distinct, a live accepted connection stays registered while
\* the router runs.
THEOREM DistinctStayRegistered == Spec => []AcceptedStaysRegistered
<1>1. RegistryInv => AcceptedStaysRegistered
  BY DEF RegistryInv, TypeOK, EvictedOnlyByNamesake, AcceptedStaysRegistered,
         DistinctNames
<1> QED
  BY <1>1, Registry, PTL

-----------------------------------------------------------------------------
(* Stop against Listen, when no two connections share a name.              *)

\* The Stop in progress will still dispose c.
Doomed(c) ==
    /\ c \in registered
    /\ gen[c] = networks[NetOf[c]]
    /\ \/ spc = "wait"
       \/ spc \in {"walk", "dispose"} /\ NetOf[c] \in nets \ at
       \/ spc = "dispose" /\ c \in doomed

\* No Stop in progress will dispose c: Listen is working on it, or it was
\* accepted and is alive.
Spared(c) == c = cur \/ (c \in admitted /\ Live(c) /\ ~Doomed(c))

\* At most one connection escapes Stop.
OneSpared ==
    DistinctNames /\ cancelled =>
        \A c, d \in Conns : Spared(c) /\ Spared(d) => c = d

\* The first Stop finds every connection in the Network it was added to.
FirstStopFindsAll ==
    \A c \in Conns : rcv[c] # "off" =>
        /\ gen[c] # 0
        /\ stops = 0 => gen[c] = networks[NetOf[c]]

\* Once Stop has cancelled, Listen accepts no further connection.
NoAcceptAfterCancel == cancelled /\ lpc = "accept" => ~listening

StopWalk ==
    /\ at \subseteq nets
    /\ spc \in {"idle", "wait"} => nets = {}
    /\ spc # "dispose" => at = {}

StopInv ==
    /\ RegistryInv
    /\ OneSpared
    /\ FirstStopFindsAll
    /\ NoAcceptAfterCancel
    /\ StopWalk

\* StopInv holds initially.
LEMMA StopInit == Init => StopInv
<1> SUFFICES ASSUME Init PROVE StopInv
  OBVIOUS
<1>1. OneSpared /\ NoAcceptAfterCancel
  BY DEF Init, OneSpared, NoAcceptAfterCancel
<1>2. FirstStopFindsAll /\ StopWalk
  BY DEF Init, FirstStopFindsAll, StopWalk
<1> QED
  BY <1>1, <1>2, RegistryInit DEF StopInv

\* Every step keeps StopInv.
LEMMA StopStep == StopInv /\ [Next]_vars => StopInv'
<1> SUFFICES ASSUME StopInv, [Next]_vars PROVE StopInv'
  OBVIOUS
<1>0. RegistryInv /\ RegistryInv' /\ TypeOK /\ TypeOK'
  BY RegistryStep DEF StopInv, RegistryInv
<1> USE ConnsAssumption, <1>0 DEF StopInv, peerVars, listenVars, sessionVars,
        stopVars, history, TypeOK, OneSpared, FirstStopFindsAll,
        NoAcceptAfterCancel, StopWalk, Spared, Doomed, Live
<1>1. ASSUME NEW c \in Conns, Connect(c) \/ SendInit(c) \/ ClosePeer(c) PROVE StopInv'
  BY <1>1 DEF Connect, SendInit, ClosePeer
<1>2. ASSUME NEW c \in Conns, Accept(c) PROVE StopInv'
  BY <1>2 DEF Accept
<1>3. ASSUME NEW c \in Conns, ReadInit(c) PROVE StopInv'
  BY <1>3 DEF ReadInit, GetOrAdd, RegistryInv, NoEarlyLoop
<1>4. ASSUME NEW c \in Conns, ReadInitFails(c) PROVE StopInv'
  BY <1>4 DEF ReadInitFails, AfterReadFails, NextRound
<1>5. ASSUME NEW c \in Conns, Hook(c) PROVE StopInv'
  BY <1>5 DEF Hook
<1>6. ASSUME NEW c \in Conns, TryAdd(c) PROVE StopInv'
  BY <1>6 DEF TryAdd
<1>7. ASSUME NEW c \in Conns, Answer(c) PROVE StopInv'
  BY <1>7 DEF Answer, NextRound
<1>8. ASSUME NEW c \in Conns, AnswerFails(c) PROVE StopInv'
  BY <1>8 DEF AnswerFails, NextRound
<1>9. ASSUME NEW c \in Conns, ReceiveFails(c) PROVE StopInv'
  BY <1>9 DEF ReceiveFails, Unregister, Holder, EntryOf, Members, DistinctNames, Namesakes
<1>10. ASSUME NEW c \in Conns, ReceiveStops(c) PROVE StopInv'
  BY <1>10 DEF ReceiveStops
<1>11. ASSUME NEW c \in Conns, DisposeClient(c) PROVE StopInv'
  BY <1>11 DEF DisposeClient
<1>12. CASE Start
  BY <1>12 DEF Start
<1>13. CASE StartListener \/ AcceptFails
  BY <1>13 DEF StartListener, AcceptFails, NextRound
<1>14. ASSUME NEW t \in Tasks, NEW s \in Conns, NEW d \in Conns, Serve(t, s, d)
       PROVE StopInv'
  BY <1>14 DEF Serve
<1>15. ASSUME NEW t \in Tasks, WriteDone(t) PROVE StopInv'
  BY <1>15 DEF WriteDone
<1>16. ASSUME NEW t \in Tasks, WriteFails(t) PROVE StopInv'
  BY <1>16 DEF WriteFails, EntryOf, Members, DistinctNames, Namesakes
<1>17. CASE Cancel
  BY <1>17 DEF Cancel, RegistryInv, EvictedOnlyByNamesake, StopCancelsFirst,
           AdmittedHadLoop, DistinctNames
<1>18. CASE WaitListen
  BY <1>18 DEF WaitListen, RegistryInv, AdmittedHadLoop
<1>19. CASE StopReturns
  BY <1>19 DEF StopReturns
<1>20. ASSUME NEW n \in NetNames, DisposeNetwork(n) PROVE StopInv'
  BY <1>20 DEF DisposeNetwork, Members
<1>21. ASSUME NEW n \in NetNames, ClearNetwork(n) PROVE StopInv'
  BY <1>21 DEF ClearNetwork, Members
<1>22. CASE UNCHANGED vars
  BY <1>22 DEF vars
<1> QED
  BY <1>1, <1>2, <1>3, <1>4, <1>5, <1>6, <1>7, <1>8, <1>9, <1>10, <1>11, <1>12, <1>13,
     <1>14, <1>15, <1>16, <1>17, <1>18, <1>19, <1>20, <1>21, <1>22
  DEF Next, Peers, ListenLoop, ServeTask, Stop

\* When Stop returns it has left alive at most one accepted connection, the one
\* Listen was working on when Stop cancelled it.
THEOREM StopSparesAtMostOne == Spec => []StopLeavesAtMostOne
<1>1. Spec => []StopInv
  BY StopInit, StopStep, PTL DEF Spec
<1>2. StopInv => StopLeavesAtMostOne
  BY DEF StopInv, RegistryInv, TypeOK, StopCancelsFirst, OneSpared, Spared,
         Doomed, StopLeavesAtMostOne
<1> QED
  BY <1>1, <1>2, PTL

=============================================================================
