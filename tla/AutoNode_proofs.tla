-------------------------- MODULE AutoNode_proofs --------------------------
(***************************************************************************)
(* Proofs about the registries of a node, the threads that use them and    *)
(* the messages these carry, for any users, mailboxes, names, peers,       *)
(* connections and messages.                                               *)
(***************************************************************************)
EXTENDS AutoNode, SequenceLemmas

(* A connection in somebody's hands or in the map was opened, and is       *)
(* closed, without a message in hand, only when ~AutoNode has all mutexes. *)
Locked == node \in {"locked", "joining", "gone"}

ConnectionsAreOpened ==
  /\ mFlushConnections = {}
  /\ \A t \in Threads : conn[t] # None => socket[conn[t]] # "unused"
  /\ \A p \in Peers : mConnections[p] # None => socket[mConnections[p]] # "unused"

ClosedAtTheEnd ==
  /\ doomed # None => Locked
  /\ \A c \in Conns : socket[c] = "closed" => Locked /\ at[c] # "put"

(* Once the mailboxes are destroyed no connection of the map has a message *)
(* for one.                                                                *)
MapIsQuiet ==
  node \in {"joining", "gone"} =>
    \A p \in Peers : mConnections[p] # None => at[mConnections[p]] # "put"

(* Mailboxes are found by their pids while attached, by their names until  *)
(* they are detached, and only those that are no longer attached are       *)
(* being detached.                                                         *)
FoundMailBoxesLive ==
  /\ node \notin {"joining", "gone"} =>
       /\ \A b \in mMailBoxes : life[b] = "attached"
       /\ \A n \in Names : mRegMailBoxes[n] # None =>
                             life[mRegMailBoxes[n]] \in {"attached", "detaching"}
  /\ \A t \in Threads : at[t] = "detaching" => life[box[t]] \notin {"unused", "attached"}

Inv ==
  TypeOK /\ ConnectionsAreOpened /\ ClosedAtTheEnd /\ MapIsQuiet /\ FoundMailBoxesLive

-----------------------------------------------------------------------------
LEMMA InitInv == Init => Inv
<1> SUFFICES ASSUME Init PROVE Inv
  OBVIOUS
<1>1. TypeOK
  <2>1. <<>> \in Seq(Messages)
    OBVIOUS
  <2>2. wire \in [Conns -> Seq(Messages)] /\ inbox \in [Boxes -> Seq(Messages)]
    BY <2>1 DEF Init
  <2> QED
    BY <2>2 DEF Init, TypeOK
<1>2. ConnectionsAreOpened /\ ClosedAtTheEnd /\ MapIsQuiet /\ FoundMailBoxesLive
  BY DEF Init, ConnectionsAreOpened, ClosedAtTheEnd, MapIsQuiet, FoundMailBoxesLive, Locked
<1> QED
  BY <1>1, <1>2 DEF Inv

(* The origin of an error is no connection of the map.                     *)
LEMMA OriginIsUnknown ==
  ASSUME TypeOK, NEW c \in Conns
  PROVE  {Origin(c)} \cap Range(mConnections) = {}
BY AcceptorAssumption DEF TypeOK, Origin, Range

(* Every step keeps the types.                                             *)
LEMMA NextType ==
  ASSUME TypeOK, mFlushConnections = {}, [Next]_vars
  PROVE  TypeOK'
<1> USE DEF TypeOK, Goto, Threads, Calls, Home, registries, shutdown, locals, network, boxes
<1> USE NoneAssumption, DestAssumption
<1>1. ASSUME NEW u \in Users, NEW b \in Boxes, CreateMailBox(u, b)
      PROVE  TypeOK'
  BY <1>1 DEF CreateMailBox
<1>2. ASSUME NEW u \in Users, NEW n \in Names, NEW b \in Boxes, RegisterMailBox(u, n, b)
      PROVE  TypeOK'
  BY <1>2 DEF RegisterMailBox
<1>3. ASSUME NEW u \in Users, NEW n \in Names, UnRegisterName(u, n)
      PROVE  TypeOK'
  BY <1>3 DEF UnRegisterName
<1>4. ASSUME NEW u \in Users, NEW b \in Boxes, UnRegisterMailBox(u, b)
      PROVE  TypeOK'
  BY <1>4 DEF UnRegisterMailBox, WithoutNamesOf
<1>5. ASSUME NEW u \in Users, NEW b \in Boxes, Detach(u, b)
      PROVE  TypeOK'
  BY <1>5 DEF Detach
<1>6. ASSUME NEW u \in Users, DetachNames(u)
      PROVE  TypeOK'
  BY <1>6 DEF DetachNames, WithoutNamesOf
<1>7. ASSUME NEW b \in Boxes, DeleteMailBox(b)
      PROVE  TypeOK'
  BY <1>7 DEF DeleteMailBox
<1>8. ASSUME NEW t \in Threads, LookUp(t)
      PROVE  TypeOK'
  <2> DEFINE d == Dest[msg[t]]
             b == Found(d)
  <2>1. msg[t] \in Messages /\ d \in Boxes \cup Names
    BY <1>8 DEF LookUp
  <2>2. b \in Boxes \cup {None}
    BY <2>1 DEF Found
  <2> HIDE DEF d, b
  <2>3. CASE b = None
    <3>1. /\ at' = [at EXCEPT ![t] = Home(t)] /\ msg' = [msg EXCEPT ![t] = None]
          /\ UNCHANGED <<registries, shutdown, box, conn, to, network, boxes, sent>>
      BY <1>8, <2>3 DEF LookUp, d, b
    <3>2. Home(t) \in {"idle", "receive", "accepting"}
      OBVIOUS
    <3> QED
      BY <3>1, <3>2
  <2>4. CASE b # None
    <3>1. /\ at' = [at EXCEPT ![t] = "put"] /\ box' = [box EXCEPT ![t] = b]
          /\ UNCHANGED <<registries, shutdown, msg, conn, to, network, boxes, sent>>
      BY <1>8, <2>4 DEF LookUp, d, b
    <3> QED
      BY <2>1, <2>2, <2>4, <3>1
  <2> QED
    BY <2>3, <2>4
<1>9. ASSUME NEW t \in Threads, Put(t)
      PROVE  TypeOK'
  BY <1>9 DEF Put
<1>10. ASSUME NEW u \in Users, NEW m \in Messages, SendLocal(u, m)
      PROVE  TypeOK'
  BY <1>10 DEF SendLocal
<1>11. ASSUME NEW u \in Users, NEW p \in Peers, AttempConnection(u, p)
      PROVE  TypeOK'
  BY <1>11 DEF AttempConnection
<1>12. ASSUME NEW u \in Users, NEW c \in Conns, Connect(u, c)
      PROVE  TypeOK'
  BY <1>12 DEF Connect, Opened
<1>13. ASSUME NEW c \in Conns, NEW p \in Peers, Accept(c, p)
      PROVE  TypeOK'
  BY <1>13 DEF Accept, Opened
<1>14. ASSUME NEW u \in Users, ConnectFailed(u)
      PROVE  TypeOK'
  BY <1>14 DEF ConnectFailed
<1>15. ASSUME NEW t \in Threads, AddConnection(t)
      PROVE  TypeOK'
  BY <1>15 DEF AddConnection
<1>16. ASSUME NEW t \in Threads, StartConnection(t)
      PROVE  TypeOK'
  BY <1>16 DEF StartConnection
<1>17. ASSUME NEW u \in Users, SendRemote(u)
      PROVE  TypeOK'
  BY <1>17 DEF SendRemote
<1>18. ASSUME NEW u \in Users, StartAcceptor(u)
      PROVE  TypeOK'
  BY <1>18 DEF StartAcceptor
<1>19. ASSUME AcceptThreadExit
      PROVE  TypeOK'
  BY <1>19 DEF AcceptThreadExit
<1>20. ASSUME NEW u \in Users, Close(u)
      PROVE  TypeOK'
  BY <1>20 DEF Close
<1>21. ASSUME NEW c \in Conns, NEW m \in Messages, Send(c, m)
      PROVE  TypeOK'
  BY <1>21 DEF Send
<1>22. ASSUME NEW c \in Conns, Break(c)
      PROVE  TypeOK'
  BY <1>22 DEF Break
<1>23. ASSUME NEW c \in Conns, Receive(c)
      PROVE  TypeOK'
  BY <1>23 DEF Receive
<1>24. ASSUME NEW c \in Conns, LinkFailed(c)
      PROVE  TypeOK'
  BY <1>24 DEF LinkFailed
<1>25. ASSUME NEW c \in Conns, RemoveConnection(c)
      PROVE  TypeOK'
  BY <1>25, OriginIsUnknown DEF RemoveConnection
<1>26. ASSUME NEW c \in Conns, Exit(c)
      PROVE  TypeOK'
  BY <1>26 DEF Exit
<1>27. ASSUME DestroyLock
      PROVE  TypeOK'
  BY <1>27 DEF DestroyLock
<1>28. ASSUME NEW c \in Conns, StopConnection(c)
      PROVE  TypeOK'
  BY <1>28 DEF StopConnection, Remaining
<1>29. ASSUME DeleteConnection
      PROVE  TypeOK'
  BY <1>29 DEF DeleteConnection
<1>30. ASSUME DestroyMailBoxes
      PROVE  TypeOK'
  BY <1>30 DEF DestroyMailBoxes, Remaining
<1>31. ASSUME DestroyEnd
      PROVE  TypeOK'
  BY <1>31 DEF DestroyEnd
<1>32. CASE UNCHANGED vars
  BY <1>32 DEF vars
<1> QED
  BY <1>1, <1>2, <1>3, <1>4, <1>5, <1>6, <1>7, <1>8, <1>9, <1>10, <1>11, <1>12, <1>13, <1>14, <1>15, <1>16, <1>17, <1>18, <1>19, <1>20, <1>21, <1>22, <1>23, <1>24, <1>25, <1>26, <1>27, <1>28, <1>29, <1>30, <1>31, <1>32
     DEF Next, UserCall, UserStep, AcceptStep, ConnectionStep, PeerStep, Destroy

-----------------------------------------------------------------------------
(* What the steps of others leave alone.  A thread comes to hold a mailbox *)
(* only by LookUp,                                                         *)
LEMMA PutsAreLookUps ==
  ASSUME TypeOK, [Next]_vars, NEW t \in Threads, at[t] # "put", at'[t] = "put"
  PROVE  LookUp(t)
<1> USE DEF TypeOK, Goto, Home, Opened, Threads
<1>1. ASSUME NEW u \in Users, UserCall(u) PROVE FALSE
  BY <1>1 DEF UserCall, CreateMailBox, UnRegisterMailBox, Detach, RegisterMailBox,
     UnRegisterName, SendLocal, AttempConnection, StartAcceptor, Close, locals
<1>2. ASSUME NEW u \in Users, UserStep(u) PROVE LookUp(t)
  <2>1. CASE LookUp(u)
    <3>1. at' = [at EXCEPT ![u] = at'[u]]
      BY <2>1 DEF LookUp
    <3> QED
      BY <2>1, <3>1
  <2>2. CASE ~LookUp(u)
    BY <1>2, <2>2 DEF UserStep, DetachNames, Put, Connect, ConnectFailed, AddConnection,
       StartConnection, SendRemote
  <2> QED
    BY <2>1, <2>2
<1>3. ASSUME AcceptStep PROVE FALSE
  BY <1>3 DEF AcceptStep, Accept, AddConnection, StartConnection, AcceptThreadExit
<1>4. ASSUME NEW c \in Conns, ConnectionStep(c) PROVE LookUp(t)
  <2>1. CASE LookUp(c)
    <3>1. at' = [at EXCEPT ![c] = at'[c]]
      BY <2>1 DEF LookUp
    <3> QED
      BY <2>1, <3>1
  <2>2. CASE ~LookUp(c)
    BY <1>4, <2>2 DEF ConnectionStep, Receive, Put, LinkFailed, RemoveConnection, Exit
  <2> QED
    BY <2>1, <2>2
<1>5. CASE UNCHANGED at
  BY <1>5
<1>6. ASSUME NEW c \in Conns, PeerStep(c) PROVE UNCHANGED at
  BY <1>6 DEF PeerStep, Send, Break, locals
<1>7. ASSUME DestroyLock \/ Destroy \/ (\E b \in Boxes : DeleteMailBox(b)) \/ UNCHANGED vars
      PROVE  UNCHANGED at
  BY <1>7 DEF DestroyLock, Destroy, StopConnection, DeleteConnection, DestroyMailBoxes,
     DestroyEnd, DeleteMailBox, locals, vars
<1> QED
  BY <1>1, <1>2, <1>3, <1>4, <1>5, <1>6, <1>7 DEF Next

(* A connection that is opened goes into its thread's hands, and from      *)
(* there into the map.                                                     *)
LEMMA NextOpened ==
  ASSUME Inv, [Next]_vars
  PROVE  ConnectionsAreOpened'
<1> USE DEF Inv, TypeOK, ConnectionsAreOpened, Threads
<1>1. ASSUME NEW u \in Users, UserCall(u) PROVE ConnectionsAreOpened'
  <2>1. CASE \E p \in Peers : AttempConnection(u, p)
    BY <2>1 DEF AttempConnection, registries, network
  <2>2. CASE UNCHANGED <<mConnections, mFlushConnections, conn, socket>>
    BY <2>2
  <2> QED
    BY <1>1, <2>1, <2>2 DEF UserCall, CreateMailBox, UnRegisterMailBox, Detach,
       RegisterMailBox, UnRegisterName, SendLocal, StartAcceptor, Close,
       registries, locals, network
<1>2. ASSUME NEW t \in Threads, NEW c \in Conns, NEW p \in Peers \cup {None}, Opened(t, c, p)
      PROVE  ConnectionsAreOpened'
  BY <1>2 DEF Opened, registries
<1>3. ASSUME NEW t \in Threads, AddConnection(t) PROVE ConnectionsAreOpened'
  BY <1>3 DEF AddConnection
<1>4. ASSUME NEW t \in Threads, StartConnection(t) PROVE ConnectionsAreOpened'
  BY <1>4 DEF StartConnection, registries, network
<1>5. ASSUME NEW u \in Users, SendRemote(u) PROVE ConnectionsAreOpened'
  BY <1>5 DEF SendRemote, registries, network
<1>6. ASSUME NEW c \in Conns, RemoveConnection(c) PROVE ConnectionsAreOpened'
  BY <1>6, OriginIsUnknown DEF RemoveConnection, network
<1>7. CASE DeleteConnection
  BY <1>7 DEF DeleteConnection, registries, locals
<1>8. CASE UNCHANGED <<mConnections, mFlushConnections, conn, socket>>
  BY <1>8
<1>9. ASSUME NEW t \in Threads, LookUp(t) \/ Put(t)
      PROVE  UNCHANGED <<mConnections, mFlushConnections, conn, socket>>
  BY <1>9 DEF LookUp, Put, registries, network
<1>10. ASSUME NEW u \in Users, UserStep(u) PROVE ConnectionsAreOpened'
  BY <1>2, <1>3, <1>4, <1>5, <1>8, <1>9, <1>10 DEF UserStep, DetachNames, Connect,
     ConnectFailed, registries, network
<1>11. CASE AcceptStep
  BY <1>2, <1>3, <1>4, <1>8, <1>11 DEF AcceptStep, Accept, AcceptThreadExit,
     registries, network
<1>12. ASSUME NEW c \in Conns, ConnectionStep(c) \/ PeerStep(c) PROVE ConnectionsAreOpened'
  <2>1. Receive(c) \/ LinkFailed(c) \/ Exit(c) \/ PeerStep(c)
        => UNCHANGED <<mConnections, mFlushConnections, conn, socket>>
    BY DEF PeerStep, Receive, LinkFailed, Exit, Send, Break, registries, locals, network
  <2> QED
    BY <1>6, <1>8, <1>9, <1>12, <2>1 DEF ConnectionStep
<1>13. ASSUME DestroyLock \/ Destroy \/ (\E b \in Boxes : DeleteMailBox(b)) \/ UNCHANGED vars
       PROVE  ConnectionsAreOpened'
  BY <1>7, <1>8, <1>13 DEF DestroyLock, Destroy, StopConnection, DestroyMailBoxes,
     DestroyEnd, DeleteMailBox, registries, locals, network, vars
<1> QED
  BY <1>1, <1>10, <1>11, <1>12, <1>13 DEF Next

(* ~AutoNode keeps its mutexes to its end: nothing is found or added then. *)
LEMMA LockedRegistries ==
  ASSUME TypeOK, [Next]_vars, Locked
  PROVE  /\ Locked'
         /\ UNCHANGED <<mRegMailBoxes, mMailBoxes, mConnections>>
         /\ \A t \in Threads : at'[t] = "put" => at[t] = "put"
         /\ node \in {"joining", "gone"} => node' \in {"joining", "gone"}
<1> USE DEF Locked
<1>1. \A t \in Threads : at'[t] = "put" => at[t] = "put"
  BY PutsAreLookUps DEF LookUp, BoxFree, RegFree
<1>2. ASSUME NEW u \in Users, UserCall(u) PROVE FALSE
  BY <1>2 DEF UserCall, CreateMailBox, UnRegisterMailBox, Detach, RegisterMailBox,
     UnRegisterName, SendLocal, AttempConnection, StartAcceptor, Close, Calls
<1>3. ASSUME NEW t \in Threads, LookUp(t) \/ Put(t) PROVE UNCHANGED <<registries, shutdown>>
  BY <1>3 DEF LookUp, Put
<1>4. ASSUME NEW u \in Users, UserStep(u) PROVE UNCHANGED <<registries, shutdown>>
  BY <1>3, <1>4 DEF UserStep, DetachNames, Connect, Opened, ConnectFailed, AddConnection,
     StartConnection, SendRemote, ConnFree, RegFree, Threads
<1>5. ASSUME AcceptStep PROVE UNCHANGED <<registries, shutdown>>
  BY <1>5 DEF AcceptStep, Accept, Opened, AddConnection, StartConnection,
     AcceptThreadExit, ConnFree
<1>6. ASSUME NEW c \in Conns, ConnectionStep(c) \/ PeerStep(c)
      PROVE  UNCHANGED <<registries, shutdown>>
  BY <1>3, <1>6 DEF ConnectionStep, Receive, LinkFailed, RemoveConnection, Exit, ConnFree,
     PeerStep, Send, Break, Threads
<1>7. ASSUME DestroyLock \/ Destroy \/ (\E b \in Boxes : DeleteMailBox(b)) \/ UNCHANGED vars
      PROVE  /\ UNCHANGED registries /\ Locked'
             /\ node \in {"joining", "gone"} => node' \in {"joining", "gone"}
  BY <1>7 DEF DestroyLock, Destroy, StopConnection, DeleteConnection, DestroyMailBoxes,
     DestroyEnd, DeleteMailBox, shutdown, vars
<1> QED
  BY <1>1, <1>2, <1>4, <1>5, <1>6, <1>7 DEF Next, registries, shutdown

(* Only ~AutoNode closes sockets, one that it has doomed before.           *)
LEMMA SocketsClose ==
  ASSUME Inv, [Next]_vars
  PROVE  /\ doomed' # None => doomed # None \/ node = "locked"
         /\ \A c \in Conns : socket'[c] = "closed" => socket[c] = "closed" \/
                                                      (doomed = c /\ DeleteConnection)
<1> USE DEF Inv, TypeOK
<1>1. ASSUME NEW t \in Threads, NEW c \in Conns, NEW q, Opened(t, c, q)
      PROVE  /\ doomed' = doomed
             /\ \A d \in Conns : socket'[d] = "closed" => socket[d] = "closed"
  BY <1>1 DEF Opened, shutdown
<1>2. ASSUME NEW t \in Threads, AddConnection(t) PROVE UNCHANGED <<doomed, socket>>
  <2>1. mFlushConnections = {} /\ socket' = [c \in Conns |-> socket[c]]
    BY <1>2 DEF AddConnection, ConnectionsAreOpened
  <2> QED
    BY <1>2, <2>1 DEF AddConnection, shutdown
<1>3. ASSUME NEW t \in Threads, LookUp(t) \/ Put(t) PROVE UNCHANGED <<doomed, socket>>
  BY <1>3 DEF LookUp, Put, shutdown, network
<1>4. ASSUME NEW u \in Users, UserCall(u) PROVE UNCHANGED <<doomed, socket>>
  BY <1>4 DEF UserCall, CreateMailBox, UnRegisterMailBox, Detach, RegisterMailBox,
     UnRegisterName, SendLocal, AttempConnection, StartAcceptor, Close, shutdown, network
<1>5. ASSUME NEW u \in Users, UserStep(u)
      PROVE  /\ doomed' = doomed
             /\ \A d \in Conns : socket'[d] = "closed" => socket[d] = "closed"
  BY <1>1, <1>2, <1>3, <1>5 DEF UserStep, DetachNames, Connect, ConnectFailed,
     StartConnection, SendRemote, shutdown, network, Threads
<1>6. ASSUME AcceptStep
      PROVE  /\ doomed' = doomed
             /\ \A d \in Conns : socket'[d] = "closed" => socket[d] = "closed"
  BY <1>1, <1>2, <1>6 DEF AcceptStep, Accept, StartConnection, AcceptThreadExit,
     shutdown, network, Threads
<1>7. ASSUME NEW c \in Conns, ConnectionStep(c) \/ PeerStep(c)
      PROVE  UNCHANGED <<doomed, socket>>
  BY <1>3, <1>7 DEF ConnectionStep, Receive, LinkFailed, RemoveConnection, Exit,
     PeerStep, Send, Break, shutdown, network, Threads
<1>8. ASSUME NEW c \in Conns, StopConnection(c) PROVE node = "locked" /\ UNCHANGED socket
  BY <1>8 DEF StopConnection
<1>9. CASE DeleteConnection
  BY <1>9 DEF DeleteConnection
<1>10. ASSUME \/ DestroyLock \/ DestroyMailBoxes \/ DestroyEnd
              \/ (\E b \in Boxes : DeleteMailBox(b)) \/ UNCHANGED vars
       PROVE  UNCHANGED <<doomed, socket>>
  BY <1>10 DEF DestroyLock, DestroyMailBoxes, DestroyEnd, DeleteMailBox, shutdown,
     network, vars
<1> QED
  BY <1>4, <1>5, <1>6, <1>7, <1>8, <1>9, <1>10 DEF Next, Destroy

LEMMA NextClosed ==
  ASSUME Inv, [Next]_vars
  PROVE  ClosedAtTheEnd'
<1>1. (doomed' # None => Locked) /\ (Locked => Locked')
  BY SocketsClose, LockedRegistries DEF Inv, ClosedAtTheEnd, Locked
<1>2. ASSUME NEW c \in Conns, socket'[c] = "closed"
      PROVE  Locked' /\ at'[c] # "put"
  <2>1. CASE socket[c] = "closed"
    BY <1>1, <2>1, LockedRegistries DEF Inv, ClosedAtTheEnd, Threads
  <2>2. CASE doomed = c /\ DeleteConnection
    <3>1. c # None /\ Locked /\ at[c] # "put"
      BY <2>2 DEF DeleteConnection, Inv, ClosedAtTheEnd
    <3> QED
      BY <1>1, <3>1, LockedRegistries DEF Inv, Threads
  <2> QED
    BY <1>2, <2>1, <2>2, SocketsClose
<1> QED
  BY <1>1, <1>2 DEF ClosedAtTheEnd

(* The mailboxes are destroyed by one step, and for good.                  *)
LEMMA NodeGoesOn ==
  ASSUME TypeOK, [Next]_vars, node \notin {"joining", "gone"}, node' \in {"joining", "gone"}
  PROVE  DestroyMailBoxes
<1>1. ASSUME NEW t \in Threads, LookUp(t) \/ Put(t) PROVE FALSE
  BY <1>1 DEF LookUp, Put, shutdown
<1>2. ASSUME NEW u \in Users, UserCall(u) PROVE FALSE
  BY <1>2 DEF UserCall, CreateMailBox, UnRegisterMailBox, Detach, RegisterMailBox,
     UnRegisterName, SendLocal, AttempConnection, StartAcceptor, Close, shutdown
<1>3. ASSUME NEW u \in Users, UserStep(u) PROVE FALSE
  BY <1>1, <1>3 DEF UserStep, DetachNames, Connect, Opened, ConnectFailed, AddConnection,
     StartConnection, SendRemote, shutdown, Threads
<1>4. ASSUME AcceptStep PROVE FALSE
  BY <1>4 DEF AcceptStep, Accept, Opened, AddConnection, StartConnection,
     AcceptThreadExit, shutdown
<1>5. ASSUME NEW c \in Conns, ConnectionStep(c) \/ PeerStep(c) PROVE FALSE
  BY <1>1, <1>5 DEF ConnectionStep, Receive, LinkFailed, RemoveConnection, Exit,
     PeerStep, Send, Break, shutdown, Threads
<1>6. ASSUME DestroyLock \/ Destroy \/ (\E b \in Boxes : DeleteMailBox(b)) \/ UNCHANGED vars
      PROVE  DestroyMailBoxes
  BY <1>6 DEF DestroyLock, Destroy, StopConnection, DeleteConnection, DestroyEnd,
     DeleteMailBox, shutdown, vars
<1> QED
  BY <1>2, <1>3, <1>4, <1>5, <1>6 DEF Next

LEMMA NextQuiet ==
  ASSUME Inv, [Next]_vars
  PROVE  MapIsQuiet'
<1> SUFFICES ASSUME node' \in {"joining", "gone"}, NEW p \in Peers, mConnections'[p] # None
             PROVE  at'[mConnections'[p]] # "put"
  BY DEF MapIsQuiet
<1>1. CASE node \in {"joining", "gone"}
  <2>1. mConnections'[p] = mConnections[p] /\ mConnections[p] \in Conns
    BY <1>1, LockedRegistries DEF Locked, Inv, TypeOK
  <2> QED
    BY <1>1, <2>1, LockedRegistries DEF Locked, Inv, MapIsQuiet, Threads
<1>2. CASE node \notin {"joining", "gone"}
  <2>1. DestroyMailBoxes
    BY <1>2, NodeGoesOn DEF Inv
  <2>2. mConnections'[p] = mConnections[p] /\ mConnections[p] \in Conns /\ UNCHANGED at
    BY <2>1 DEF DestroyMailBoxes, registries, locals, Inv, TypeOK
  <2>3. mConnections[p] \in Range(mConnections)
    BY DEF Range, Inv, TypeOK
  <2>4. socket[mConnections[p]] # "open"
    BY <2>1, <2>2, <2>3 DEF DestroyMailBoxes, Remaining
  <2>5. socket[mConnections[p]] = "closed"
    BY <2>2, <2>4 DEF Inv, TypeOK, ConnectionsAreOpened
  <2> QED
    BY <2>2, <2>5 DEF Inv, ClosedAtTheEnd
<1> QED
  BY <1>1, <1>2

(* Steps that touch no mailbox and take none to be detached.               *)
LEMMA NextFoundElsewhere ==
  ASSUME Inv, [Next]_vars, UNCHANGED <<mMailBoxes, mRegMailBoxes, life>>,
         \A t \in Threads : at'[t] = "detaching" => at[t] = "detaching" /\ box'[t] = box[t]
  PROVE  FoundMailBoxesLive'
<1>1. node' \notin {"joining", "gone"} => node \notin {"joining", "gone"}
  BY LockedRegistries DEF Locked, Inv
<1> QED
  BY <1>1 DEF Inv, FoundMailBoxesLive

LEMMA NextFound ==
  ASSUME Inv, [Next]_vars
  PROVE  FoundMailBoxesLive'
<1> USE DEF Inv, TypeOK, Goto, Threads
<1> DEFINE Elsewhere ==
      /\ UNCHANGED <<mMailBoxes, mRegMailBoxes, life>>
      /\ \A t \in Threads : at'[t] = "detaching" => at[t] = "detaching" /\ box'[t] = box[t]
<1>1. ASSUME NEW u \in Users, NEW b \in Boxes, CreateMailBox(u, b)
      PROVE  FoundMailBoxesLive'
  BY <1>1 DEF CreateMailBox, locals, shutdown, FoundMailBoxesLive
<1>2. ASSUME NEW u \in Users, NEW b \in Boxes, NEW n \in Names, RegisterMailBox(u, n, b)
      PROVE  FoundMailBoxesLive'
  BY <1>2 DEF RegisterMailBox, boxes, locals, shutdown, FoundMailBoxesLive
<1>3. ASSUME NEW u \in Users, NEW n \in Names, UnRegisterName(u, n)
      PROVE  FoundMailBoxesLive'
  BY <1>3 DEF UnRegisterName, boxes, locals, shutdown, FoundMailBoxesLive
<1>4. ASSUME NEW u \in Users, NEW b \in Boxes, UnRegisterMailBox(u, b)
      PROVE  FoundMailBoxesLive'
  BY <1>4 DEF UnRegisterMailBox, WithoutNamesOf, boxes, locals, shutdown, FoundMailBoxesLive
<1>5. ASSUME NEW u \in Users, NEW b \in Boxes, Detach(u, b)
      PROVE  FoundMailBoxesLive'
  BY <1>5 DEF Detach, shutdown, FoundMailBoxesLive
<1>6. ASSUME NEW u \in Users, DetachNames(u)
      PROVE  FoundMailBoxesLive'
  <2>1. box[u] \in Boxes /\ life[box[u]] \notin {"unused", "attached"}
    BY <1>6 DEF DetachNames, FoundMailBoxesLive
  <2>2. box[u] \notin mMailBoxes
    BY <1>6, <2>1 DEF DetachNames, RegFree, FoundMailBoxesLive
  <2> QED
    BY <1>6, <2>1, <2>2, NoneAssumption
       DEF DetachNames, RegFree, WithoutNamesOf, shutdown, FoundMailBoxesLive
<1>7. ASSUME NEW b \in Boxes, DeleteMailBox(b) PROVE FoundMailBoxesLive'
  BY <1>7 DEF DeleteMailBox, registries, shutdown, locals, FoundMailBoxesLive
<1>8. CASE DestroyMailBoxes
  BY <1>8 DEF DestroyMailBoxes, locals, FoundMailBoxesLive
<1>9. CASE Elsewhere
  BY <1>9, NextFoundElsewhere
<1>10. ASSUME NEW t \in Threads, LookUp(t) PROVE Elsewhere
  <2>1. /\ at' = [at EXCEPT ![t] = at'[t]] /\ box' = [box EXCEPT ![t] = box'[t]]
        /\ at'[t] # "detaching"
    BY <1>10 DEF LookUp, Home
  <2> QED
    BY <1>10, <2>1 DEF LookUp, registries, boxes
<1>11. ASSUME NEW t \in Threads, Put(t) PROVE Elsewhere
  BY <1>11 DEF Put, Home, registries
<1>12. ASSUME NEW t \in Threads, NEW c \in Conns, NEW q, Opened(t, c, q) PROVE Elsewhere
  BY <1>12 DEF Opened, registries, boxes
<1>13. ASSUME NEW t \in Threads, AddConnection(t) \/ StartConnection(t) PROVE Elsewhere
  BY <1>13 DEF AddConnection, StartConnection, registries, boxes
<1>14. ASSUME NEW u \in Users,
              \/ StartAcceptor(u) \/ Close(u) \/ ConnectFailed(u) \/ SendRemote(u)
              \/ (\E m \in Messages : SendLocal(u, m))
              \/ (\E q \in Peers : AttempConnection(u, q))
       PROVE  Elsewhere
  BY <1>14 DEF StartAcceptor, Close, ConnectFailed, SendRemote, SendLocal, AttempConnection,
     registries, boxes, locals
<1>15. ASSUME NEW u \in Users, UserCall(u) PROVE FoundMailBoxesLive'
  BY <1>1, <1>2, <1>3, <1>4, <1>5, <1>9, <1>14, <1>15 DEF UserCall
<1>16. ASSUME NEW u \in Users, UserStep(u) PROVE FoundMailBoxesLive'
  BY <1>6, <1>9, <1>10, <1>11, <1>12, <1>13, <1>14, <1>16 DEF UserStep, Connect
<1>17. ASSUME AcceptStep PROVE Elsewhere
  <2>1. AcceptThreadExit => Elsewhere
    BY DEF AcceptThreadExit, registries, boxes
  <2> QED
    BY <1>12, <1>13, <1>17, <2>1 DEF AcceptStep, Accept
<1>18. ASSUME NEW c \in Conns, ConnectionStep(c) \/ PeerStep(c) PROVE Elsewhere
  <2>1. Receive(c) \/ LinkFailed(c) \/ RemoveConnection(c) \/ Exit(c) \/ PeerStep(c)
        => Elsewhere
    BY DEF Receive, LinkFailed, RemoveConnection, Exit, PeerStep, Send, Break,
       registries, boxes, locals
  <2> QED
    BY <1>10, <1>11, <1>18, <2>1 DEF ConnectionStep
<1>19. ASSUME \/ DestroyLock \/ DestroyEnd \/ DeleteConnection
              \/ (\E c \in Conns : StopConnection(c)) \/ UNCHANGED vars
       PROVE  Elsewhere
  BY <1>19 DEF DestroyLock, DestroyEnd, DeleteConnection, StopConnection,
     registries, boxes, locals, vars
<1> HIDE DEF Elsewhere
<1> QED
  BY <1>7, <1>8, <1>9, <1>15, <1>16, <1>17, <1>18, <1>19 DEF Next, Destroy

LEMMA NextInv == Inv /\ [Next]_vars => Inv'
<1> SUFFICES ASSUME Inv, [Next]_vars PROVE Inv'
  OBVIOUS
<1>1. TypeOK'
  BY NextType DEF Inv, ConnectionsAreOpened
<1> QED
  BY <1>1, NextOpened, NextClosed, NextQuiet, NextFound DEF Inv

LEMMA Invariance == Spec => []Inv
BY InitInv, NextInv, PTL DEF Spec

-----------------------------------------------------------------------------
(* The registries of a node (EpiAutoNode.hpp:343) hold what they can hold, *)
(* and a thread that carries a message, a mailbox or a connection has one. *)
THEOREM NodeTypes == Spec => []TypeOK
<1>1. Inv => TypeOK
  BY DEF Inv
<1> QED
  BY <1>1, Invariance, PTL

(* The connection that a user or the accept thread has in hand outside the *)
(* mutex (EpiAutoNode.cpp:467) is not deleted while the node lives.        *)
THEOREM SendsAreLive == Spec => []SendsUseLiveConnections
<1>1. Inv => SendsUseLiveConnections
  BY DEF Inv, TypeOK, ConnectionsAreOpened, ClosedAtTheEnd, Locked,
         SendsUseLiveConnections, Threads
<1> QED
  BY <1>1, Invariance, PTL

(* ~AutoNode (EpiAutoNode.cpp:107) destroys mailboxes after the            *)
(* connections whose threads put messages into them.                       *)
THEOREM QuietMailBoxes == Spec => []DestroyedMailBoxesAreQuiet
<1>1. Inv => DestroyedMailBoxesAreQuiet
  BY DEF Inv, TypeOK, MapIsQuiet, DestroyedMailBoxesAreQuiet, Range
<1> QED
  BY <1>1, Invariance, PTL

(* deliver() (EpiAutoNode.cpp:295) finds no mailbox that was detached or   *)
(* deleted, neither by its pid nor by any of its names.                    *)
THEOREM LookupsAreLive == Spec => LookupsFindLiveMailBoxes
<1> DEFINE Live == \A t \in Threads :
             at[t] # "put" /\ at'[t] = "put" => life[box'[t]] \in {"attached", "detaching"}
<1>1. Inv /\ [Next]_vars => [Live]_vars
  <2> SUFFICES ASSUME Inv, [Next]_vars, NEW t \in Threads, at[t] # "put", at'[t] = "put"
               PROVE  life[box'[t]] \in {"attached", "detaching"}
    OBVIOUS
  <2>1. LookUp(t)
    BY PutsAreLookUps DEF Inv
  <2> DEFINE b == Found(Dest[msg[t]])
  <2>2. b # None /\ box'[t] = b /\ node \notin {"joining", "gone"}
    BY <2>1 DEF LookUp, Goto, Home, Inv, TypeOK, RegFree, BoxFree
  <2>3. Dest[msg[t]] \in Boxes \cup Names
    BY <2>1, DestAssumption DEF LookUp, Inv, TypeOK
  <2> QED
    BY <2>2, <2>3 DEF Found, Inv, FoundMailBoxesLive
<1> QED
  BY <1>1, Invariance, PTL DEF Spec, LookupsFindLiveMailBoxes
-----------------------------------------------------------------------------
(* A message that was sent is in one place: on the wire of a connection,   *)
(* in the hands of a thread, in the queue of a mailbox, or nowhere more.   *)
OnePlace ==
  /\ \A c \in Conns : Distinct(wire[c]) /\ ToSet(wire[c]) \subseteq sent
  /\ \A b \in Boxes : Distinct(inbox[b]) /\ ToSet(inbox[b]) \subseteq sent
  /\ \A t \in Threads : msg[t] # None => msg[t] \in sent
  /\ \A c, d \in Conns : c # d => ToSet(wire[c]) \cap ToSet(wire[d]) = {}
  /\ \A b, c \in Boxes : b # c => ToSet(inbox[b]) \cap ToSet(inbox[c]) = {}
  /\ \A s, t \in Threads : msg[s] = msg[t] /\ msg[s] # None => s = t
  /\ \A c \in Conns, b \in Boxes : ToSet(wire[c]) \cap ToSet(inbox[b]) = {}
  /\ \A t \in Threads : /\ \A c \in Conns : msg[t] \notin ToSet(wire[c])
                        /\ \A b \in Boxes : msg[t] \notin ToSet(inbox[b])

(* What is addressed to the pid of a mailbox is taken to no other.         *)
RightBox ==
  /\ \A t \in Threads : at[t] = "put" /\ Dest[msg[t]] \in Boxes => box[t] = Dest[msg[t]]
  /\ \A b \in Boxes : \A m \in ToSet(inbox[b]) : Dest[m] \in Boxes => Dest[m] = b

(* Places may lose messages: a link breaks, a mailbox is deleted, a        *)
(* message finds no mailbox.                                               *)
LEMMA OnePlaceLoses ==
  ASSUME Inv, OnePlace, sent \subseteq sent',
         \A c \in Conns : Distinct(wire'[c]) /\ ToSet(wire'[c]) \subseteq ToSet(wire[c]),
         \A b \in Boxes : Distinct(inbox'[b]) /\ ToSet(inbox'[b]) \subseteq ToSet(inbox[b]),
         \A t \in Threads : msg'[t] \in {msg[t], None}
  PROVE  OnePlace'
<1>1. /\ \A c \in Conns : None \notin ToSet(wire[c])
      /\ \A b \in Boxes : None \notin ToSet(inbox[b])
  BY NoneAssumption DEF OnePlace, Inv, TypeOK
<1>2. /\ \A c, d \in Conns : c # d => ToSet(wire'[c]) \cap ToSet(wire'[d]) = {}
      /\ \A b, c \in Boxes : b # c => ToSet(inbox'[b]) \cap ToSet(inbox'[c]) = {}
      /\ \A c \in Conns, b \in Boxes : ToSet(wire'[c]) \cap ToSet(inbox'[b]) = {}
  BY DEF OnePlace
<1>3. /\ \A c \in Conns : ToSet(wire'[c]) \subseteq sent'
      /\ \A b \in Boxes : ToSet(inbox'[b]) \subseteq sent'
  BY DEF OnePlace
<1>4. \A t \in Threads : /\ msg'[t] # None => msg'[t] \in sent'
                         /\ \A c \in Conns : msg'[t] \notin ToSet(wire'[c])
                         /\ \A b \in Boxes : msg'[t] \notin ToSet(inbox'[b])
  BY <1>1 DEF OnePlace
<1>5. \A s, t \in Threads : msg'[s] = msg'[t] /\ msg'[s] # None => s = t
  BY DEF OnePlace
<1> QED
  BY <1>2, <1>3, <1>4, <1>5 DEF OnePlace

(* A message that was never sent before is new to every place.             *)
LEMMA OnePlaceSent ==
  ASSUME Inv, OnePlace, NEW m \in Messages, m \notin sent, sent' = sent \cup {m}, inbox' = inbox,
         \/ \E c \in Conns : msg' = msg /\ wire' = [wire EXCEPT ![c] = Append(@, m)]
         \/ \E t \in Threads : msg' = [msg EXCEPT ![t] = m] /\ wire' = wire
  PROVE  OnePlace'
<1>1. m # None /\ \A t \in Threads : msg[t] # m
  BY NoneAssumption DEF OnePlace
<1>2. /\ \A c \in Conns : m \notin ToSet(wire[c]) /\ None \notin ToSet(wire[c])
      /\ \A b \in Boxes : m \notin ToSet(inbox[b]) /\ None \notin ToSet(inbox[b])
  BY NoneAssumption DEF OnePlace, Inv, TypeOK
<1>3. CASE \E c \in Conns : msg' = msg /\ wire' = [wire EXCEPT ![c] = Append(@, m)]
  <2>1. PICK c \in Conns : msg' = msg /\ wire' = [wire EXCEPT ![c] = Append(@, m)]
    BY <1>3
  <2>2. ToSet(wire'[c]) = ToSet(wire[c]) \cup {m} /\ Distinct(wire'[c])
    BY <1>2, <2>1, AppendToSet DEF OnePlace, Inv, TypeOK
  <2>3. \A d \in Conns : d # c => wire'[d] = wire[d]
    BY <2>1 DEF Inv, TypeOK
  <2>4. \A d \in Conns : /\ Distinct(wire'[d]) /\ ToSet(wire'[d]) \subseteq sent'
                        /\ \A b \in Boxes : ToSet(wire'[d]) \cap ToSet(inbox'[b]) = {}
    <3> SUFFICES ASSUME NEW d \in Conns
                 PROVE  /\ Distinct(wire'[d]) /\ ToSet(wire'[d]) \subseteq sent'
                        /\ \A b \in Boxes : ToSet(wire'[d]) \cap ToSet(inbox'[b]) = {}
      OBVIOUS
    <3>1. CASE d = c
      BY <1>2, <2>2, <3>1 DEF OnePlace
    <3>2. CASE d # c
      BY <2>3, <3>2 DEF OnePlace
    <3> QED
      BY <3>1, <3>2
  <2>5. \A d, e \in Conns : d # e => ToSet(wire'[d]) \cap ToSet(wire'[e]) = {}
    BY <1>2, <2>2, <2>3 DEF OnePlace
  <2>6. \A t \in Threads, d \in Conns : msg'[t] \notin ToSet(wire'[d])
    BY <1>1, <2>1, <2>2, <2>3 DEF OnePlace
  <2> QED
    BY <2>1, <2>4, <2>5, <2>6 DEF OnePlace
<1>4. CASE \E t \in Threads : msg' = [msg EXCEPT ![t] = m] /\ wire' = wire
  <2>1. PICK t \in Threads : msg' = [msg EXCEPT ![t] = m] /\ wire' = wire
    BY <1>4
  <2>2. \A s \in Threads : msg'[s] = IF s = t THEN m ELSE msg[s]
    BY <2>1 DEF Inv, TypeOK
  <2>3. \A s \in Threads : /\ msg'[s] # None => msg'[s] \in sent'
                           /\ \A c \in Conns : msg'[s] \notin ToSet(wire'[c])
                           /\ \A b \in Boxes : msg'[s] \notin ToSet(inbox'[b])
    BY <1>2, <2>1, <2>2 DEF OnePlace
  <2>4. \A r, s \in Threads : msg'[r] = msg'[s] /\ msg'[r] # None => r = s
    BY <1>1, <2>2 DEF OnePlace
  <2> QED
    BY <2>1, <2>3, <2>4 DEF OnePlace
<1> QED
  BY <1>3, <1>4

(* A message goes from the wire to a thread, and from there to a mailbox.  *)
LEMMA OnePlaceReceived ==
  ASSUME Inv, OnePlace, NEW c \in Conns, Receive(c)
  PROVE  OnePlace'
<1> DEFINE m == Head(wire[c])
<1>1. wire[c] \in Seq(Messages) /\ wire[c] # <<>> /\ Distinct(wire[c])
  BY DEF Receive, Inv, TypeOK, OnePlace
<1>2. /\ m \in ToSet(wire[c]) /\ Distinct(Tail(wire[c]))
      /\ ToSet(Tail(wire[c])) \subseteq ToSet(wire[c]) /\ m \notin ToSet(Tail(wire[c]))
  BY <1>1, TailToSet
<1>3. /\ \A d \in Conns : wire'[d] = IF d = c THEN Tail(wire[c]) ELSE wire[d]
      /\ \A t \in Threads : msg'[t] = IF t = c THEN m ELSE msg[t]
      /\ inbox' = inbox /\ sent' = sent
  BY DEF Receive, Inv, TypeOK, boxes, Threads
<1> HIDE DEF m
<1>4. \A d \in Conns : Distinct(wire'[d]) /\ ToSet(wire'[d]) \subseteq ToSet(wire[d])
  BY <1>2, <1>3 DEF OnePlace
<1>5. \A d \in Conns : m \notin ToSet(wire'[d])
  BY <1>2, <1>3 DEF OnePlace
<1>6. m \in sent /\ \A b \in Boxes : m \notin ToSet(inbox[b])
  BY <1>2 DEF OnePlace
<1>7. \A t \in Threads : msg[t] # m
  BY <1>2 DEF OnePlace
<1>8. /\ \A d, e \in Conns : d # e => ToSet(wire'[d]) \cap ToSet(wire'[e]) = {}
      /\ \A d \in Conns, b \in Boxes : ToSet(wire'[d]) \cap ToSet(inbox'[b]) = {}
      /\ \A d \in Conns : ToSet(wire'[d]) \subseteq sent'
  BY <1>3, <1>4 DEF OnePlace
<1>9. \A t \in Threads : /\ msg'[t] # None => msg'[t] \in sent'
                         /\ \A d \in Conns : msg'[t] \notin ToSet(wire'[d])
                         /\ \A b \in Boxes : msg'[t] \notin ToSet(inbox'[b])
  BY <1>3, <1>4, <1>5, <1>6 DEF OnePlace
<1>10. \A s, t \in Threads : msg'[s] = msg'[t] /\ msg'[s] # None => s = t
  BY <1>3, <1>7 DEF OnePlace
<1> QED
  BY <1>3, <1>4, <1>8, <1>9, <1>10 DEF OnePlace

LEMMA OnePlacePut ==
  ASSUME Inv, OnePlace, NEW t \in Threads, Put(t)
  PROVE  /\ OnePlace'
         /\ ToSet(inbox'[box[t]]) = ToSet(inbox[box[t]]) \cup {msg[t]}
         /\ \A b \in Boxes : b # box[t] => inbox'[b] = inbox[b]
<1> DEFINE m == msg[t]
           b == box[t]
<1>1. m \in Messages /\ m # None /\ b \in Boxes
  BY DEF Put, Inv, TypeOK
<1>2. /\ \A c \in Boxes : inbox'[c] = IF c = b THEN Append(inbox[b], m) ELSE inbox[c]
      /\ \A s \in Threads : msg'[s] = IF s = t THEN None ELSE msg[s]
      /\ wire' = wire /\ sent' = sent
  BY DEF Put, Inv, TypeOK, network
<1>3. /\ m \in sent /\ \A c \in Boxes : m \notin ToSet(inbox[c])
      /\ \A c \in Conns : m \notin ToSet(wire[c])
      /\ \A s \in Threads : s # t => msg[s] # m
  BY <1>1 DEF OnePlace
<1> HIDE DEF m, b
<1>4. ToSet(inbox'[b]) = ToSet(inbox[b]) \cup {m} /\ Distinct(inbox'[b])
  BY <1>1, <1>2, <1>3, AppendToSet DEF OnePlace, Inv, TypeOK
<1>5. /\ \A c \in Boxes : Distinct(inbox'[c]) /\ ToSet(inbox'[c]) \subseteq sent'
      /\ \A c, d \in Boxes : c # d => ToSet(inbox'[c]) \cap ToSet(inbox'[d]) = {}
      /\ \A d \in Conns, c \in Boxes : ToSet(wire'[d]) \cap ToSet(inbox'[c]) = {}
  BY <1>1, <1>2, <1>3, <1>4 DEF OnePlace
<1>6. None \notin sent
  BY NoneAssumption DEF Inv, TypeOK
<1>7. \A s \in Threads : /\ msg'[s] # None => msg'[s] \in sent'
                         /\ \A c \in Conns : msg'[s] \notin ToSet(wire'[c])
                         /\ \A c \in Boxes : msg'[s] \notin ToSet(inbox'[c])
  BY <1>1, <1>2, <1>3, <1>4, <1>5, <1>6 DEF OnePlace
<1>8. \A r, s \in Threads : msg'[r] = msg'[s] /\ msg'[r] # None => r = s
  BY <1>2 DEF OnePlace
<1>9. OnePlace'
  BY <1>2, <1>5, <1>7, <1>8 DEF OnePlace
<1> QED
  BY <1>2, <1>4, <1>9 DEF m, b

(* The steps that move a message.                                          *)
LEMMA MessageSteps ==
  ASSUME [Next]_vars
  PROVE  \/ \E t \in Threads : LookUp(t) \/ Put(t)
         \/ \E u \in Users, m \in Messages : SendLocal(u, m)
         \/ \E c \in Conns, m \in Messages : Send(c, m)
         \/ \E c \in Conns : Break(c) \/ Receive(c)
         \/ (\E b \in Boxes : DeleteMailBox(b)) \/ DestroyMailBoxes
         \/ UNCHANGED <<wire, inbox, msg, sent>>
<1> DEFINE Quiet == UNCHANGED <<wire, inbox, msg, sent>>
<1>1. ASSUME NEW u \in Users, UserCall(u) \/ UserStep(u)
      PROVE  \/ \E m \in Messages : SendLocal(u, m)
             \/ LookUp(u) \/ Put(u) \/ Quiet
  BY <1>1 DEF UserCall, UserStep, CreateMailBox, UnRegisterMailBox, Detach, RegisterMailBox,
     UnRegisterName, AttempConnection, StartAcceptor, Close, DetachNames, Connect, Opened,
     ConnectFailed, AddConnection, StartConnection, SendRemote, locals, network, boxes
<1>2. ASSUME AcceptStep
      PROVE  Quiet
  BY <1>2 DEF AcceptStep, Accept, Opened, AddConnection, StartConnection, AcceptThreadExit,
     locals, network, boxes
<1>3. ASSUME NEW c \in Conns, ConnectionStep(c) \/ PeerStep(c)
       PROVE  \/ \E m \in Messages : Send(c, m)
              \/ Break(c) \/ Receive(c) \/ LookUp(c) \/ Put(c) \/ Quiet
  BY <1>3 DEF ConnectionStep, PeerStep, LinkFailed, RemoveConnection, Exit, locals, network, boxes
<1>4. ASSUME \/ DestroyLock \/ DestroyEnd \/ DeleteConnection
              \/ (\E c \in Conns : StopConnection(c)) \/ UNCHANGED vars
       PROVE  Quiet
  BY <1>4 DEF DestroyLock, DestroyEnd, DeleteConnection, StopConnection,
     locals, network, boxes, vars
<1> HIDE DEF Quiet
<1>5. Quiet => UNCHANGED <<wire, inbox, msg, sent>>
  BY DEF Quiet
<1> QED
  BY <1>1, <1>2, <1>3, <1>4, <1>5 DEF Next, Destroy, Threads

LEMMA OnePlaceNext ==
  ASSUME Inv, OnePlace, [Next]_vars
  PROVE  OnePlace'
<1> DEFINE Quiet == UNCHANGED <<wire, inbox, msg, sent>>
<1>1. ASSUME NEW t \in Threads, LookUp(t)
      PROVE  OnePlace'
  <2>1. /\ \A s \in Threads : msg'[s] \in {msg[s], None}
        /\ wire' = wire /\ inbox' = inbox /\ sent' = sent
    BY <1>1 DEF LookUp, network, boxes, Inv, TypeOK
  <2> QED
    BY <2>1, OnePlaceLoses DEF OnePlace
<1>2. ASSUME NEW c \in Conns, Break(c)
      PROVE  OnePlace'
  <2>1. PICK k \in 0 .. Len(wire[c]) : wire' = [wire EXCEPT ![c] = SubSeq(@, 1, k)]
    BY <1>2 DEF Break
  <2>2. msg' = msg /\ inbox' = inbox /\ sent' = sent
    BY <1>2 DEF Break, locals, boxes
  <2>3. wire[c] \in Seq(Messages) /\ Distinct(wire[c])
    BY DEF Inv, TypeOK, OnePlace
  <2>4. Distinct(SubSeq(wire[c], 1, k)) /\ ToSet(SubSeq(wire[c], 1, k)) \subseteq ToSet(wire[c])
    BY <2>3, PrefixToSet
  <2>5. \A d \in Conns : Distinct(wire'[d]) /\ ToSet(wire'[d]) \subseteq ToSet(wire[d])
    BY <2>1, <2>4 DEF OnePlace, Inv, TypeOK
  <2> QED
    BY <2>2, <2>5, OnePlaceLoses DEF OnePlace
<1>3. ASSUME msg' = msg, wire' = wire, sent' = sent,
             \A b \in Boxes : inbox'[b] \in {inbox[b], <<>>}
      PROVE  OnePlace'
  <2>1. Distinct(<<>>) /\ ToSet(<<>>) = {}
    BY DEF Distinct, ToSet
  <2>2. \A b \in Boxes : Distinct(inbox'[b]) /\ ToSet(inbox'[b]) \subseteq ToSet(inbox[b])
    BY <1>3, <2>1 DEF OnePlace
  <2> QED
    BY <1>3, <2>2, OnePlaceLoses DEF OnePlace
<1>4. ASSUME \/ \E b \in Boxes : DeleteMailBox(b)
             \/ DestroyMailBoxes
      PROVE  OnePlace'
  BY <1>3, <1>4 DEF DeleteMailBox, DestroyMailBoxes, locals, network, Inv, TypeOK
<1>5. ASSUME NEW u \in Users, NEW m \in Messages, SendLocal(u, m)
      PROVE  OnePlace'
  BY <1>5, OnePlaceSent DEF SendLocal, network, boxes, Threads
<1>6. ASSUME NEW c \in Conns, NEW m \in Messages, Send(c, m)
      PROVE  OnePlace'
  BY <1>6, OnePlaceSent DEF Send, locals, boxes
<1>7. ASSUME Quiet
      PROVE  OnePlace'
  BY <1>7 DEF OnePlace
<1> HIDE DEF Quiet
<1> QED
  BY <1>1, <1>2, <1>4, <1>5, <1>6, <1>7, MessageSteps, OnePlaceReceived, OnePlacePut
     DEF Threads, Quiet

(* A thread that is about to put a message into a mailbox keeps to both.   *)
LEMMA PutsStay ==
  ASSUME TypeOK, [Next]_vars, NEW t \in Threads, at[t] = "put", at'[t] = "put"
  PROVE  msg'[t] = msg[t] /\ box'[t] = box[t]
<1> USE DEF TypeOK, Goto, Threads
<1> DEFINE Kept == msg'[t] = msg[t] /\ box'[t] = box[t]
<1>1. ASSUME NEW s \in Threads, LookUp(s) \/ Put(s) PROVE Kept
  <2>1. at[s] \in {"deliver", "put"} /\ at' = [at EXCEPT ![s] = at'[s]]
    BY <1>1 DEF LookUp, Put
  <2>2. at'[s] # "put" \/ at[s] # "put"
    BY <1>1 DEF LookUp, Put, Home
  <2>3. s # t
    BY <2>1, <2>2
  <2> QED
    BY <1>1, <2>3 DEF LookUp, Put
<1>2. ASSUME NEW u \in Users, UserCall(u) PROVE Kept
  BY <1>2 DEF UserCall, CreateMailBox, UnRegisterMailBox, Detach, RegisterMailBox,
     UnRegisterName, SendLocal, AttempConnection, StartAcceptor, Close, Calls, locals
<1>3. ASSUME NEW u \in Users, UserStep(u) PROVE Kept
  BY <1>1, <1>3 DEF UserStep, DetachNames, Connect, Opened, ConnectFailed, AddConnection,
     StartConnection, SendRemote
<1>4. ASSUME AcceptStep PROVE Kept
  BY <1>4 DEF AcceptStep, Accept, Opened, AddConnection, StartConnection, AcceptThreadExit
<1>5. ASSUME NEW c \in Conns, ConnectionStep(c) \/ PeerStep(c) PROVE Kept
  BY <1>1, <1>5 DEF ConnectionStep, PeerStep, Receive, LinkFailed, RemoveConnection, Exit,
     Send, Break, locals
<1>6. ASSUME (\E b \in Boxes : DeleteMailBox(b)) \/ DestroyLock \/ Destroy \/ UNCHANGED vars
      PROVE  Kept
  BY <1>6 DEF DeleteMailBox, DestroyLock, Destroy, StopConnection, DeleteConnection,
     DestroyMailBoxes, DestroyEnd, locals, vars
<1> HIDE DEF Kept
<1>7. Kept
  BY <1>2, <1>3, <1>4, <1>5, <1>6 DEF Next
<1> QED
  BY <1>7 DEF Kept

(* What comes into the queue of a mailbox was put there.                   *)
LEMMA MailBoxesFillByPut ==
  ASSUME TypeOK, [Next]_vars, NEW b \in Boxes, NEW m \in ToSet(inbox'[b]), m \notin ToSet(inbox[b])
  PROVE  \E t \in Threads : Put(t)
<1>1. inbox' # inbox
  OBVIOUS
<1>2. ~\E t \in Threads : LookUp(t)
  BY <1>1 DEF LookUp, boxes
<1>3. /\ ~\E u \in Users, k \in Messages : SendLocal(u, k)
      /\ ~\E c \in Conns, k \in Messages : Send(c, k)
      /\ ~\E c \in Conns : Break(c) \/ Receive(c)
  BY <1>1 DEF SendLocal, Send, Break, Receive, boxes
<1>4. ~((\E c \in Boxes : DeleteMailBox(c)) \/ DestroyMailBoxes)
  <2>1. ToSet(<<>>) = {}
    BY DEF ToSet
  <2>2. (\E c \in Boxes : DeleteMailBox(c)) \/ DestroyMailBoxes => inbox'[b] \in {inbox[b], <<>>}
    BY DEF DeleteMailBox, DestroyMailBoxes, TypeOK
  <2> QED
    BY <2>1, <2>2
<1> QED
  BY <1>1, <1>2, <1>3, <1>4, MessageSteps

LEMMA RightBoxNext ==
  ASSUME Inv, OnePlace, RightBox, [Next]_vars
  PROVE  RightBox'
<1>1. \A t \in Threads : at'[t] = "put" /\ Dest[msg'[t]] \in Boxes => box'[t] = Dest[msg'[t]]
  <2> SUFFICES ASSUME NEW t \in Threads, at'[t] = "put", Dest[msg'[t]] \in Boxes
               PROVE  box'[t] = Dest[msg'[t]]
    OBVIOUS
  <2>1. CASE at[t] # "put"
    <3>1. LookUp(t)
      BY <2>1, PutsAreLookUps DEF Inv
    <3>2. msg'[t] = msg[t] /\ box'[t] = Found(Dest[msg[t]]) /\ box'[t] # None
      BY <3>1 DEF LookUp, Goto, Home, Inv, TypeOK
    <3> QED
      BY <3>2 DEF Found
  <2>2. CASE at[t] = "put"
    <3>1. msg'[t] = msg[t] /\ box'[t] = box[t]
      BY <2>2, PutsStay DEF Inv
    <3> QED
      BY <2>2, <3>1 DEF RightBox
  <2> QED
    BY <2>1, <2>2
<1>2. ASSUME NEW b \in Boxes, NEW m \in ToSet(inbox'[b]), Dest[m] \in Boxes
      PROVE  Dest[m] = b
  <2>1. CASE m \in ToSet(inbox[b])
    BY <1>2, <2>1 DEF RightBox
  <2>2. CASE m \notin ToSet(inbox[b])
    <3>1. PICK t \in Threads : Put(t)
      BY <1>2, <2>2, MailBoxesFillByPut DEF Inv
    <3>2. b = box[t] /\ m = msg[t]
      BY <1>2, <2>2, <3>1, OnePlacePut
    <3> QED
      BY <1>2, <3>1, <3>2 DEF Put, RightBox
  <2> QED
    BY <2>1, <2>2
<1> QED
  BY <1>1, <1>2 DEF RightBox

(* Nothing is anywhere at first.                                           *)
LEMMA OnePlaceInit == Init => OnePlace /\ RightBox
<1>1. ToSet(<<>>) = {} /\ Distinct(<<>>)
  BY DEF ToSet, Distinct
<1> QED
  BY <1>1 DEF Init, OnePlace, RightBox

(* The queues of the mailboxes hold no message twice, and none that is     *)
(* addressed to the pid of another mailbox.                                *)
MessagesReachNoOtherMailBox ==
  \A b \in Boxes :
    /\ Distinct(inbox[b])
    /\ \A m \in ToSet(inbox[b]) :
         /\ Dest[m] \in Boxes => b = Dest[m]
         /\ \A c \in Boxes \ {b} : m \notin ToSet(inbox[c])

(* AutoNode::deliver() (EpiAutoNode.cpp:295) and the acceptors that call   *)
(* it: however many threads deliver at a time, a message gets into one     *)
(* mailbox at most and only once, and into that of its pid if it has one.  *)
THEOREM MessagesArriveOnce == Spec => []MessagesReachNoOtherMailBox
<1>1. Init => OnePlace /\ RightBox
  BY OnePlaceInit
<1>2. Inv /\ OnePlace /\ RightBox /\ [Next]_vars => (OnePlace /\ RightBox)'
  BY OnePlaceNext, RightBoxNext
<1>3. OnePlace /\ RightBox => MessagesReachNoOtherMailBox
  BY DEF OnePlace, RightBox, MessagesReachNoOtherMailBox
<1> QED
  BY <1>1, <1>2, <1>3, Invariance, PTL DEF Spec
=============================================================================
