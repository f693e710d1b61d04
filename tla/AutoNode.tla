------------------------------ MODULE AutoNode ------------------------------
(***************************************************************************)
(* The node that manages mailboxes and connections by itself               *)
(* (src/src/EpiAutoNode.cpp), in the OpenThreads build: three registries,  *)
(* each with a mutex, shared by                                            *)
(*   - the user threads, which call the methods of the node,               *)
(*   - the thread that accepts connections (AutoNode::run),                *)
(*   - the acceptor thread of each connection, which delivers to the node; *)
(*     it bears the name of its connection,                                *)
(*   - the thread that destroys the node.                                  *)
(*                                                                         *)
(* A method that locks, works and unlocks is one action, enabled while the *)
(* mutex is free; only ~AutoNode holds a mutex from one step to the next.  *)
(* A connection behaves as ConnectionContract says; a mailbox is the       *)
(* sequence of messages put into its queue.                                *)
(***************************************************************************)
EXTENDS Naturals, SequencesExt, Functions

CONSTANTS Users, Boxes, Names, Peers, Conns, Messages,
          AcceptThread,  \* the thread of AutoNode::run
          Dest,          \* the mailbox (pid) or the name each message is sent to
          None           \* the null pointer

ASSUME DestAssumption == Dest \in [Messages -> Boxes \cup Names]

(* No message, mailbox or connection is null.                              *)
ASSUME NoneAssumption == None \notin Messages \cup Boxes \cup Conns

(* An EIMessageAcceptor is an object of its own: no pointer to one is null *)
(* or a pointer to a connection.                                           *)
ASSUME AcceptorAssumption ==
  \A c \in Conns : <<"EIMessageAcceptor", c>> \notin Conns \cup {None}

(* No thread is two of these.                                              *)
ASSUME ThreadsAssumption ==
  Users \cap Conns = {} /\ AcceptThread \notin Users \cup Conns

Threads == Users \cup {AcceptThread} \cup Conns

VARIABLES
  mMailBoxes,        \* the mailboxes found by pid
  mRegMailBoxes,     \* the mailbox registered under each name
  mConnections,      \* the connection to each peer
  mFlushConnections, \* connections to be deleted
  mThreadExit,       \* asks the accept thread to exit
  node,              \* "alive", or how far ~AutoNode is
  doomed,            \* the connection ~AutoNode is deleting
  at, msg, box, conn, to, \* each thread: where it is, and its local variables
  peer, wire, link, socket, stop, \* each connection: its peer, unread frames,
                     \* "up" or "down", "unused", "open" or "closed", stop requested
  life,              \* each mailbox: "unused", "attached", "detached", "deleted"
  inbox,             \* each mailbox: the messages put into its queue
  sent               \* history: messages sent to the node

registries == <<mMailBoxes, mRegMailBoxes, mConnections, mFlushConnections>>
locals == <<at, msg, box, conn, to>>
network == <<peer, wire, link, socket, stop>>
boxes == <<life, inbox>>
shutdown == <<mThreadExit, node, doomed>>
vars == <<registries, shutdown, locals, network, boxes, sent>>

-----------------------------------------------------------------------------

Init ==
  /\ mMailBoxes = {}
  /\ mRegMailBoxes = [n \in Names |-> None]
  /\ mConnections = [p \in Peers |-> None]
  /\ mFlushConnections = {}
  /\ mThreadExit = FALSE /\ node = "alive" /\ doomed = None
  /\ at = [t \in Threads |-> IF t \in Users THEN "idle" ELSE "none"]
  /\ msg = [t \in Threads |-> None]
  /\ box = [t \in Threads |-> None]
  /\ conn = [t \in Threads |-> None]
  /\ to = [t \in Threads |-> None]
  /\ peer = [c \in Conns |-> None]
  /\ wire = [c \in Conns |-> <<>>]
  /\ link = [c \in Conns |-> "up"]
  /\ socket = [c \in Conns |-> "unused"]
  /\ stop = [c \in Conns |-> FALSE]
  /\ life = [b \in Boxes |-> "unused"]
  /\ inbox = [b \in Boxes |-> <<>>]
  /\ sent = {}

(* The mutexes.  ~AutoNode takes them in this order and keeps them to its  *)
(* end; what a thread does to a node that is gone is not modelled.         *)
RegFree  == node = "alive"
ConnFree == node \in {"alive", "lock1"}
BoxFree  == node \in {"alive", "lock1", "lock2"}

(* Users call the methods of a node that exists.                           *)
Calls(u) == node = "alive" /\ at[u] = "idle"

Goto(t, place) == at' = [at EXCEPT ![t] = place]

(* Where a thread is when it has done its work.                            *)
Home(t) == IF t \in Users THEN "idle" ELSE IF t \in Conns THEN "receive" ELSE "accepting"

-----------------------------------------------------------------------------
(* Mailboxes. *)

CreateMailBox(u, b) ==
  /\ Calls(u) /\ life[b] = "unused"
  /\ mMailBoxes' = mMailBoxes \cup {b}
  /\ life' = [life EXCEPT ![b] = "attached"]
  /\ UNCHANGED <<mRegMailBoxes, mConnections, mFlushConnections, shutdown, locals, network, inbox, sent>>

(* A later registration of the same name replaces the earlier one.         *)
RegisterMailBox(u, n, b) ==
  /\ Calls(u) /\ life[b] = "attached"
  /\ mRegMailBoxes' = [mRegMailBoxes EXCEPT ![n] = b]
  /\ UNCHANGED <<mMailBoxes, mConnections, mFlushConnections, shutdown,
                 locals, network, boxes, sent>>

UnRegisterName(u, n) ==
  /\ Calls(u)
  /\ mRegMailBoxes' = [mRegMailBoxes EXCEPT ![n] = None]
  /\ UNCHANGED <<mMailBoxes, mConnections, mFlushConnections, shutdown,
                 locals, network, boxes, sent>>

(* Mutant of WithoutNamesOf: a mailbox with more than one name keeps them. *)
OnlyNameOf(b) ==
  [n \in Names |->
     IF mRegMailBoxes[n] = b /\ \A m \in Names \ {n} : mRegMailBoxes[m] # b
       THEN None ELSE mRegMailBoxes[n]]

(* eraseByValue() over the registered names.                               *)
WithoutNamesOf(b) ==
  [n \in Names |-> IF mRegMailBoxes[n] = b THEN None ELSE mRegMailBoxes[n]]

UnRegisterMailBox(u, b) ==
  /\ Calls(u) /\ life[b] = "attached"
  /\ mRegMailBoxes' = WithoutNamesOf(b)
  /\ UNCHANGED <<mMailBoxes, mConnections, mFlushConnections, shutdown,
                 locals, network, boxes, sent>>

(* deattachMailBox(): removeMailBox() takes one mutex after the other.  A  *)
(* mailbox has one owner, who detaches it once and then neither registers  *)
(* nor detaches it again.                                                  *)
Detach(u, b) ==
  /\ Calls(u) /\ life[b] = "attached"
  /\ mMailBoxes' = mMailBoxes \ {b}
  /\ life' = [life EXCEPT ![b] = "detaching"]
  /\ box' = [box EXCEPT ![u] = b]
  /\ Goto(u, "detaching")
  /\ UNCHANGED <<mRegMailBoxes, mConnections, mFlushConnections, shutdown, msg, conn, to, network, inbox, sent>>

DetachNames(u) ==
  /\ at[u] = "detaching" /\ RegFree
  /\ mRegMailBoxes' = WithoutNamesOf(box[u])
  /\ life' = [life EXCEPT ![box[u]] = "detached"]
  /\ box' = [box EXCEPT ![u] = None]
  /\ Goto(u, "idle")
  /\ UNCHANGED <<mMailBoxes, mConnections, mFlushConnections, shutdown,
                 msg, conn, to, network, inbox, sent>>

(* "The user MUST delete the mailbox": ~MailBox flushes its queue.         *)
DeleteMailBox(b) ==
  /\ life[b] = "detached"
  /\ life' = [life EXCEPT ![b] = "deleted"]
  /\ inbox' = [inbox EXCEPT ![b] = <<>>]
  /\ UNCHANGED <<registries, shutdown, locals, network, sent>>

-----------------------------------------------------------------------------
(* Mutant of Found: a pid is looked for among the registered mailboxes.    *)
FoundAmongNames(d) ==
  IF d \in Names THEN mRegMailBoxes[d]
                 ELSE IF d \in Range(mRegMailBoxes) THEN d ELSE None

(* AutoNode::deliver(), by the thread t that carries a message: look the   *)
(* mailbox up under the mutex of its registry, then, the mutex released,   *)
(* put the message into the queue of the mailbox that was found.           *)
Found(d) == IF d \in Boxes THEN IF d \in mMailBoxes THEN d ELSE None
                           ELSE mRegMailBoxes[d]

LookUp(t) ==
  /\ at[t] = "deliver"
  /\ IF Dest[msg[t]] \in Boxes THEN BoxFree ELSE RegFree
  /\ LET b == Found(Dest[msg[t]])
     IN IF b = None
          THEN /\ Goto(t, Home(t))
               /\ msg' = [msg EXCEPT ![t] = None]
               /\ UNCHANGED box
          ELSE /\ Goto(t, "put")
               /\ box' = [box EXCEPT ![t] = b]
               /\ UNCHANGED msg
  /\ UNCHANGED <<registries, shutdown, conn, to, network, boxes, sent>>

Put(t) ==
  /\ at[t] = "put"
  /\ inbox' = [inbox EXCEPT ![box[t]] = Append(@, msg[t])]
  /\ Goto(t, Home(t))
  /\ msg' = [msg EXCEPT ![t] = None]
  /\ box' = [box EXCEPT ![t] = None]
  /\ UNCHANGED <<registries, shutdown, conn, to, network, life, sent>>

(* sendBuf() to a mailbox of this node.                                    *)
SendLocal(u, m) ==
  /\ Calls(u) /\ m \notin sent
  /\ msg' = [msg EXCEPT ![u] = m]
  /\ Goto(u, "deliver")
  /\ sent' = sent \cup {m}
  /\ UNCHANGED <<registries, shutdown, box, conn, to, network, boxes>>

-----------------------------------------------------------------------------
(* Connections. *)

(* sendBuf() to another node: attempConnection().  getConnection() gives   *)
(* up the mutex before connect() runs and addConnection() takes it again.  *)
AttempConnection(u, p) ==
  /\ Calls(u)
  /\ to' = [to EXCEPT ![u] = p]
  /\ conn' = [conn EXCEPT ![u] = mConnections[p]]
  /\ Goto(u, IF mConnections[p] = None THEN "connecting" ELSE "sending")
  /\ UNCHANGED <<registries, shutdown, msg, box, network, boxes, sent>>

(* A new connection c to p, in the hands of thread t.                      *)
Opened(t, c, p) ==
  /\ socket[c] = "unused"
  /\ socket' = [socket EXCEPT ![c] = "open"]
  /\ peer' = [peer EXCEPT ![c] = p]
  /\ conn' = [conn EXCEPT ![t] = c]
  /\ Goto(t, "adding")
  /\ UNCHANGED <<registries, shutdown, msg, box, wire, link, stop, boxes, sent>>

Connect(u, c) == at[u] = "connecting" /\ Opened(u, c, to[u]) /\ UNCHANGED to

(* connect() throws EpiConnectionException, which leaves sendBuf().        *)
ConnectFailed(u) ==
  /\ at[u] = "connecting"
  /\ to' = [to EXCEPT ![u] = None]
  /\ Goto(u, "idle")
  /\ UNCHANGED <<registries, shutdown, msg, box, conn, network, boxes, sent>>

(* addConnection(): replaces what the map held for the peer, and deletes   *)
(* the connections in the flush list, each of which joins its acceptor.    *)
AddConnection(t) ==
  /\ at[t] = "adding" /\ ConnFree
  /\ \A c \in mFlushConnections : at[c] = "exited"
  /\ mConnections' = [mConnections EXCEPT ![peer[conn[t]]] = conn[t]]
  /\ mFlushConnections' = {}
  /\ socket' = [c \in Conns |-> IF c \in mFlushConnections THEN "closed" ELSE socket[c]]
  /\ Goto(t, "starting")
  /\ UNCHANGED <<mMailBoxes, mRegMailBoxes, shutdown, msg, box, conn, to,
                 peer, wire, link, stop, boxes, sent>>

(* connection->start(): the acceptor thread of the connection runs.  The   *)
(* mutex is free meanwhile, so ~AutoNode may have deleted the connection   *)
(* under the accept thread; the thread is then started all the same.       *)
StartConnection(t) ==
  /\ at[t] = "starting"
  /\ at' = [at EXCEPT ![conn[t]] = "receive",
                      ![t] = IF t = AcceptThread THEN "accepting" ELSE "sending"]
  /\ conn' = IF t = AcceptThread THEN [conn EXCEPT ![t] = None] ELSE conn
  /\ UNCHANGED <<registries, shutdown, msg, box, to, network, boxes, sent>>

(* connection->sendBuf(): written to the socket, or an exception.          *)
SendRemote(u) ==
  /\ at[u] = "sending"
  /\ conn' = [conn EXCEPT ![u] = None]
  /\ to' = [to EXCEPT ![u] = None]
  /\ Goto(u, "idle")
  /\ UNCHANGED <<registries, shutdown, msg, box, network, boxes, sent>>

(* startAcceptor(), and the loop of run(): accept() gives a connection, or *)
(* nothing for 500 ms.                                                     *)
StartAcceptor(u) ==
  /\ Calls(u) /\ at[AcceptThread] = "none"
  /\ Goto(AcceptThread, "accepting")
  /\ UNCHANGED <<registries, shutdown, msg, box, conn, to, network, boxes, sent>>

Accept(c, p) ==
  /\ at[AcceptThread] = "accepting" /\ ~mThreadExit
  /\ Opened(AcceptThread, c, p)
  /\ UNCHANGED to

AcceptThreadExit ==
  /\ at[AcceptThread] = "accepting" /\ mThreadExit
  /\ Goto(AcceptThread, "exited")
  /\ UNCHANGED <<registries, shutdown, msg, box, conn, to, network, boxes, sent>>

(* close() is this flag and nothing else.                                  *)
Close(u) ==
  /\ Calls(u) /\ ~mThreadExit
  /\ mThreadExit' = TRUE
  /\ UNCHANGED <<registries, node, doomed, locals, network, boxes, sent>>

-----------------------------------------------------------------------------
(* The peers. *)

Send(c, m) ==
  /\ socket[c] = "open" /\ link[c] = "up" /\ m \notin sent
  /\ wire' = [wire EXCEPT ![c] = Append(@, m)]
  /\ sent' = sent \cup {m}
  /\ UNCHANGED <<registries, shutdown, locals, peer, link, socket, stop, boxes>>

Break(c) ==
  /\ socket[c] = "open" /\ link[c] = "up"
  /\ link' = [link EXCEPT ![c] = "down"]
  /\ \E k \in 0 .. Len(wire[c]) : wire' = [wire EXCEPT ![c] = SubSeq(@, 1, k)]
  /\ UNCHANGED <<registries, shutdown, locals, peer, socket, stop, boxes, sent>>

-----------------------------------------------------------------------------
(* The acceptor thread of connection c. *)

Receive(c) ==
  /\ at[c] = "receive" /\ ~stop[c] /\ wire[c] # <<>>
  /\ msg' = [msg EXCEPT ![c] = Head(wire[c])]
  /\ wire' = [wire EXCEPT ![c] = Tail(@)]
  /\ Goto(c, "deliver")
  /\ UNCHANGED <<registries, shutdown, box, conn, to, peer, link, socket,
                 stop, boxes, sent>>

(* The broken link: the acceptor stops itself and delivers the error.      *)
LinkFailed(c) ==
  /\ at[c] = "receive" /\ ~stop[c] /\ wire[c] = <<>> /\ link[c] = "down"
  /\ stop' = [stop EXCEPT ![c] = TRUE]
  /\ Goto(c, "failed")
  /\ UNCHANGED <<registries, shutdown, msg, box, conn, to, peer, wire, link,
                 socket, boxes, sent>>

(* Mutant of Origin: the connection itself.                                *)
OriginIsConnection(c) == c

(* deliver() of an error: removeConnection(origin).  The origin is the     *)
(* EIMessageAcceptor (EIConnection.cpp:203), cast to a Connection*.        *)
Origin(c) == <<"EIMessageAcceptor", c>>

(* Mutant of RemoveConnection: pushed to the flush list whatever count is. *)
RemoveUncounted(c) ==
  /\ at[c] = "failed" /\ ConnFree
  /\ mConnections' =
       [p \in Peers |-> IF mConnections[p] = Origin(c) THEN None ELSE mConnections[p]]
  /\ mFlushConnections' = mFlushConnections \cup {Origin(c)}
  /\ Goto(c, "receive")
  /\ UNCHANGED <<mMailBoxes, mRegMailBoxes, shutdown, msg, box, conn, to, network,
                 boxes, sent>>

RemoveConnection(c) ==
  /\ at[c] = "failed" /\ ConnFree
  /\ mConnections' =
       [p \in Peers |-> IF mConnections[p] = Origin(c) THEN None ELSE mConnections[p]]
  /\ mFlushConnections' =
       mFlushConnections \cup ({Origin(c)} \cap Range(mConnections))
  /\ Goto(c, "receive")
  /\ UNCHANGED <<mMailBoxes, mRegMailBoxes, shutdown, msg, box, conn, to,
                 network, boxes, sent>>

Exit(c) ==
  /\ at[c] = "receive" /\ stop[c]
  /\ Goto(c, "exited")
  /\ UNCHANGED <<registries, shutdown, msg, box, conn, to, network, boxes, sent>>

-----------------------------------------------------------------------------
(* ~AutoNode.  No user is in a method of the node. *)

DestroyLock ==
  /\ \A u \in Users : at[u] = "idle"
  /\ \/ node = "alive" /\ node' = "lock1"
     \/ node = "lock1" /\ node' = "lock2"
     \/ node = "lock2" /\ node' = "locked"
  /\ UNCHANGED <<registries, mThreadExit, doomed, locals, network, boxes, sent>>

(* flushConnections() and destroyConnections(): the destructor of each     *)
(* connection raises the flag of its acceptor and joins it, when it has    *)
(* one, and deletes the socket.                                            *)
Remaining == {c \in Range(mConnections) \cup mFlushConnections :
                c # None /\ socket[c] = "open"}

StopConnection(c) ==
  /\ node = "locked" /\ doomed = None /\ c \in Remaining
  /\ doomed' = c
  /\ stop' = [stop EXCEPT ![c] = (at[c] # "none")]
  /\ UNCHANGED <<registries, mThreadExit, node, locals, peer, wire, link, socket,
                 boxes, sent>>

DeleteConnection ==
  /\ doomed # None /\ at[doomed] \in {"none", "exited"}
  /\ socket' = [socket EXCEPT ![doomed] = "closed"]
  /\ doomed' = None
  /\ UNCHANGED <<registries, mThreadExit, node, locals, peer, wire, link, stop,
                 boxes, sent>>

(* Mutant of DestroyMailBoxes: before destroyConnections().                *)
MailBoxesFirst ==
  /\ node = "locked" /\ doomed = None
  /\ life' = [b \in Boxes |-> IF b \in mMailBoxes THEN "deleted" ELSE life[b]]
  /\ inbox' = [b \in Boxes |-> IF b \in mMailBoxes THEN <<>> ELSE inbox[b]]
  /\ mThreadExit' = TRUE
  /\ node' = "joining"
  /\ UNCHANGED <<registries, doomed, locals, network, sent>>

(* destroyMailBoxes(), then close().                                       *)
DestroyMailBoxes ==
  /\ node = "locked" /\ doomed = None /\ Remaining = {}
  /\ life' = [b \in Boxes |-> IF b \in mMailBoxes THEN "deleted" ELSE life[b]]
  /\ inbox' = [b \in Boxes |-> IF b \in mMailBoxes THEN <<>> ELSE inbox[b]]
  /\ mThreadExit' = TRUE
  /\ node' = "joining"
  /\ UNCHANGED <<registries, doomed, locals, network, sent>>

(* The accept thread is joined.                                            *)
DestroyEnd ==
  /\ node = "joining" /\ at[AcceptThread] \in {"none", "exited"}
  /\ node' = "gone"
  /\ UNCHANGED <<registries, mThreadExit, doomed, locals, network, boxes, sent>>

-----------------------------------------------------------------------------
UserCall(u) ==
  \/ \E b \in Boxes : CreateMailBox(u, b) \/ UnRegisterMailBox(u, b) \/ Detach(u, b)
  \/ \E n \in Names, b \in Boxes : RegisterMailBox(u, n, b)
  \/ \E n \in Names : UnRegisterName(u, n)
  \/ \E m \in Messages : SendLocal(u, m)
  \/ \E p \in Peers : AttempConnection(u, p)
  \/ StartAcceptor(u) \/ Close(u)

UserStep(u) ==
  \/ DetachNames(u) \/ LookUp(u) \/ Put(u)
  \/ (\E c \in Conns : Connect(u, c)) \/ ConnectFailed(u)
  \/ AddConnection(u) \/ StartConnection(u) \/ SendRemote(u)

AcceptStep ==
  \/ \E c \in Conns, p \in Peers : Accept(c, p)
  \/ AddConnection(AcceptThread) \/ StartConnection(AcceptThread)
  \/ AcceptThreadExit

ConnectionStep(c) ==
  Receive(c) \/ LookUp(c) \/ Put(c) \/ LinkFailed(c) \/ RemoveConnection(c) \/ Exit(c)

PeerStep(c) == (\E m \in Messages : Send(c, m)) \/ Break(c)

Destroy ==
  \/ (\E c \in Conns : StopConnection(c)) \/ DeleteConnection
  \/ DestroyMailBoxes \/ DestroyEnd

Next ==
  \/ \E u \in Users : UserCall(u) \/ UserStep(u)
  \/ AcceptStep
  \/ \E c \in Conns : ConnectionStep(c) \/ PeerStep(c)
  \/ \E b \in Boxes : DeleteMailBox(b)
  \/ DestroyLock \/ Destroy

Spec == Init /\ [][Next]_vars

(* Every thread that can take a step is scheduled; accept() and a receive  *)
(* come back after 500 ms.  Nothing is assumed of the peers, nor of what   *)
(* the users call.                                                         *)
Fairness ==
  /\ \A u \in Users : WF_vars(UserStep(u))
  /\ \A c \in Conns : WF_vars(ConnectionStep(c))
  /\ WF_vars(AddConnection(AcceptThread) \/ StartConnection(AcceptThread)
             \/ AcceptThreadExit)
  /\ WF_vars(node # "alive" /\ (DestroyLock \/ Destroy))

FairSpec == Spec /\ Fairness

-----------------------------------------------------------------------------
TypeOK ==
  /\ mMailBoxes \subseteq Boxes
  /\ mRegMailBoxes \in [Names -> Boxes \cup {None}]
  /\ mConnections \in [Peers -> Conns \cup {None}]
  /\ mFlushConnections \subseteq Conns
  /\ mThreadExit \in BOOLEAN
  /\ node \in {"alive", "lock1", "lock2", "locked", "joining", "gone"}
  /\ doomed \in Conns \cup {None}
  /\ at \in [Threads -> {"none", "idle", "detaching", "deliver", "put", "connecting",
                         "adding", "starting", "sending", "accepting", "receive",
                         "failed", "exited"}]
  /\ msg \in [Threads -> Messages \cup {None}]
  /\ box \in [Threads -> Boxes \cup {None}]
  /\ conn \in [Threads -> Conns \cup {None}]
  /\ to \in [Threads -> Peers \cup {None}]
  /\ peer \in [Conns -> Peers \cup {None}]
  /\ wire \in [Conns -> Seq(Messages)]
  /\ link \in [Conns -> {"up", "down"}]
  /\ socket \in [Conns -> {"unused", "open", "closed"}]
  /\ stop \in [Conns -> BOOLEAN]
  /\ life \in [Boxes -> {"unused", "attached", "detaching", "detached", "deleted"}]
  /\ inbox \in [Boxes -> Seq(Messages)]
  /\ sent \subseteq Messages
  /\ \A t \in Threads :
       /\ (at[t] \in {"deliver", "put"}) => (msg[t] # None)
       /\ (at[t] \in {"put", "detaching"}) => (box[t] # None)
       /\ (at[t] \in {"adding", "starting", "sending"}) => (conn[t] # None)

(* A connection that a thread got from the map, and uses after the mutex   *)
(* is released, has not been deleted meanwhile by another thread's         *)
(* addConnection() with its flush list.                                    *)
SendsUseLiveConnections ==
  \A t \in Users \cup {AcceptThread} :
    at[t] \in {"adding", "sending"} /\ node = "alive" => socket[conn[t]] = "open"

(* removeMailBox() leaves no way to the mailbox: once deattachMailBox()    *)
(* has returned, no lookup by pid or by any name finds the mailbox, which  *)
(* its user now deletes.                                                   *)
LookupsFindLiveMailBoxes ==
  [][\A t \in Threads :
       at[t] # "put" /\ at'[t] = "put" => life[box'[t]] \in {"attached", "detaching"}]_vars

(* When ~AutoNode has deleted the mailboxes, no acceptor thread of a       *)
(* connection in the map still carries a message to one of them: the       *)
(* connections, with their threads, are destroyed before the mailboxes.    *)
DestroyedMailBoxesAreQuiet ==
  node = "joining" =>
    \A c \in Range(mConnections) \ {None} :
      ~(at[c] = "put" /\ life[box[c]] = "deleted" /\ box[c] \in mMailBoxes)

(* A message that reached a started connection, for a mailbox found by its *)
(* pid, gets into that mailbox, unless the mailbox is detached, the link   *)
(* breaks or the node is closed or destroyed first.  close() is promised   *)
(* to end delivery (EpiAutoNode.hpp:76-79), though it only tells the       *)
(* accept thread to exit: nothing is claimed of what follows it.           *)
MessagesReachTheirMailBox ==
  \A c \in Conns, m \in Messages :
    (at[c] = "receive" /\ m \in ToSet(wire[c]) /\ Dest[m] \in mMailBoxes)
      ~> (Dest[m] \in Boxes =>
            \/ m \in ToSet(inbox[Dest[m]])
            \/ Dest[m] \notin mMailBoxes \/ link[c] = "down"
            \/ mThreadExit \/ node # "alive")

(* "Remove and delete a connection. [...] This allows a connection thread  *)
(* to remove himself." (EpiAutoNode.hpp:319): when the acceptor of a       *)
(* broken connection has exited, the map no longer holds the connection,   *)
(* so that the next message to the peer opens a new one.                   *)
DeadConnectionRemoved ==
  \A c \in Conns : at[c] = "exited" /\ node = "alive" => c \notin Range(mConnections)

(* ~AutoNode comes to its end: stop() of each connection's acceptor "will  *)
(* stop and destroy the acceptor" (EIConnection.cpp:67).                   *)
DestructorReturns == node # "alive" ~> node = "gone"
=============================================================================
