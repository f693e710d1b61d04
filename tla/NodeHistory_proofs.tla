------------------------- MODULE NodeHistory_proofs -------------------------
(***************************************************************************)
(* Proofs about the order in which a node delivers, and that each of its   *)
(* connections behaves as ConnectionContract says, for any users,          *)
(* mailboxes, names, peers, connections and messages.                      *)
(***************************************************************************)
EXTENDS NodeHistory, AutoNode_proofs

(* A thread that has opened a connection is the only one to hold it until  *)
(* it has started its acceptor, which runs once: it is not started again   *)
(* after it has been asked to stop, or has stopped itself.                 *)
Holds(t) == at[t] \in {"adding", "starting"}

AcceptorsStartOnce ==
  /\ \A t \in Threads : Holds(t) => /\ t \notin Conns /\ conn[t] \in Conns
                                    /\ at[conn[t]] = "none"
  /\ \A s, t \in Threads : Holds(s) /\ Holds(t) /\ conn[s] = conn[t] => s = t
  /\ \A c \in Conns :
       /\ at[c] \in {"none", "receive", "deliver", "put", "failed", "exited"}
       /\ socket[c] = "unused" => at[c] = "none"
       /\ at[c] = "none" => ~stop[c]
       /\ at[c] \in {"failed", "exited"} => stop[c]
  /\ \A u \in Users : at[u] \notin {"none", "receive", "failed", "accepting", "exited"}
  /\ at[AcceptThread] \in {"none", "accepting", "adding", "starting", "exited"}

LEMMA StartOnceInit == Init => AcceptorsStartOnce
BY ThreadsAssumption DEF Init, AcceptorsStartOnce, Holds, Threads

(* Steps of one thread that leave it without a new connection, and without *)
(* a flag raised.                                                          *)
LEMMA StartOnceOthers ==
  ASSUME Inv, AcceptorsStartOnce, NEW t \in Threads,
         at' = [at EXCEPT ![t] = at'[t]], stop' = stop, socket' = socket,
         \A s \in Threads : s # t => conn'[s] = conn[s],
         Holds(t)' => Holds(t) /\ conn'[t] = conn[t],
         t \in Users => at'[t] \notin {"none", "receive", "failed", "accepting", "exited"},
         t = AcceptThread => at'[t] \in {"none", "accepting", "adding", "starting", "exited"},
         t \in Conns => /\ at'[t] \in {"receive", "deliver", "put", "failed", "exited"}
                        /\ at[t] # "none"
                        /\ at'[t] \in {"failed", "exited"} => stop[t]
  PROVE  AcceptorsStartOnce'
<1>1. \A s \in Threads : at'[s] = IF s = t THEN at'[t] ELSE at[s]
  BY DEF Inv, TypeOK
<1>2. \A s \in Threads : Holds(s)' => Holds(s) /\ conn'[s] = conn[s]
  BY <1>1 DEF Holds
<1>3. \A c \in Conns : c \in Threads /\ (at'[c] = "none" <=> at[c] = "none")
  BY <1>1 DEF Threads
<1>4. \A s \in Threads : Holds(s)' => s \notin Conns /\ conn'[s] \in Conns /\ at'[conn'[s]] = "none"
  BY <1>2, <1>3 DEF AcceptorsStartOnce
<1>5. \A r, s \in Threads : Holds(r)' /\ Holds(s)' /\ conn'[r] = conn'[s] => r = s
  BY <1>2 DEF AcceptorsStartOnce
<1>6. ASSUME NEW c \in Conns
      PROVE  /\ at'[c] \in {"none", "receive", "deliver", "put", "failed", "exited"}
             /\ socket'[c] = "unused" => at'[c] = "none"
             /\ at'[c] = "none" => ~stop'[c]
             /\ at'[c] \in {"failed", "exited"} => stop'[c]
  BY <1>1, <1>3 DEF AcceptorsStartOnce
<1>7. /\ \A u \in Users : at'[u] \notin {"none", "receive", "failed", "accepting", "exited"}
      /\ at'[AcceptThread] \in {"none", "accepting", "adding", "starting", "exited"}
  BY <1>1 DEF AcceptorsStartOnce, Threads
<1> QED
  BY <1>4, <1>5, <1>6, <1>7 DEF AcceptorsStartOnce

LEMMA StartOnceNext ==
  ASSUME Inv, AcceptorsStartOnce, [Next]_vars
  PROVE  AcceptorsStartOnce'
<1> USE ThreadsAssumption DEF Threads, Goto, Inv, TypeOK
<1>1. ASSUME UNCHANGED <<at, conn, stop, socket>>
      PROVE  AcceptorsStartOnce'
  BY <1>1 DEF AcceptorsStartOnce, Holds
<1>2. ASSUME NEW t \in Threads, LookUp(t) \/ Put(t)
      PROVE  AcceptorsStartOnce'
  <2>1. at[t] \in {"deliver", "put"} /\ t \in Users \cup Conns
    BY <1>2 DEF LookUp, Put, AcceptorsStartOnce
  <2>2. at' = [at EXCEPT ![t] = at'[t]] /\ at'[t] \in {"put", Home(t)}
    BY <1>2 DEF LookUp, Put
  <2>3. at'[t] \in {"put", "idle", "receive"} /\ (t \in Users => at'[t] # "receive")
        /\ (t \in Conns => at'[t] # "idle")
    BY <2>1, <2>2 DEF Home
  <2>4. UNCHANGED <<conn, stop, socket>>
    BY <1>2 DEF LookUp, Put, network
  <2>5. ~(Holds(t)')
    BY <2>3 DEF Holds
  <2> QED
    BY <2>1, <2>2, <2>3, <2>4, <2>5, StartOnceOthers
<1>3. ASSUME NEW t \in Users \cup {AcceptThread}, NEW c \in Conns, NEW p, Opened(t, c, p)
      PROVE  AcceptorsStartOnce'
  <2>1. /\ at' = [at EXCEPT ![t] = "adding"] /\ conn' = [conn EXCEPT ![t] = c]
        /\ socket[c] = "unused" /\ socket' = [socket EXCEPT ![c] = "open"] /\ stop' = stop
    BY <1>3 DEF Opened
  <2>2. ASSUME NEW s \in Threads, Holds(s) PROVE conn[s] # c
    <3>1. conn[s] \in Conns
      BY <2>2 DEF AcceptorsStartOnce
    <3>2. socket[conn[s]] # "unused"
      BY <3>1, NoneAssumption DEF ConnectionsAreOpened
    <3> QED
      BY <2>1, <3>2
  <2>3. \A s \in Threads : /\ at'[s] = IF s = t THEN "adding" ELSE at[s]
                           /\ conn'[s] = IF s = t THEN c ELSE conn[s]
    BY <2>1
  <2>4. \A d \in Conns : at'[d] = at[d]
    BY <2>3
  <2>5. \A s \in Threads : Holds(s)' => s \notin Conns /\ conn'[s] \in Conns /\ at'[conn'[s]] = "none"
    BY <2>1, <2>3, <2>4 DEF AcceptorsStartOnce, Holds
  <2>6. \A r, s \in Threads : Holds(r)' /\ Holds(s)' /\ conn'[r] = conn'[s] => r = s
    <3>1. \A s \in Threads : s # t /\ Holds(s)' => Holds(s) /\ conn'[s] = conn[s] /\ conn'[s] # c
      BY <2>2, <2>3 DEF Holds
    <3>2. conn'[t] = c
      BY <2>3
    <3> QED
      BY <3>1, <3>2 DEF AcceptorsStartOnce
  <2>7. \A d \in Conns : socket'[d] = "unused" => socket[d] = "unused"
    BY <2>1
  <2> QED
    BY <2>1, <2>3, <2>4, <2>5, <2>6, <2>7 DEF AcceptorsStartOnce
<1>4. ASSUME NEW t \in Users \cup {AcceptThread}, StartConnection(t)
      PROVE  AcceptorsStartOnce'
  <2> DEFINE c == conn[t]
             place == IF t = AcceptThread THEN "accepting" ELSE "sending"
  <2>1. Holds(t) /\ c \in Conns /\ t \notin Conns /\ at[c] = "none"
    BY <1>4 DEF StartConnection, Holds, AcceptorsStartOnce
  <2>0. ~stop[c] /\ socket[c] # "unused"
    BY <2>1, NoneAssumption DEF AcceptorsStartOnce, ConnectionsAreOpened
  <2>2. /\ at' = [at EXCEPT ![c] = "receive", ![t] = place]
        /\ \A s \in Threads : s # t => conn'[s] = conn[s]
        /\ stop' = stop /\ socket' = socket
    BY <1>4 DEF StartConnection, network
  <2>3. \A s \in Threads : at'[s] = IF s = t THEN place ELSE IF s = c THEN "receive" ELSE at[s]
    BY <2>2
  <2>4. \A s \in Threads : Holds(s)' => s # t /\ Holds(s) /\ conn'[s] = conn[s]
    BY <2>2, <2>3 DEF Holds
  <2> HIDE DEF place, c
  <2>5. \A s \in Threads : Holds(s)' => s \notin Conns /\ conn'[s] \in Conns /\ conn'[s] # c
                                        /\ at[conn'[s]] = "none"
    BY <2>1, <2>4 DEF AcceptorsStartOnce, c
  <2>6. \A s \in Threads : Holds(s)' => at'[conn'[s]] = "none"
    <3>1. ASSUME NEW d \in Conns, d # c PROVE at'[d] = at[d]
      BY <2>1, <2>3, <3>1
    <3> QED
      BY <2>5, <3>1
  <2>7. \A r, s \in Threads : Holds(r)' /\ Holds(s)' /\ conn'[r] = conn'[s] => r = s
    BY <2>4 DEF AcceptorsStartOnce
  <2>8. \A d \in Conns : at'[d] = IF d = c THEN "receive" ELSE at[d]
    BY <2>1, <2>3
  <2>9. /\ \A u \in Users : at'[u] \notin {"none", "receive", "failed", "accepting", "exited"}
        /\ at'[AcceptThread] \in {"none", "accepting", "adding", "starting", "exited"}
    <3>1. place = IF t = AcceptThread THEN "accepting" ELSE "sending"
      BY DEF place
    <3>2. \A u \in Users : at'[u] \in {at[u], "sending"}
      BY <2>1, <2>3, <3>1
    <3>3. at'[AcceptThread] \in {at[AcceptThread], "accepting"}
      BY <2>1, <2>3, <3>1
    <3> QED
      BY <3>2, <3>3 DEF AcceptorsStartOnce
  <2>10. \A d \in Conns :
           /\ at'[d] \in {"none", "receive", "deliver", "put", "failed", "exited"}
           /\ socket'[d] = "unused" => at'[d] = "none"
           /\ at'[d] = "none" => ~stop'[d]
           /\ at'[d] \in {"failed", "exited"} => stop'[d]
    BY <2>0, <2>1, <2>2, <2>8 DEF AcceptorsStartOnce
  <2> QED
    BY <2>5, <2>6, <2>7, <2>9, <2>10 DEF AcceptorsStartOnce
<1>5. ASSUME NEW t \in Users \cup {AcceptThread}, AddConnection(t)
      PROVE  AcceptorsStartOnce'
  <2>1. /\ at[t] = "adding" /\ at' = [at EXCEPT ![t] = "starting"] /\ conn' = conn /\ stop' = stop
        /\ socket' = [c \in Conns |-> socket[c]]
    BY <1>5 DEF AddConnection, ConnectionsAreOpened
  <2>2. socket' = socket /\ at'[t] = "starting"
    BY <2>1
  <2> QED
    BY <2>1, <2>2, StartOnceOthers DEF Holds
<1>6. ASSUME NEW u \in Users, UserCall(u)
      PROVE  AcceptorsStartOnce'
  <2>1. CASE \E p \in Peers : AttempConnection(u, p)
    <3>1. /\ at' = [at EXCEPT ![u] = at'[u]] /\ at'[u] \in {"connecting", "sending"}
          /\ \A s \in Threads : s # u => conn'[s] = conn[s]
          /\ stop' = stop /\ socket' = socket
      BY <2>1 DEF AttempConnection, network
    <3> QED
      BY <3>1, StartOnceOthers DEF Holds
  <2>2. CASE (\E b \in Boxes : Detach(u, b)) \/ \E m \in Messages : SendLocal(u, m)
    <3>1. /\ at' = [at EXCEPT ![u] = at'[u]] /\ at'[u] \in {"detaching", "deliver"}
          /\ conn' = conn /\ stop' = stop /\ socket' = socket
      BY <2>2 DEF Detach, SendLocal, network
    <3> QED
      BY <3>1, StartOnceOthers DEF Holds
  <2>3. CASE StartAcceptor(u)
    <3>1. /\ at' = [at EXCEPT ![AcceptThread] = "accepting"]
          /\ conn' = conn /\ stop' = stop /\ socket' = socket
      BY <2>3 DEF StartAcceptor, network
    <3>2. at'[AcceptThread] = "accepting"
      BY <3>1
    <3> QED
      BY <3>1, <3>2, StartOnceOthers DEF Holds
  <2> QED
    BY <1>1, <1>6, <2>1, <2>2, <2>3 DEF UserCall, CreateMailBox, UnRegisterMailBox,
       RegisterMailBox, UnRegisterName, Close, locals, network
<1>7. ASSUME NEW u \in Users, DetachNames(u) \/ ConnectFailed(u) \/ SendRemote(u)
      PROVE  AcceptorsStartOnce'
  <2>1. /\ at' = [at EXCEPT ![u] = "idle"] /\ stop' = stop /\ socket' = socket
        /\ \A s \in Threads : s # u => conn'[s] = conn[s]
    BY <1>7 DEF DetachNames, ConnectFailed, SendRemote, network
  <2>2. at'[u] = "idle"
    BY <2>1
  <2> QED
    BY <2>1, <2>2, StartOnceOthers DEF Holds
<1>8. ASSUME NEW c \in Conns, Receive(c) \/ RemoveConnection(c) \/ Exit(c)
      PROVE  AcceptorsStartOnce'
  <2>1. /\ at[c] \in {"receive", "failed"} /\ at' = [at EXCEPT ![c] = at'[c]]
        /\ at'[c] \in {"deliver", "receive", "exited"} /\ (at'[c] = "exited" => stop[c])
        /\ conn' = conn /\ stop' = stop /\ socket' = socket
    BY <1>8 DEF Receive, RemoveConnection, Exit, network
  <2> QED
    BY <2>1, StartOnceOthers DEF Holds
<1>9. ASSUME NEW c \in Conns, LinkFailed(c)
      PROVE  AcceptorsStartOnce'
  <2>1. /\ at[c] = "receive" /\ at' = [at EXCEPT ![c] = "failed"]
        /\ stop' = [stop EXCEPT ![c] = TRUE] /\ conn' = conn /\ socket' = socket
    BY <1>9 DEF LinkFailed
  <2>2. \A s \in Threads : Holds(s)' => Holds(s) /\ at'[conn[s]] = "none"
    BY <2>1 DEF Holds, AcceptorsStartOnce
  <2>3. \A d \in Conns : at'[d] = (IF d = c THEN "failed" ELSE at[d])
                         /\ stop'[d] = (IF d = c THEN TRUE ELSE stop[d])
    BY <2>1
  <2> QED
    BY <2>1, <2>2, <2>3 DEF AcceptorsStartOnce
<1>10. ASSUME NEW c \in Conns, StopConnection(c)
      PROVE  AcceptorsStartOnce'
  <2>1. stop' = [stop EXCEPT ![c] = (at[c] # "none")] /\ UNCHANGED <<at, conn, socket>>
    BY <1>10 DEF StopConnection, locals
  <2>2. \A d \in Conns : stop'[d] = IF d = c THEN at[c] # "none" ELSE stop[d]
    BY <2>1
  <2> QED
    BY <2>1, <2>2 DEF AcceptorsStartOnce, Holds
<1>11. ASSUME DeleteConnection
      PROVE  AcceptorsStartOnce'
  <2>1. /\ UNCHANGED <<at, conn, stop>>
        /\ \A d \in Conns : socket'[d] = "unused" => socket[d] = "unused"
    BY <1>11 DEF DeleteConnection, locals
  <2> QED
    BY <2>1 DEF AcceptorsStartOnce, Holds
<1>12. ASSUME AcceptThreadExit
      PROVE  AcceptorsStartOnce'
  <2>1. at' = [at EXCEPT ![AcceptThread] = "exited"] /\ UNCHANGED <<conn, stop, socket>>
    BY <1>12 DEF AcceptThreadExit, network
  <2>2. at'[AcceptThread] = "exited"
    BY <2>1
  <2> QED
    BY <2>1, <2>2, StartOnceOthers DEF Holds
<1>13. ASSUME \/ \E c \in Conns : PeerStep(c)
              \/ (\E b \in Boxes : DeleteMailBox(b)) \/ DestroyLock
              \/ DestroyMailBoxes \/ DestroyEnd \/ UNCHANGED vars
       PROVE  UNCHANGED <<at, conn, stop, socket>>
  BY <1>13 DEF PeerStep, Send, Break, DeleteMailBox, DestroyLock, DestroyMailBoxes,
     DestroyEnd, locals, network, vars
<1> HIDE DEF Inv, TypeOK
<1> QED
  BY <1>1, <1>2, <1>3, <1>4, <1>5, <1>6, <1>7, <1>8, <1>9, <1>10, <1>11, <1>12, <1>13
     DEF Next, UserStep, Connect, AcceptStep, Accept, ConnectionStep, Destroy
(* What a step does to a connection: frames come, the link breaks, its     *)
(* acceptor is started, takes a frame or the failure, is asked to stop, or *)
(* goes on with what it has taken.                                         *)
LEMMA ConnectionSteps ==
  ASSUME Inv, AcceptorsStartOnce, [Next]_vars, NEW c \in Conns
  PROVE  \/ Receive(c) \/ LinkFailed(c) \/ Break(c) \/ \E m \in Messages : Send(c, m)
         \/ /\ UNCHANGED <<wire[c], link[c], stop[c]>>
            /\ \/ at'[c] = at[c]
               \/ at[c] = "none" /\ at'[c] = "receive"
               \/ at[c] # "none" /\ at'[c] \in {"put", "receive", "exited"}
         \/ /\ UNCHANGED <<wire[c], link[c], at[c]>>
            /\ IF at[c] = "none" THEN ~stop'[c] ELSE stop'[c]
<1> USE ThreadsAssumption DEF Threads, Goto, Inv, TypeOK
<1> DEFINE Goes == \/ at'[c] = at[c]
                   \/ at[c] = "none" /\ at'[c] = "receive"
                   \/ at[c] # "none" /\ at'[c] \in {"put", "receive", "exited"}
           Same == UNCHANGED <<wire[c], link[c], stop[c]>>
           Moves == \/ Receive(c) \/ LinkFailed(c) \/ Break(c)
                    \/ \E m \in Messages : Send(c, m)
           Asked == /\ UNCHANGED <<wire[c], link[c], at[c]>>
                    /\ IF at[c] = "none" THEN ~stop'[c] ELSE stop'[c]
<1>1. ASSUME NEW u \in Users, UserCall(u) PROVE Same /\ Goes
  <2>1. at'[c] = at[c]
    BY <1>1 DEF UserCall, CreateMailBox, UnRegisterMailBox, Detach, RegisterMailBox,
       UnRegisterName, SendLocal, AttempConnection, StartAcceptor, Close, locals
  <2>2. UNCHANGED <<wire, link, stop>>
    BY <1>1 DEF UserCall, CreateMailBox, UnRegisterMailBox, Detach, RegisterMailBox,
       UnRegisterName, SendLocal, AttempConnection, StartAcceptor, Close, network
  <2> QED
    BY <2>1, <2>2
<1>2. ASSUME NEW t \in Threads, LookUp(t) \/ Put(t) PROVE Same /\ Goes
  <2>1. at' = [at EXCEPT ![t] = at'[t]] /\ at'[t] \in {"put", Home(t)} /\ at[t] # "none"
    BY <1>2 DEF LookUp, Put
  <2>2. t = c => at'[t] \in {"put", "receive"}
    BY <2>1 DEF Home
  <2>3. UNCHANGED <<wire, link, stop>>
    BY <1>2 DEF LookUp, Put, network
  <2> QED
    BY <2>1, <2>2, <2>3
<1>3. ASSUME NEW t \in Users \cup {AcceptThread}, StartConnection(t) PROVE Same /\ Goes
  <2>1. conn[t] \in Conns /\ at[conn[t]] = "none" /\ t # c
    BY <1>3 DEF StartConnection, AcceptorsStartOnce, Holds
  <2>2. at'[c] = IF c = conn[t] THEN "receive" ELSE at[c]
    BY <1>3, <2>1 DEF StartConnection
  <2>3. UNCHANGED <<wire, link, stop>>
    BY <1>3 DEF StartConnection, network
  <2> QED
    BY <2>1, <2>2, <2>3
<1>4. ASSUME NEW u \in Users, UserStep(u) PROVE Same /\ Goes
  <2>1. CASE StartConnection(u) \/ LookUp(u) \/ Put(u)
    BY <1>2, <1>3, <2>1
  <2>2. CASE ~(StartConnection(u) \/ LookUp(u) \/ Put(u))
    <3>1. at' = [at EXCEPT ![u] = at'[u]] /\ UNCHANGED <<wire, link, stop>>
      BY <1>4, <2>2 DEF UserStep, DetachNames, Connect, Opened, ConnectFailed, AddConnection,
         SendRemote, network
    <3> QED
      BY <3>1
  <2> QED
    BY <2>1, <2>2
<1>5. ASSUME AcceptStep PROVE Same /\ Goes
  <2>1. CASE StartConnection(AcceptThread)
    BY <1>3, <2>1
  <2>2. CASE ~StartConnection(AcceptThread)
    <3>1. at' = [at EXCEPT ![AcceptThread] = at'[AcceptThread]] /\ UNCHANGED <<wire, link, stop>>
      BY <1>5, <2>2 DEF AcceptStep, Accept, Opened, AddConnection, AcceptThreadExit, network
    <3> QED
      BY <3>1
  <2> QED
    BY <2>1, <2>2
<1>6. ASSUME NEW d \in Conns, ConnectionStep(d) PROVE Moves \/ (Same /\ Goes)
  <2>1. CASE LookUp(d) \/ Put(d)
    BY <1>2, <2>1
  <2>2. CASE d # c /\ (Receive(d) \/ LinkFailed(d))
    BY <2>2 DEF Receive, LinkFailed
  <2>3. CASE RemoveConnection(d) \/ Exit(d)
    <3>1. /\ at' = [at EXCEPT ![d] = at'[d]] /\ UNCHANGED <<wire, link, stop>>
          /\ at[d] # "none" /\ at'[d] \in {"receive", "exited"}
      BY <2>3 DEF RemoveConnection, Exit, network
    <3> QED
      BY <3>1
  <2> QED
    BY <1>6, <2>1, <2>2, <2>3 DEF ConnectionStep
<1>7. ASSUME NEW d \in Conns, PeerStep(d) PROVE Moves \/ (Same /\ Goes)
  <2>1. CASE d # c
    BY <1>7, <2>1 DEF PeerStep, Send, Break, locals
  <2> QED
    BY <1>7, <2>1 DEF PeerStep
<1>8. ASSUME NEW d \in Conns, StopConnection(d) PROVE Asked \/ (Same /\ Goes)
  BY <1>8 DEF StopConnection, locals
<1>9. ASSUME \/ (\E b \in Boxes : DeleteMailBox(b)) \/ DestroyLock \/ DeleteConnection
             \/ DestroyMailBoxes \/ DestroyEnd \/ UNCHANGED vars
      PROVE  Same /\ Goes
  BY <1>9 DEF DeleteMailBox, DestroyLock, DeleteConnection, DestroyMailBoxes, DestroyEnd,
     locals, network, vars
<1> HIDE DEF Goes, Same, Moves, Asked, Inv, TypeOK
<1>10. Moves \/ (Same /\ Goes) \/ Asked
  BY <1>1, <1>4, <1>5, <1>6, <1>7, <1>8, <1>9 DEF Next, Destroy
<1> QED
  BY <1>10 DEF Goes, Same, Moves, Asked

(* What a thread is recorded to have carried.                              *)
LEMMA Recorded ==
  ASSUME Record, NEW t \in Threads
  PROVE  /\ at[t] # "deliver" /\ at'[t] = "deliver" => carried'[t] = Append(carried[t], msg'[t])
         /\ at[t] # "failed" /\ at'[t] = "failed" => carried'[t] = Append(carried[t], None)
         /\ at'[t] \in {at[t], "put", "receive", "exited"} \/ at'[t] \notin {"deliver", "failed"}
              => carried'[t] = carried[t]
BY DEF Record

(* AutoNode starts, uses and destroys each of its connections as           *)
(* ConnectionContract has it (Connection, EpiConnection.hpp): what its     *)
(* acceptor hands to AutoNode::deliver() is what the peer sent, in order   *)
(* and each once, the error last, and nothing once it was asked to stop.   *)
LEMMA ContractStep ==
  ASSUME Inv, AcceptorsStartOnce, theConn \in Conns, [Next /\ Record]_<<vars, carried>>
  PROVE  [Contract!Next]_(Contract!vars)
<1> DEFINE c == theConn
<1> USE DEF Mode, Goto, Threads, Contract!vars
<1>1. CASE UNCHANGED <<vars, carried>>
  BY <1>1 DEF vars, locals, network
<1>2. CASE Next /\ Record
  <2> c \in Threads /\ [Next]_vars /\ Record
    BY <1>2
  <2>1. CASE Receive(c)
    <3>1. /\ at[c] = "receive" /\ ~stop[c] /\ wire[c] # <<>>
          /\ at'[c] = "deliver" /\ msg'[c] = Head(wire[c]) /\ wire'[c] = Tail(wire[c])
          /\ stop' = stop /\ link' = link
      BY <2>1 DEF Receive, Inv, TypeOK
    <3>2. carried'[c] = Append(carried[c], Head(wire[c]))
      BY <3>1, Recorded
    <3>3. Contract!Deliver
      BY <3>1, <3>2 DEF Contract!Deliver
    <3> QED
      BY <3>3 DEF Contract!Next
  <2>2. CASE LinkFailed(c)
    <3>1. /\ at[c] = "receive" /\ ~stop[c] /\ wire[c] = <<>> /\ link[c] = "down"
          /\ at'[c] = "failed" /\ stop'[c] /\ wire' = wire /\ link' = link
      BY <2>2 DEF LinkFailed, Inv, TypeOK
    <3>2. carried'[c] = Append(carried[c], None)
      BY <3>1, Recorded
    <3>3. Contract!Report
      BY <3>1, <3>2 DEF Contract!Report
    <3> QED
      BY <3>3 DEF Contract!Next
  <2>3. CASE Break(c)
    <3>1. /\ link[c] = "up" /\ link'[c] = "down" /\ at' = at /\ stop' = stop
          /\ \E k \in 0 .. Len(wire[c]) : wire'[c] = SubSeq(wire[c], 1, k)
      BY <2>3 DEF Break, locals, Inv, TypeOK
    <3>2. carried'[c] = carried[c]
      BY <3>1, Recorded
    <3>3. Contract!Break
      BY <3>1, <3>2 DEF Contract!Break
    <3> QED
      BY <3>3 DEF Contract!Next
  <2>4. CASE \E m \in Messages : Send(c, m)
    <3>1. PICK m \in Messages : Send(c, m)
      BY <2>4
    <3>2. link[c] = "up" /\ wire'[c] = Append(wire[c], m) /\ link' = link /\ at' = at /\ stop' = stop
      BY <3>1 DEF Send, locals, Inv, TypeOK
    <3>3. carried'[c] = carried[c]
      BY <3>2, Recorded
    <3>4. Contract!Arrive(m)
      BY <3>2, <3>3 DEF Contract!Arrive
    <3> QED
      BY <3>4 DEF Contract!Next
  <2>5. CASE /\ UNCHANGED <<wire[c], link[c], stop[c]>>
             /\ \/ at'[c] = at[c]
                \/ at[c] = "none" /\ at'[c] = "receive"
                \/ at[c] # "none" /\ at'[c] \in {"put", "receive", "exited"}
    <3>1. carried'[c] = carried[c]
      BY <2>5, Recorded
    <3>2. CASE at[c] = "none" /\ at'[c] = "receive"
      <4>1. ~stop[c] /\ stop'[c] = stop[c]
        BY <2>5, <3>2 DEF AcceptorsStartOnce
      <4>2. Contract!Open
        BY <2>5, <3>1, <3>2, <4>1 DEF Contract!Open
      <4> QED
        BY <4>2 DEF Contract!Next
    <3>3. CASE at'[c] = at[c] \/ (at[c] # "none" /\ at'[c] # "none")
      BY <2>5, <3>1, <3>3
    <3> QED
      BY <2>5, <3>2, <3>3
  <2>6. CASE /\ UNCHANGED <<wire[c], link[c], at[c]>>
             /\ IF at[c] = "none" THEN ~stop'[c] ELSE stop'[c]
    <3>1. carried'[c] = carried[c]
      BY <2>6, Recorded
    <3>2. CASE at[c] # "none" /\ ~stop[c]
      <4>1. Contract!Ask
        BY <2>6, <3>1, <3>2 DEF Contract!Ask
      <4> QED
        BY <4>1 DEF Contract!Next
    <3>3. CASE at[c] = "none" \/ stop[c]
      BY <2>6, <3>1, <3>3
    <3> QED
      BY <3>2, <3>3
  <2> HIDE DEF Mode, Contract!vars
  <2> QED
    BY <2>1, <2>2, <2>3, <2>4, <2>5, <2>6, ConnectionSteps
<1> QED
  BY <1>1, <1>2

THEOREM ConnectionsKeepToTheContract ==
  ASSUME theConn \in Conns
  PROVE  HistorySpec => ConnectionKeepsTheContract
<1>1. HistoryInit => Contract!Init
  <2> SUFFICES ASSUME HistoryInit PROVE Contract!Init
    OBVIOUS
  <2>1. at[theConn] = "none"
    BY ThreadsAssumption DEF HistoryInit, Init, Threads
  <2> QED
    BY <2>1 DEF HistoryInit, Init, Contract!Init, Mode, Threads
<1>2. HistoryInit => Inv /\ AcceptorsStartOnce
  BY InitInv, StartOnceInit DEF HistoryInit
<1>3. [Next /\ Record]_<<vars, carried>> => [Next]_vars
  BY DEF vars
<1>4. Inv /\ AcceptorsStartOnce /\ [Next /\ Record]_<<vars, carried>>
        => Inv' /\ AcceptorsStartOnce'
  BY <1>3, NextInv, StartOnceNext
<1>5. Inv /\ AcceptorsStartOnce /\ [Next /\ Record]_<<vars, carried>>
        => [Contract!Next]_(Contract!vars)
  BY ContractStep
<1> QED
  BY <1>1, <1>2, <1>4, <1>5, PTL DEF HistorySpec, ConnectionKeepsTheContract, Contract!Spec

-----------------------------------------------------------------------------
(* What a thread is carrying is the last it took; no message is taken      *)
(* twice, and what was taken is on no wire any more.                       *)
Carries ==
  /\ carried \in [Threads -> Seq(Messages \cup {None})]
  /\ \A t \in Threads : at[t] \in {"deliver", "put"} =>
       Len(carried[t]) # 0 /\ msg[t] = carried[t][Len(carried[t])]
  /\ \A t \in Threads : \A i \in DOMAIN carried[t] : carried[t][i] # None =>
       carried[t][i] \in sent /\ \A c \in Conns : carried[t][i] \notin ToSet(wire[c])
  /\ \A s, t \in Threads : \A i \in DOMAIN carried[s], j \in DOMAIN carried[t] :
       carried[s][i] = carried[t][j] /\ carried[s][i] # None => s = t /\ i = j

LEMMA CarriesInit == HistoryInit => Carries /\ MessagesKeepTheirOrder
<1> SUFFICES ASSUME HistoryInit PROVE Carries /\ MessagesKeepTheirOrder
  OBVIOUS
<1>1. \A t \in Threads : carried[t] = <<>> /\ at[t] \notin {"deliver", "put"}
  BY DEF HistoryInit, Init
<1>2. <<>> \in Seq(Messages \cup {None}) /\ DOMAIN <<>> = {}
  OBVIOUS
<1>3. carried \in [Threads -> Seq(Messages \cup {None})]
  BY <1>2 DEF HistoryInit
<1> QED
  BY <1>1, <1>2, <1>3 DEF Carries, MessagesKeepTheirOrder

(* A thread takes a message only when it sends it or receives it.          *)
LEMMA Takes ==
  ASSUME Inv, AcceptorsStartOnce, [Next]_vars, NEW t \in Threads,
         at[t] # "deliver", at'[t] = "deliver"
  PROVE  \/ t \in Users /\ \E m \in Messages : SendLocal(t, m)
         \/ t \in Conns /\ Receive(t)
<1> USE ThreadsAssumption DEF Threads, Goto, Inv, TypeOK
<1> DEFINE Took == \/ t \in Users /\ \E m \in Messages : SendLocal(t, m)
                   \/ t \in Conns /\ Receive(t)
<1>1. ASSUME NEW s \in Threads, LookUp(s) \/ Put(s) PROVE FALSE
  <2>1. at' = [at EXCEPT ![s] = at'[s]] /\ at'[s] \in {"put", Home(s)}
    BY <1>1 DEF LookUp, Put
  <2> QED
    BY <2>1 DEF Home
<1>2. ASSUME NEW u \in Users, UserCall(u) PROVE Took
  <2>1. CASE \E m \in Messages : SendLocal(u, m)
    BY <2>1 DEF SendLocal
  <2>2. CASE ~\E m \in Messages : SendLocal(u, m)
    BY <1>2, <2>2 DEF UserCall, CreateMailBox, UnRegisterMailBox, Detach, RegisterMailBox,
       UnRegisterName, AttempConnection, StartAcceptor, Close, locals
  <2> QED
    BY <2>1, <2>2
<1>3. ASSUME NEW u \in Users, UserStep(u) PROVE FALSE
  BY <1>1, <1>3 DEF UserStep, DetachNames, Connect, Opened, ConnectFailed, AddConnection,
     StartConnection, SendRemote
<1>4. ASSUME AcceptStep PROVE FALSE
  BY <1>4 DEF AcceptStep, Accept, Opened, AddConnection, StartConnection, AcceptThreadExit
<1>5. ASSUME NEW c \in Conns, ConnectionStep(c) PROVE Took
  <2>1. CASE Receive(c)
    BY <2>1 DEF Receive
  <2>2. CASE ~Receive(c)
    BY <1>1, <1>5, <2>2 DEF ConnectionStep, LinkFailed, RemoveConnection, Exit
  <2> QED
    BY <2>1, <2>2
<1>6. ASSUME NEW c \in Conns, PeerStep(c) PROVE FALSE
  BY <1>6 DEF PeerStep, Send, Break, locals
<1>7. ASSUME DestroyLock \/ Destroy \/ (\E b \in Boxes : DeleteMailBox(b)) \/ UNCHANGED vars
      PROVE  FALSE
  BY <1>7 DEF DestroyLock, Destroy, StopConnection, DeleteConnection, DestroyMailBoxes,
     DestroyEnd, DeleteMailBox, locals, vars
<1> HIDE DEF Took, Inv, TypeOK
<1>8. Took
  BY <1>2, <1>3, <1>4, <1>5, <1>6, <1>7 DEF Next
<1> QED
  BY <1>8 DEF Took

(* A thread keeps to its message until it has put it or dropped it.        *)
LEMMA CarriersKeep ==
  ASSUME Inv, [Next]_vars, NEW t \in Threads,
         at[t] \in {"deliver", "put"}, at'[t] \in {"deliver", "put"}
  PROVE  msg'[t] = msg[t]
<1> USE DEF Goto, Threads, Inv, TypeOK
<1>1. ASSUME NEW s \in Threads, LookUp(s) \/ Put(s) PROVE msg'[t] = msg[t]
  <2>1. CASE s # t
    BY <1>1, <2>1 DEF LookUp, Put
  <2>2. CASE s = t
    BY <1>1, <2>2 DEF LookUp, Put, Home
  <2> QED
    BY <2>1, <2>2
<1>2. ASSUME NEW u \in Users, NEW m \in Messages, SendLocal(u, m) PROVE msg'[t] = msg[t]
  BY <1>2 DEF SendLocal, Calls
<1>3. ASSUME NEW c \in Conns, Receive(c) PROVE msg'[t] = msg[t]
  BY <1>3 DEF Receive
<1>4. ASSUME \/ \E c \in Conns : Break(c) \/ \E m \in Messages : Send(c, m)
             \/ (\E b \in Boxes : DeleteMailBox(b)) \/ DestroyMailBoxes
      PROVE  msg'[t] = msg[t]
  BY <1>4 DEF Break, Send, DeleteMailBox, DestroyMailBoxes, locals
<1> HIDE DEF Inv, TypeOK
<1> QED
  BY <1>1, <1>2, <1>3, <1>4, MessageSteps

(* What is recorded of a thread grows at its end, by the message it has    *)
(* come to carry or by None.                                               *)
LEMMA RecordedGrows ==
  ASSUME Inv, AcceptorsStartOnce, Carries, Next, Record, NEW t \in Threads
  PROVE  \/ /\ at[t] = "deliver" \/ at'[t] # "deliver"
            /\ carried'[t] = carried[t]
         \/ /\ at[t] # "deliver" /\ at'[t] = "deliver"
            /\ msg'[t] \in Messages /\ carried'[t] = Append(carried[t], msg'[t])
         \/ at'[t] = "failed" /\ carried'[t] = Append(carried[t], None)
<1>1. CASE at[t] # "deliver" /\ at'[t] = "deliver"
  <2>1. mFlushConnections = {} /\ TypeOK
    BY DEF Inv, ConnectionsAreOpened
  <2>2. TypeOK'
    BY <2>1, NextType
  <2>3. msg'[t] \in Messages
    BY <1>1, <2>2 DEF TypeOK
  <2> QED
    BY <1>1, <2>3, Recorded
<1>2. CASE ~(at[t] # "deliver" /\ at'[t] = "deliver")
  BY <1>2, Recorded DEF Record
<1> QED
  BY <1>1, <1>2

(* The message in each place of a record was there before, or is the one   *)
(* that the thread has just taken.                                         *)
LEMMA RecordedElements ==
  ASSUME Inv, AcceptorsStartOnce, Carries, Next, Record, NEW t \in Threads
  PROVE  /\ carried'[t] \in Seq(Messages \cup {None})
         /\ \A i \in DOMAIN carried[t] : i \in DOMAIN carried'[t] /\ carried'[t][i] = carried[t][i]
         /\ at[t] # "deliver" /\ at'[t] = "deliver" =>
              Len(carried'[t]) # 0 /\ carried'[t][Len(carried'[t])] = msg'[t]
         /\ at[t] \in {"deliver", "put"} /\ at'[t] \in {"deliver", "put"} => carried'[t] = carried[t]
         /\ \A i \in DOMAIN carried'[t] : carried'[t][i] # None =>
              \/ i \in DOMAIN carried[t] /\ carried'[t][i] = carried[t][i]
              \/ /\ at[t] # "deliver" /\ at'[t] = "deliver"
                 /\ i = Len(carried[t]) + 1 /\ carried'[t][i] = msg'[t]
<1> DEFINE S == Messages \cup {None}
<1>1. carried[t] \in Seq(S)
  BY DEF Carries
<1>2. ASSUME NEW e \in S, carried'[t] = Append(carried[t], e)
      PROVE  /\ carried'[t] \in Seq(S) /\ Len(carried[t]) \in Nat
             /\ DOMAIN carried[t] = 1 .. Len(carried[t])
             /\ Len(carried'[t]) = Len(carried[t]) + 1
             /\ DOMAIN carried'[t] = 1 .. Len(carried[t]) + 1
             /\ \A i \in 1 .. Len(carried[t]) : carried'[t][i] = carried[t][i]
             /\ carried'[t][Len(carried[t]) + 1] = e
  BY <1>1, <1>2, AppendProperties
<1>3. CASE (at[t] = "deliver" \/ at'[t] # "deliver") /\ carried'[t] = carried[t]
  BY <1>1, <1>3
<1>4. CASE at[t] # "deliver" /\ at'[t] = "deliver" /\ msg'[t] \in Messages
           /\ carried'[t] = Append(carried[t], msg'[t])
  <2>1. at[t] # "put"
    BY <1>4, Takes DEF SendLocal, Receive, Calls
  <2> QED
    BY <1>2, <1>4, <2>1
<1>5. CASE at'[t] = "failed" /\ carried'[t] = Append(carried[t], None)
  BY <1>2, <1>5
<1> QED
  BY <1>3, <1>4, <1>5, RecordedGrows

(* A message that is taken is in no record, no other thread takes one then,*)
(* and it leaves the wire.                                                 *)
LEMMA TakenIsNew ==
  ASSUME Inv, OnePlace, AcceptorsStartOnce, Carries, Next, NEW t \in Threads,
         at[t] # "deliver", at'[t] = "deliver"
  PROVE  /\ \A s \in Threads : \A i \in DOMAIN carried[s] : carried[s][i] # msg'[t]
         /\ msg'[t] \in sent' /\ \A c \in Conns : msg'[t] \notin ToSet(wire'[c])
         /\ inbox' = inbox /\ \A b \in Boxes : msg'[t] \notin ToSet(inbox[b])
         /\ \A s \in Threads : s # t => at'[s] = at[s]
<1> USE DEF Inv, TypeOK, Goto, Threads
<1>0. None \notin Messages
  BY NoneAssumption
<1>1. CASE t \in Users /\ \E m \in Messages : SendLocal(t, m)
  <2>1. PICK m \in Messages : SendLocal(t, m)
    BY <1>1
  <2>2. /\ m \notin sent /\ msg'[t] = m /\ sent' = sent \cup {m} /\ wire' = wire /\ inbox' = inbox
        /\ \A s \in Threads : s # t => at'[s] = at[s]
    BY <2>1 DEF SendLocal, network, boxes
  <2>3. /\ \A c \in Conns : m \notin ToSet(wire[c])
        /\ \A b \in Boxes : m \notin ToSet(inbox[b])
    BY <2>2 DEF OnePlace
  <2>4. \A s \in Threads : \A i \in DOMAIN carried[s] : carried[s][i] # m
    BY <1>0, <2>2 DEF Carries
  <2> QED
    BY <2>2, <2>3, <2>4
<1>2. CASE t \in Conns /\ Receive(t)
  <2> DEFINE m == Head(wire[t])
  <2>1. /\ wire[t] # <<>> /\ msg'[t] = m /\ sent' = sent /\ inbox' = inbox
        /\ \A c \in Conns : wire'[c] = IF c = t THEN Tail(wire[t]) ELSE wire[c]
        /\ \A s \in Threads : s # t => at'[s] = at[s]
    BY <1>2 DEF Receive, boxes
  <2>2. wire[t] \in Seq(Messages) /\ Distinct(wire[t])
    BY <1>2 DEF OnePlace
  <2>3. m \in ToSet(wire[t]) /\ m \notin ToSet(Tail(wire[t]))
    BY <2>1, <2>2, TailToSet
  <2> HIDE DEF m
  <2>4. /\ m \in sent /\ m \in Messages
        /\ \A c \in Conns : c # t => m \notin ToSet(wire[c])
        /\ \A b \in Boxes : m \notin ToSet(inbox[b])
    <3>1. m \in sent
      BY <1>2, <2>3 DEF OnePlace
    <3>2. \A c \in Conns : c # t => m \notin ToSet(wire[c])
      BY <1>2, <2>3 DEF OnePlace
    <3>3. \A b \in Boxes : m \notin ToSet(inbox[b])
      BY <1>2, <2>3 DEF OnePlace
    <3> QED
      BY <3>1, <3>2, <3>3
  <2>5. ASSUME NEW s \in Threads, NEW i \in DOMAIN carried[s], carried[s][i] = m
        PROVE  FALSE
    <3>1. carried[s][i] # None
      BY <1>0, <2>4, <2>5
    <3>2. carried[s][i] \notin ToSet(wire[t])
      BY <1>2, <3>1 DEF Carries
    <3> QED
      BY <2>3, <2>5, <3>2
  <2> QED
    BY <2>1, <2>3, <2>4, <2>5
<1> QED
  BY <1>1, <1>2, Takes

(* What was sent and is on no wire does not come back to one.              *)
LEMMA NoneReturns ==
  ASSUME Inv, OnePlace, [Next]_vars, NEW m \in sent, \A c \in Conns : m \notin ToSet(wire[c])
  PROVE  m \in sent' /\ \A c \in Conns : m \notin ToSet(wire'[c])
<1> USE DEF Inv, TypeOK
<1> DEFINE Kept == m \in sent' /\ \A c \in Conns : m \notin ToSet(wire'[c])
<1>1. ASSUME wire' = wire, sent \subseteq sent' PROVE Kept
  BY <1>1
<1>2. ASSUME NEW d \in Conns, NEW k \in Messages, Send(d, k) PROVE Kept
  <2>1. /\ k # m /\ sent' = sent \cup {k} /\ wire[d] \in Seq(Messages)
        /\ \A c \in Conns : wire'[c] = IF c = d THEN Append(wire[d], k) ELSE wire[c]
    BY <1>2 DEF Send
  <2>2. ToSet(Append(wire[d], k)) = ToSet(wire[d]) \cup {k}
    BY <2>1, AppendToSet
  <2> QED
    BY <2>1, <2>2
<1>3. ASSUME NEW d \in Conns, Break(d) PROVE Kept
  <2>1. PICK k \in 0 .. Len(wire[d]) : wire' = [wire EXCEPT ![d] = SubSeq(@, 1, k)]
    BY <1>3 DEF Break
  <2>2. wire[d] \in Seq(Messages) /\ Distinct(wire[d]) /\ sent' = sent
    BY <1>3 DEF OnePlace, Break
  <2>3. ToSet(SubSeq(wire[d], 1, k)) \subseteq ToSet(wire[d])
    BY <2>2, PrefixToSet
  <2>4. \A c \in Conns : ToSet(wire'[c]) \subseteq ToSet(wire[c])
    BY <2>1, <2>3
  <2> QED
    BY <2>2, <2>4
<1>4. ASSUME NEW d \in Conns, Receive(d) PROVE Kept
  <2>1. /\ wire[d] # <<>> /\ sent' = sent /\ wire' = [wire EXCEPT ![d] = Tail(@)]
        /\ wire[d] \in Seq(Messages) /\ Distinct(wire[d])
    BY <1>4 DEF OnePlace, Receive
  <2>2. ToSet(Tail(wire[d])) \subseteq ToSet(wire[d])
    BY <2>1, TailToSet
  <2>3. \A c \in Conns : ToSet(wire'[c]) \subseteq ToSet(wire[c])
    BY <2>1, <2>2
  <2> QED
    BY <2>1, <2>3
<1>5. ASSUME \/ \E t \in Threads : LookUp(t) \/ Put(t)
             \/ \E u \in Users, k \in Messages : SendLocal(u, k)
             \/ (\E b \in Boxes : DeleteMailBox(b)) \/ DestroyMailBoxes
             \/ UNCHANGED <<wire, inbox, msg, sent>>
      PROVE  Kept
  BY <1>1, <1>5 DEF LookUp, Put, SendLocal, DeleteMailBox, DestroyMailBoxes, network
<1> HIDE DEF Kept, Inv, TypeOK
<1>6. Kept
  BY <1>2, <1>3, <1>4, <1>5, MessageSteps
<1> QED
  BY <1>6 DEF Kept

LEMMA CarriesNext ==
  ASSUME Inv, OnePlace, AcceptorsStartOnce, Carries, Next, Record
  PROVE  Carries'
<1>1. carried' \in [Threads -> Seq(Messages \cup {None})]
  <2>1. \A t \in Threads : carried'[t] \in Seq(Messages \cup {None})
    BY RecordedElements
  <2>2. carried' = [t \in Threads |-> carried'[t]]
    BY DEF Record
  <2> QED
    BY <2>1, <2>2
<1>2. ASSUME NEW t \in Threads, at'[t] \in {"deliver", "put"}
      PROVE  Len(carried'[t]) # 0 /\ msg'[t] = carried'[t][Len(carried'[t])]
  <2>1. CASE at[t] # "deliver" /\ at'[t] = "deliver"
    BY <2>1, RecordedElements
  <2>2. CASE at[t] \in {"deliver", "put"}
    <3>1. carried'[t] = carried[t] /\ msg'[t] = msg[t]
      BY <1>2, <2>2, RecordedElements, CarriersKeep
    <3> QED
      BY <2>2, <3>1 DEF Carries
  <2>3. CASE at'[t] = "put" /\ at[t] # "put"
    <3>1. at[t] = "deliver"
      BY <2>3, PutsAreLookUps DEF Inv, LookUp
    <3> QED
      BY <2>2, <3>1
  <2> QED
    BY <1>2, <2>1, <2>2, <2>3
<1>3. ASSUME NEW t \in Threads, NEW i \in DOMAIN carried'[t], carried'[t][i] # None
      PROVE  carried'[t][i] \in sent' /\ \A c \in Conns : carried'[t][i] \notin ToSet(wire'[c])
  <2>1. CASE i \in DOMAIN carried[t] /\ carried'[t][i] = carried[t][i]
    BY <1>3, <2>1, NoneReturns DEF Carries
  <2>2. CASE at[t] # "deliver" /\ at'[t] = "deliver" /\ carried'[t][i] = msg'[t]
    BY <2>2, TakenIsNew
  <2> QED
    BY <1>3, <2>1, <2>2, RecordedElements
<1>4. ASSUME NEW s \in Threads, NEW t \in Threads,
             NEW i \in DOMAIN carried'[s], NEW j \in DOMAIN carried'[t],
             carried'[s][i] = carried'[t][j], carried'[s][i] # None
      PROVE  s = t /\ i = j
  <2> DEFINE Old(r, k) == k \in DOMAIN carried[r] /\ carried'[r][k] = carried[r][k]
             New(r, k) == /\ at[r] # "deliver" /\ at'[r] = "deliver"
                          /\ k = Len(carried[r]) + 1 /\ carried'[r][k] = msg'[r]
  <2>1. (Old(s, i) \/ New(s, i)) /\ (Old(t, j) \/ New(t, j))
    BY <1>4, RecordedElements
  <2>2. CASE Old(s, i) /\ Old(t, j)
    <3>1. carried[s][i] = carried[t][j] /\ carried[s][i] # None
      BY <1>4, <2>2
    <3> QED
      BY <2>2, <3>1 DEF Carries
  <2>3. CASE New(s, i) /\ Old(t, j)
    BY <1>4, <2>3, TakenIsNew
  <2>4. CASE Old(s, i) /\ New(t, j)
    BY <1>4, <2>4, TakenIsNew
  <2>5. CASE New(s, i) /\ New(t, j)
    <3>1. s = t
      BY <2>5, TakenIsNew
    <3> QED
      BY <2>5, <3>1
  <2> QED
    BY <2>1, <2>2, <2>3, <2>4, <2>5
<1> QED
  BY <1>1, <1>2, <1>3, <1>4 DEF Carries

(* A message that enters a mailbox is the last its thread took, so all     *)
(* that the thread brought there before it is there before it.             *)
LEMMA OrderPut ==
  ASSUME Inv, OnePlace, AcceptorsStartOnce, Carries, MessagesKeepTheirOrder,
         carried' = carried, NEW t \in Threads, Put(t)
  PROVE  MessagesKeepTheirOrder'
<1> DEFINE m == msg[t]
           d == box[t]
<1>1. m \in Messages /\ m # None /\ d \in Boxes /\ at[t] = "put"
  BY DEF Put, Inv, TypeOK
<1>2. \A b \in Boxes : inbox'[b] = IF b = d THEN Append(inbox[d], m) ELSE inbox[b]
  BY DEF Put, Inv, TypeOK
<1>3. Len(carried[t]) # 0 /\ m = carried[t][Len(carried[t])] /\ carried[t] \in Seq(Messages \cup {None})
  BY <1>1 DEF Carries
<1>4. DOMAIN carried[t] = 1 .. Len(carried[t]) /\ Len(carried[t]) \in 1 .. Len(carried[t])
  BY <1>3
<1>5. inbox[d] \in Seq(Messages)
  BY <1>1 DEF Inv, TypeOK
<1>6. /\ DOMAIN inbox[d] = 1 .. Len(inbox[d]) /\ Len(inbox[d]) \in Nat
      /\ DOMAIN Append(inbox[d], m) = 1 .. Len(inbox[d]) + 1
      /\ \A i \in 1 .. Len(inbox[d]) : Append(inbox[d], m)[i] = inbox[d][i]
      /\ Append(inbox[d], m)[Len(inbox[d]) + 1] = m
  BY <1>1, <1>5, AppendProperties
<1>7. ASSUME NEW s \in Threads, NEW p \in DOMAIN carried[s], carried[s][p] = m
      PROVE  s = t /\ p = Len(carried[t])
  BY <1>1, <1>3, <1>4, <1>7 DEF Carries
<1> HIDE DEF m, d
<1>8. SUFFICES ASSUME NEW s \in Threads, NEW b \in Boxes,
                      NEW p \in DOMAIN carried[s], NEW q \in DOMAIN carried[s],
                      NEW i \in DOMAIN inbox'[b], NEW j \in DOMAIN inbox'[b],
                      carried[s][p] = inbox'[b][i], carried[s][q] = inbox'[b][j], p < q
               PROVE  i < j
  BY DEF MessagesKeepTheirOrder
<1>9. CASE b # d
  BY <1>2, <1>8, <1>9 DEF MessagesKeepTheirOrder
<1>10. CASE b = d
  <2> DEFINE n == Len(inbox[d])
  <2>1. n \in Nat /\ i \in 1 .. n + 1 /\ j \in 1 .. n + 1
    BY <1>2, <1>6, <1>8, <1>10
  <2>2. CASE i \in 1 .. n /\ j \in 1 .. n
    <3>1. carried[s][p] = inbox[d][i] /\ carried[s][q] = inbox[d][j]
      BY <1>2, <1>6, <1>8, <1>10, <2>2
    <3> QED
      BY <1>1, <1>6, <1>8, <2>2, <3>1 DEF MessagesKeepTheirOrder
  <2>3. CASE i \in 1 .. n /\ j = n + 1
    BY <2>1, <2>3
  <2>4. CASE i = n + 1
    <3>1. carried[s][p] = m
      BY <1>2, <1>6, <1>8, <1>10, <2>4
    <3>2. s = t /\ p = Len(carried[t])
      BY <1>7, <3>1
    <3>3. q \in 1 .. Len(carried[t]) /\ Len(carried[t]) \in Nat
      BY <1>3, <1>4, <3>2
    <3> QED
      BY <1>8, <3>2, <3>3
  <2> QED
    BY <2>1, <2>2, <2>3, <2>4
<1> QED
  BY <1>9, <1>10

LEMMA OrderNext ==
  ASSUME Inv, OnePlace, AcceptorsStartOnce, Carries, MessagesKeepTheirOrder, Next, Record
  PROVE  MessagesKeepTheirOrder'
<1>1. ASSUME NEW t \in Threads, Put(t)
      PROVE  MessagesKeepTheirOrder'
  <2>1. at' = [at EXCEPT ![t] = Home(t)] /\ Home(t) \notin {"deliver", "failed"}
    BY <1>1 DEF Put, Goto, Home
  <2>2. \A s \in Threads : at'[s] \in {"deliver", "failed"} => at'[s] = at[s]
    BY <2>1 DEF Inv, TypeOK
  <2>3. \A s \in Threads : carried'[s] = carried[s]
    BY <2>2 DEF Record
  <2>4. carried' = carried
    BY <2>3 DEF Record, Carries
  <2> QED
    BY <1>1, <2>4, OrderPut
<1>2. ASSUME ~\E t \in Threads : Put(t)
      PROVE  MessagesKeepTheirOrder'
  <2>1. \A b \in Boxes : inbox'[b] \in {inbox[b], <<>>}
    BY <1>2, MessageSteps
       DEF LookUp, SendLocal, Send, Break, Receive, DeleteMailBox, DestroyMailBoxes, boxes,
           Inv, TypeOK
  <2>2. SUFFICES ASSUME NEW t \in Threads, NEW b \in Boxes,
                        NEW p \in DOMAIN carried'[t], NEW q \in DOMAIN carried'[t],
                        NEW i \in DOMAIN inbox'[b], NEW j \in DOMAIN inbox'[b],
                        carried'[t][p] = inbox'[b][i], carried'[t][q] = inbox'[b][j], p < q
                 PROVE  i < j
    BY DEF MessagesKeepTheirOrder
  <2>3. inbox'[b] = inbox[b] /\ inbox[b] \in Seq(Messages)
    BY <2>1 DEF Inv, TypeOK
  <2>4. ASSUME NEW r \in DOMAIN carried'[t], NEW k \in DOMAIN inbox[b],
               carried'[t][r] = inbox[b][k]
        PROVE  r \in DOMAIN carried[t] /\ carried'[t][r] = carried[t][r]
    <3>1. inbox[b][k] \in Messages /\ inbox[b][k] \in ToSet(inbox[b])
      BY <2>3 DEF ToSet
    <3>2. carried'[t][r] # None
      BY <2>4, <3>1, NoneAssumption
    <3>3. ~(at[t] # "deliver" /\ at'[t] = "deliver" /\ carried'[t][r] = msg'[t])
      BY <2>4, <3>1, TakenIsNew
    <3> QED
      BY <3>2, <3>3, RecordedElements
  <2>5. /\ p \in DOMAIN carried[t] /\ carried[t][p] = inbox[b][i]
        /\ q \in DOMAIN carried[t] /\ carried[t][q] = inbox[b][j]
    BY <2>2, <2>3, <2>4
  <2> QED
    BY <2>2, <2>3, <2>5 DEF MessagesKeepTheirOrder
<1> QED
  BY <1>1, <1>2

(* AutoNode::deliver() and the acceptors (EpiAutoNode.cpp:295,             *)
(* EIConnection.cpp:136): whatever other threads deliver to a mailbox, the *)
(* messages of one thread enter its queue in the order the thread took     *)
(* them, those of a peer in the order the peer sent them.                  *)
THEOREM MessagesInOrder == HistorySpec => []MessagesKeepTheirOrder
<1> DEFINE I == /\ Inv /\ OnePlace /\ AcceptorsStartOnce
                /\ Carries /\ MessagesKeepTheirOrder
<1>1. HistoryInit => I
  <2> SUFFICES ASSUME HistoryInit PROVE I
    OBVIOUS
  <2>1. Inv /\ OnePlace /\ AcceptorsStartOnce
    BY InitInv, OnePlaceInit, StartOnceInit DEF HistoryInit
  <2> QED
    BY <2>1, CarriesInit
<1>2. I /\ [Next /\ Record]_<<vars, carried>> => I'
  <2>1. CASE Next /\ Record
    BY <2>1, NextInv, OnePlaceNext, StartOnceNext, CarriesNext, OrderNext
  <2>2. CASE UNCHANGED <<vars, carried>>
    <3>1. I => Inv' /\ OnePlace' /\ AcceptorsStartOnce'
      BY <2>2, NextInv, OnePlaceNext, StartOnceNext
    <3>2. I => Carries' /\ MessagesKeepTheirOrder'
      BY <2>2 DEF vars, Carries, MessagesKeepTheirOrder, locals, network, boxes
    <3> QED
      BY <3>1, <3>2
  <2> QED
    BY <2>1, <2>2
<1> QED
  BY <1>1, <1>2, PTL DEF HistorySpec

-----------------------------------------------------------------------------
(* A mailbox that is found, has a message or is about to get one has been  *)
(* created.                                                                *)
KnownMailBoxes ==
  \A b \in Boxes :
    \/ inbox[b] # <<>> \/ b \in mMailBoxes \/ \E n \in Names : mRegMailBoxes[n] = b
    \/ \E t \in Threads : at[t] = "put" /\ box[t] = b
    => life[b] # "unused"

(* A thread is done with what it carried, but for what it has in hand.     *)
Done(t, q) == q < Len(carried[t]) \/ at[t] \notin {"deliver", "put"}

(* When a mailbox has missed a message for its pid after one that it got,  *)
(* it is detached, and the thread brings no other to that pid.             *)
GapsAreFinal ==
  \A t \in Threads, b \in Boxes : \A p, q \in DOMAIN carried[t] :
    /\ p < q /\ Done(t, q) /\ carried[t][q] \in Messages /\ Dest[carried[t][q]] = b
    /\ carried[t][p] \in ToSet(inbox[b]) /\ carried[t][q] \notin ToSet(inbox[b])
    => b \notin mMailBoxes /\ ~(at[t] = "put" /\ Dest[msg[t]] = b)

(* A mailbox is created once, and registered while it is attached.         *)
LEMMA MailBoxSteps ==
  ASSUME TypeOK, [Next]_vars, NEW b \in Boxes
  PROVE  /\ life[b] # "unused" => life'[b] # "unused"
         /\ b \in mMailBoxes' => b \in mMailBoxes \/ (life[b] = "unused" /\ life'[b] # "unused")
         /\ \A n \in Names : mRegMailBoxes'[n] = b => mRegMailBoxes[n] = b \/ life[b] = "attached"
<1> USE NoneAssumption DEF TypeOK, Threads
<1> DEFINE Kept ==
      /\ life[b] # "unused" => life'[b] # "unused"
      /\ b \in mMailBoxes' => b \in mMailBoxes \/ (life[b] = "unused" /\ life'[b] # "unused")
      /\ \A n \in Names : mRegMailBoxes'[n] = b => mRegMailBoxes[n] = b \/ life[b] = "attached"
<1>1. ASSUME NEW u \in Users, UserCall(u) PROVE Kept
  <2>1. CASE \E d \in Boxes : CreateMailBox(u, d)
    BY <2>1 DEF CreateMailBox
  <2>2. CASE \E d \in Boxes : Detach(u, d)
    BY <2>2 DEF Detach
  <2>3. CASE \E d \in Boxes : UnRegisterMailBox(u, d)
    BY <2>3 DEF UnRegisterMailBox, WithoutNamesOf, boxes
  <2>4. CASE \E n \in Names, d \in Boxes : RegisterMailBox(u, n, d)
    BY <2>4 DEF RegisterMailBox, boxes
  <2>5. CASE \E n \in Names : UnRegisterName(u, n)
    BY <2>5 DEF UnRegisterName, boxes
  <2>6. CASE UNCHANGED <<life, mMailBoxes, mRegMailBoxes>>
    BY <2>6
  <2> QED
    BY <1>1, <2>1, <2>2, <2>3, <2>4, <2>5, <2>6 DEF UserCall, SendLocal, AttempConnection,
       StartAcceptor, Close, registries, boxes
<1>2. ASSUME UNCHANGED <<life, mMailBoxes, mRegMailBoxes>> PROVE Kept
  BY <1>2
<1>3. ASSUME NEW t \in Threads, LookUp(t) \/ Put(t)
      PROVE  UNCHANGED <<life, mMailBoxes, mRegMailBoxes>>
  BY <1>3 DEF LookUp, Put, registries, boxes
<1>4. ASSUME NEW u \in Users, DetachNames(u) PROVE Kept
  BY <1>4 DEF DetachNames, WithoutNamesOf
<1>5. ASSUME NEW u \in Users, UserStep(u) PROVE Kept
  <2>1. CASE DetachNames(u)
    BY <1>4, <2>1
  <2>2. CASE ~DetachNames(u)
    <3>1. UNCHANGED <<life, mMailBoxes, mRegMailBoxes>>
      BY <1>3, <1>5, <2>2 DEF UserStep, Connect, Opened, ConnectFailed, AddConnection,
         StartConnection, SendRemote, registries, boxes
    <3> QED
      BY <1>2, <3>1
  <2> QED
    BY <2>1, <2>2
<1>6. ASSUME AcceptStep PROVE UNCHANGED <<life, mMailBoxes, mRegMailBoxes>>
  BY <1>6 DEF AcceptStep, Accept, Opened, AddConnection, StartConnection,
     AcceptThreadExit, registries, boxes
<1>7. ASSUME NEW c \in Conns, ConnectionStep(c) \/ PeerStep(c)
      PROVE  UNCHANGED <<life, mMailBoxes, mRegMailBoxes>>
  BY <1>3, <1>7 DEF ConnectionStep, PeerStep, Receive, LinkFailed, RemoveConnection, Exit,
     Send, Break, registries, boxes
<1>8. ASSUME NEW d \in Boxes, DeleteMailBox(d) PROVE Kept
  BY <1>8 DEF DeleteMailBox, registries
<1>9. ASSUME DestroyMailBoxes PROVE Kept
  BY <1>9 DEF DestroyMailBoxes, registries
<1>10. ASSUME DestroyLock \/ DestroyEnd \/ DeleteConnection \/ UNCHANGED vars
              \/ \E c \in Conns : StopConnection(c)
       PROVE  UNCHANGED <<life, mMailBoxes, mRegMailBoxes>>
  BY <1>10 DEF DestroyLock, DestroyEnd, DeleteConnection, StopConnection, registries, boxes, vars
<1> HIDE DEF Kept
<1>11. Kept
  BY <1>1, <1>2, <1>5, <1>6, <1>7, <1>8, <1>9, <1>10 DEF Next, Destroy
<1> QED
  BY <1>11 DEF Kept

LEMMA KnownMailBoxesNext ==
  ASSUME Inv, KnownMailBoxes, [Next]_vars
  PROVE  KnownMailBoxes'
<1> USE DEF Inv
<1>1. SUFFICES ASSUME NEW b \in Boxes,
                      \/ inbox'[b] # <<>> \/ b \in mMailBoxes' \/ \E n \in Names : mRegMailBoxes'[n] = b
                      \/ \E t \in Threads : at'[t] = "put" /\ box'[t] = b,
                      life[b] = "unused"
               PROVE  life'[b] # "unused"
  BY MailBoxSteps DEF KnownMailBoxes
<1>2. inbox[b] = <<>> /\ b \notin mMailBoxes /\ \A n \in Names : mRegMailBoxes[n] # b
  BY <1>1 DEF KnownMailBoxes
<1>3. \A t \in Threads : at[t] = "put" => box[t] # b
  BY <1>1 DEF KnownMailBoxes
<1>4. CASE inbox'[b] # <<>>
  <2>1. PICK t \in Threads : Put(t)
    BY <1>2, <1>4, MessageSteps
       DEF LookUp, SendLocal, Send, Break, Receive, DeleteMailBox, DestroyMailBoxes, boxes, TypeOK
  <2>2. box[t] # b
    BY <1>3, <2>1 DEF Put
  <2> QED
    BY <1>2, <1>4, <2>1, <2>2 DEF Put, TypeOK
<1>5. CASE b \in mMailBoxes'
  BY <1>1, <1>2, <1>5, MailBoxSteps
<1>6. CASE \E n \in Names : mRegMailBoxes'[n] = b
  BY <1>1, <1>2, <1>6, MailBoxSteps
<1>7. ASSUME NEW t \in Threads, at'[t] = "put", box'[t] = b
      PROVE  FALSE
  <2>1. CASE at[t] = "put"
    BY <1>3, <1>7, <2>1, PutsStay
  <2>2. CASE at[t] # "put"
    <3>1. LookUp(t)
      BY <1>7, <2>2, PutsAreLookUps
    <3>2. box'[t] = Found(Dest[msg[t]]) /\ Dest[msg[t]] \in Boxes \cup Names
      BY <1>7, <3>1, DestAssumption, NoneAssumption DEF LookUp, Goto, Home, TypeOK
    <3> QED
      BY <1>1, <1>2, <1>7, <3>2, NoneAssumption DEF Found
  <2> QED
    BY <2>1, <2>2
<1> QED
  BY <1>1, <1>4, <1>5, <1>6, <1>7

(* A thread with a message in hand gives it up by looking in vain or by    *)
(* putting it.                                                             *)
LEMMA Leaves ==
  ASSUME Inv, AcceptorsStartOnce, [Next]_vars, NEW t \in Threads,
         at[t] \in {"deliver", "put"}, at'[t] \notin {"deliver", "put"}
  PROVE  LookUp(t) \/ Put(t)
<1> USE ThreadsAssumption DEF Threads, Goto, Inv, TypeOK
<1> DEFINE Gone == LookUp(t) \/ Put(t)
<1>1. ASSUME NEW s \in Threads, LookUp(s) \/ Put(s) PROVE Gone
  <2>1. at' = [at EXCEPT ![s] = at'[s]]
    BY <1>1 DEF LookUp, Put
  <2> QED
    BY <1>1, <2>1
<1>2. ASSUME NEW u \in Users, UserCall(u) PROVE FALSE
  BY <1>2 DEF UserCall, CreateMailBox, UnRegisterMailBox, Detach, RegisterMailBox,
     UnRegisterName, SendLocal, AttempConnection, StartAcceptor, Close, Calls, locals
<1>3. ASSUME NEW s \in Users \cup {AcceptThread}, StartConnection(s) PROVE FALSE
  <2>1. conn[s] # t
    BY <1>3 DEF StartConnection, Holds, AcceptorsStartOnce
  <2> QED
    BY <1>3, <2>1 DEF StartConnection
<1>4. ASSUME NEW u \in Users, UserStep(u) PROVE Gone
  BY <1>1, <1>3, <1>4 DEF UserStep, DetachNames, Connect, Opened, ConnectFailed, AddConnection,
     SendRemote
<1>5. ASSUME AcceptStep PROVE FALSE
  BY <1>3, <1>5 DEF AcceptStep, Accept, Opened, AddConnection, AcceptThreadExit
<1>6. ASSUME NEW c \in Conns, ConnectionStep(c) PROVE Gone
  BY <1>1, <1>6 DEF ConnectionStep, Receive, LinkFailed, RemoveConnection, Exit
<1>7. ASSUME \/ DestroyLock \/ Destroy \/ (\E b \in Boxes : DeleteMailBox(b)) \/ UNCHANGED vars
             \/ \E c \in Conns : PeerStep(c)
      PROVE  FALSE
  BY <1>7 DEF DestroyLock, Destroy, StopConnection, DeleteConnection, DestroyMailBoxes,
     DestroyEnd, DeleteMailBox, PeerStep, Send, Break, locals, vars
<1> HIDE DEF Gone, Inv, TypeOK
<1>8. Gone
  BY <1>2, <1>4, <1>5, <1>6, <1>7 DEF Next
<1> QED
  BY <1>8 DEF Gone

(* Messages that a thread is done with, or that are in a mailbox, were in  *)
(* its record before the step.                                             *)
LEMMA OldPlaces ==
  ASSUME Inv, OnePlace, AcceptorsStartOnce, Carries, Next, Record, NEW t \in Threads,
         NEW i \in DOMAIN carried'[t], carried'[t][i] \in Messages,
         Done(t, i)' \/ \E b \in Boxes : carried'[t][i] \in ToSet(inbox'[b])
  PROVE  i \in DOMAIN carried[t] /\ carried'[t][i] = carried[t][i]
<1>1. carried'[t][i] # None
  BY NoneAssumption
<1>2. ASSUME at[t] # "deliver", at'[t] = "deliver", i = Len(carried[t]) + 1,
             carried'[t][i] = msg'[t]
      PROVE  FALSE
  <2>1. \A b \in Boxes : carried'[t][i] \notin ToSet(inbox'[b])
    BY <1>2, TakenIsNew
  <2>2. i < Len(carried'[t])
    BY <1>2, <2>1 DEF Done
  <2>3. /\ carried'[t] \in Seq(Messages \cup {None}) /\ carried[t] \in Seq(Messages \cup {None})
        /\ \A j \in DOMAIN carried'[t] : carried'[t][j] # None => j <= Len(carried[t]) + 1
    BY RecordedElements DEF Carries
  <2>4. Len(carried'[t]) \in DOMAIN carried'[t] /\ carried'[t][Len(carried'[t])] = msg'[t]
    BY <1>2, <2>2, <2>3, RecordedElements
  <2> QED
    BY <1>1, <1>2, <2>2, <2>3, <2>4
<1> QED
  BY <1>1, <1>2, RecordedElements

(* What a step makes of a mailbox.                                         *)
LEMMA InboxSteps ==
  ASSUME Inv, OnePlace, [Next]_vars, NEW b \in Boxes
  PROVE  \/ inbox'[b] = inbox[b] \/ ToSet(inbox'[b]) = {}
         \/ \E t \in Threads : /\ Put(t) /\ box[t] = b
                              /\ ToSet(inbox'[b]) = ToSet(inbox[b]) \cup {msg[t]}
<1>1. ToSet(<<>>) = {}
  BY DEF ToSet
<1>2. ASSUME NEW t \in Threads, Put(t)
      PROVE  inbox'[b] = inbox[b] \/ (box[t] = b /\ ToSet(inbox'[b]) = ToSet(inbox[b]) \cup {msg[t]})
  BY <1>2, OnePlacePut
<1>3. ASSUME ~\E t \in Threads : Put(t)
      PROVE  inbox'[b] \in {inbox[b], <<>>}
  BY <1>3, MessageSteps
     DEF LookUp, SendLocal, Send, Break, Receive, DeleteMailBox, DestroyMailBoxes, boxes,
         Inv, TypeOK
<1> QED
  BY <1>1, <1>2, <1>3

(* A message that is put is the last in the record of its thread.          *)
LEMMA LastIsPut ==
  ASSUME Inv, Carries, NEW t \in Threads, Put(t), NEW s \in Threads, NEW p \in DOMAIN carried[s],
         carried[s][p] = msg[t]
  PROVE  s = t /\ p = Len(carried[t]) /\ \A q \in DOMAIN carried[s] : ~(p < q)
<1>1. msg[t] # None /\ at[t] = "put"
  BY DEF Put, Inv, TypeOK
<1>2. Len(carried[t]) # 0 /\ msg[t] = carried[t][Len(carried[t])] /\ carried[t] \in Seq(Messages \cup {None})
  BY <1>1 DEF Carries
<1>3. Len(carried[t]) \in DOMAIN carried[t] /\ DOMAIN carried[t] = 1 .. Len(carried[t])
  BY <1>2
<1>4. s = t /\ p = Len(carried[t])
  BY <1>1, <1>2, <1>3 DEF Carries
<1> QED
  BY <1>3, <1>4

LEMMA GapsNext ==
  ASSUME Inv, OnePlace, RightBox, AcceptorsStartOnce, Carries, KnownMailBoxes, GapsAreFinal,
         Next, Record
  PROVE  GapsAreFinal'
<1> SUFFICES ASSUME NEW t \in Threads, NEW b \in Boxes,
                    NEW p \in DOMAIN carried'[t], NEW q \in DOMAIN carried'[t],
                    p < q, Done(t, q)', carried'[t][q] \in Messages, Dest[carried'[t][q]] = b,
                    carried'[t][p] \in ToSet(inbox'[b]), carried'[t][q] \notin ToSet(inbox'[b])
             PROVE  b \notin mMailBoxes' /\ ~(at'[t] = "put" /\ Dest[msg'[t]] = b)
  BY DEF GapsAreFinal
<1> DEFINE m == carried[t][q]
<1>1. TypeOK /\ TypeOK'
  BY NextType DEF Inv, ConnectionsAreOpened
<1>2. carried'[t][p] \in Messages
  BY <1>1 DEF TypeOK, ToSet
<1>3. /\ p \in DOMAIN carried[t] /\ carried'[t][p] = carried[t][p]
      /\ q \in DOMAIN carried[t] /\ carried'[t][q] = m
  BY <1>2, OldPlaces
<1>4. m \in Messages /\ Dest[m] = b /\ m \notin ToSet(inbox'[b])
  BY <1>3
<1>5. carried[t][p] \in ToSet(inbox[b]) /\ m \notin ToSet(inbox[b])
  <2>1. CASE inbox'[b] = inbox[b]
    BY <1>3, <1>4, <2>1
  <2>2. CASE \E s \in Threads : /\ Put(s) /\ box[s] = b
                               /\ ToSet(inbox'[b]) = ToSet(inbox[b]) \cup {msg[s]}
    BY <1>3, <1>4, <2>2, LastIsPut
  <2> QED
    BY <2>1, <2>2, InboxSteps
<1> HIDE DEF m
<1>6. life[b] # "unused"
  <2>1. inbox[b] # <<>>
    BY <1>5 DEF ToSet
  <2> QED
    BY <2>1 DEF KnownMailBoxes
<1>7. b \notin mMailBoxes => b \notin mMailBoxes'
  BY <1>1, <1>6, MailBoxSteps
<1>8. CASE Done(t, q)
  <2>1. b \notin mMailBoxes /\ ~(at[t] = "put" /\ Dest[msg[t]] = b)
    BY <1>3, <1>4, <1>5, <1>8 DEF GapsAreFinal, m
  <2>2. ASSUME at'[t] = "put", Dest[msg'[t]] = b
        PROVE  FALSE
    <3>1. CASE at[t] = "put"
      BY <2>1, <2>2, <3>1, CarriersKeep
    <3>2. CASE at[t] # "put"
      <4>1. LookUp(t)
        BY <1>1, <2>2, <3>2, PutsAreLookUps
      <4>2. at[t] = "deliver" /\ Found(Dest[msg[t]]) # None /\ msg'[t] = msg[t]
        BY <1>1, <2>2, <4>1 DEF LookUp, Goto, Home, TypeOK
      <4> QED
        BY <2>1, <2>2, <4>2 DEF Found
    <3> QED
      BY <3>1, <3>2
  <2> QED
    BY <1>7, <2>1, <2>2
<1>9. CASE ~Done(t, q)
  <2>1. at[t] \in {"deliver", "put"} /\ ~(q < Len(carried[t]))
    BY <1>9 DEF Done
  <2>2. q = Len(carried[t]) /\ msg[t] = m
    <3>1. carried[t] \in Seq(Messages \cup {None}) /\ msg[t] = carried[t][Len(carried[t])]
      BY <2>1 DEF Carries
    <3>2. q = Len(carried[t])
      BY <1>3, <2>1, <3>1
    <3> QED
      BY <3>1, <3>2 DEF m
  <2>3. at'[t] \notin {"deliver", "put"}
    <3>1. at'[t] \in {"deliver", "put"} => carried'[t] = carried[t]
      BY <2>1, RecordedElements
    <3> QED
      BY <2>1, <3>1 DEF Done
  <2>4. ~Put(t)
    <3>1. Put(t) => box[t] = b
      BY <1>4, <2>2 DEF Put, RightBox
    <3>2. Put(t) => msg[t] \in ToSet(inbox'[box[t]])
      BY OnePlacePut
    <3> QED
      BY <1>4, <2>2, <3>1, <3>2
  <2>5. LookUp(t)
    BY <2>1, <2>3, <2>4, Leaves
  <2>6. Found(b) = None /\ mMailBoxes' = mMailBoxes
    BY <1>1, <1>4, <2>2, <2>3, <2>5 DEF LookUp, Goto, registries, TypeOK
  <2>7. b \notin mMailBoxes
    BY <2>6, NoneAssumption DEF Found
  <2> QED
    BY <2>3, <2>6, <2>7
<1> QED
  BY <1>8, <1>9

LEMMA NoGapsNext ==
  ASSUME Inv, OnePlace, RightBox, AcceptorsStartOnce, Carries, GapsAreFinal,
         MessagesLeaveNoGaps, Next, Record
  PROVE  MessagesLeaveNoGaps'
<1> SUFFICES ASSUME NEW t \in Threads, NEW b \in Boxes,
                    NEW p \in DOMAIN carried'[t], NEW q \in DOMAIN carried'[t],
                    NEW r \in DOMAIN carried'[t], p < q, q < r,
                    {carried'[t][q], carried'[t][r]} \subseteq {m \in Messages : Dest[m] = b},
                    {carried'[t][p], carried'[t][r]} \subseteq ToSet(inbox'[b])
             PROVE  carried'[t][q] \in ToSet(inbox'[b])
  BY DEF MessagesLeaveNoGaps
<1>1. TypeOK'
  BY NextType DEF Inv, ConnectionsAreOpened
<1>2. carried'[t][p] \in Messages
  BY <1>1 DEF TypeOK, ToSet
<1>3. /\ p \in DOMAIN carried[t] /\ carried'[t][p] = carried[t][p]
      /\ r \in DOMAIN carried[t] /\ carried'[t][r] = carried[t][r]
  BY <1>2, OldPlaces
<1>4. carried[t] \in Seq(Messages \cup {None}) /\ carried'[t] \in Seq(Messages \cup {None})
  BY RecordedElements DEF Carries
<1>5. q \in DOMAIN carried[t] /\ carried'[t][q] = carried[t][q]
  BY <1>3, <1>4, RecordedElements
<1>6. CASE inbox'[b] = inbox[b]
  BY <1>3, <1>5, <1>6 DEF MessagesLeaveNoGaps
<1>7. CASE \E s \in Threads : /\ Put(s) /\ box[s] = b
                             /\ ToSet(inbox'[b]) = ToSet(inbox[b]) \cup {msg[s]}
  <2>1. PICK s \in Threads : /\ Put(s) /\ box[s] = b
                             /\ ToSet(inbox'[b]) = ToSet(inbox[b]) \cup {msg[s]}
    BY <1>7
  <2>2. carried[t][p] \in ToSet(inbox[b])
    BY <1>3, <1>5, <2>1, LastIsPut
  <2>3. CASE carried[t][r] \in ToSet(inbox[b])
    BY <1>3, <1>5, <2>1, <2>2, <2>3 DEF MessagesLeaveNoGaps
  <2>4. CASE carried[t][r] = msg[s]
    <3>1. s = t /\ r = Len(carried[t])
      BY <1>3, <2>1, <2>4, LastIsPut
    <3>2. Done(t, q) /\ at[t] = "put" /\ Dest[msg[t]] = b
      BY <1>3, <2>1, <2>4, <3>1 DEF Done, Put
    <3> QED
      BY <1>3, <1>5, <2>1, <2>2, <3>2 DEF GapsAreFinal
  <2> QED
    BY <1>3, <2>1, <2>3, <2>4
<1> QED
  BY <1>6, <1>7, InboxSteps

(* AutoNode::deliver() looks a mailbox up anew for each message            *)
(* (EpiAutoNode.cpp:430), while mailboxes come and go: a mailbox gets the  *)
(* messages of a peer, or of a user within the node, for its pid without a *)
(* gap between the first and the last that it gets.                        *)
THEOREM MessagesWithoutGaps == HistorySpec => []MessagesLeaveNoGaps
<1> DEFINE I == /\ Inv /\ OnePlace /\ RightBox /\ AcceptorsStartOnce /\ Carries
                /\ KnownMailBoxes /\ GapsAreFinal /\ MessagesLeaveNoGaps
<1>1. HistoryInit => I
  <2> SUFFICES ASSUME HistoryInit PROVE I
    OBVIOUS
  <2>1. Inv /\ OnePlace /\ RightBox /\ AcceptorsStartOnce /\ Carries
    BY InitInv, OnePlaceInit, StartOnceInit, CarriesInit DEF HistoryInit
  <2>2. KnownMailBoxes
    BY NoneAssumption DEF HistoryInit, Init, KnownMailBoxes
  <2>3. \A t \in Threads : carried[t] = <<>> /\ DOMAIN carried[t] = {}
    BY DEF HistoryInit
  <2>4. GapsAreFinal /\ MessagesLeaveNoGaps
    BY <2>3 DEF GapsAreFinal, MessagesLeaveNoGaps
  <2> QED
    BY <2>1, <2>2, <2>4
<1>2. I /\ [Next /\ Record]_<<vars, carried>> => I'
  <2>1. CASE Next /\ Record
    BY <2>1, NextInv, OnePlaceNext, RightBoxNext, StartOnceNext, CarriesNext,
       KnownMailBoxesNext, GapsNext, NoGapsNext
  <2>2. CASE UNCHANGED <<vars, carried>>
    <3>1. I => Inv' /\ OnePlace' /\ RightBox' /\ AcceptorsStartOnce' /\ KnownMailBoxes'
      BY <2>2, NextInv, OnePlaceNext, RightBoxNext, StartOnceNext, KnownMailBoxesNext
    <3>2. I => Carries' /\ GapsAreFinal' /\ MessagesLeaveNoGaps'
      BY <2>2 DEF vars, Carries, GapsAreFinal, Done, MessagesLeaveNoGaps, registries, locals,
         network, boxes
    <3> QED
      BY <3>1, <3>2
  <2> QED
    BY <2>1, <2>2
<1> QED
  BY <1>1, <1>2, PTL DEF HistorySpec
=============================================================================
