------------------------------ MODULE Transport ------------------------------
(***************************************************************************)
(* How a node gets a name, a port and connections: the parsing of node     *)
(* names, EITransport and its listening socket, and startAcceptor() of an  *)
(* AutoNode (src/src/ErlangTransportManager.cpp, EITransport.cpp,          *)
(* Socket.cpp, EpiNode.cpp, EpiLocalNode.cpp, EpiAutoNode.cpp).            *)
(*                                                                         *)
(* The nodes run on one host, each in a process of its own that may crash; *)
(* a node that is started again is another node of the same name.  The     *)
(* name server epmd, the ports of the operating system and the handshake   *)
(* of the EI library are external.  A name is a sequence of words and of   *)
(* the marks "@" and ":".                                                  *)
(***************************************************************************)
EXTENDS Integers, SequencesExt, Functions

CONSTANTS Nodes,       \* the nodes, restarted ones included
          Words,       \* what names are made of
          NodeIds,     \* what the nodes are constructed with
          Names,       \* what connect() and sendBuf() are given for a node
          Protocols,   \* the registered protocols
          PortNumber,  \* the number a word of digits stands for
          FreePorts,   \* the ports the system gives a socket that asks for none
          NoEntry

(* Names are sequences of words.                                           *)
ASSUME NamesAssumption ==
  /\ {"@", ":", "defaulthost"} \subseteq Words
  /\ NodeIds \subseteq Seq(Words) /\ Names \subseteq Seq(Words)

VARIABLES
  state,     \* of each node: "none", "created", where startAcceptor() is,
             \* "started", "failed" (it threw), "invalid" (the constructor threw)
             \* or "crashed"
  mNodeName, mAliveName, mHostName, mPort, \* of each transport
  mListening,
  socket,    \* the port each socket is bound to, 0 if none
  cause,     \* history: what kept startAcceptor() from publishing
  duel,      \* history: two living nodes had the same alive name
  epmd,      \* the name server: [port, node] for the alive names it knows
  connected  \* history: the connection just made, or the message that sendBuf() just
             \* kept: by which node and call, for which name, and who got it

transport == <<mNodeName, mAliveName, mHostName, mPort>>
vars == <<state, transport, mListening, socket, cause, duel, epmd, connected>>

-----------------------------------------------------------------------------
(* Names. *)

(* The part of a name before the first mark, and the part after it.        *)
Position(name, mark) == SelectInSeq(name, LAMBDA w : w = mark)
Has(name, mark) == Position(name, mark) > 0
Before(name, mark) == SubSeq(name, 1, Position(name, mark) - 1)
After(name, mark) == SubSeq(name, Position(name, mark) + 1, Len(name))

(* ErlangTransportManager::createErlangTransport(): "protocol:nodename".   *)
Protocol(id) == IF Has(id, ":") THEN Before(id, ":") ELSE <<"ei">>
NodeName(id) == IF Has(id, ":") THEN After(id, ":") ELSE id

(* EITransportFactory::createErlangTransport(): "alive@host:port".         *)
PortOf(name) ==
  LET port == PortNumber[After(name, ":")[1]]
  IN IF Has(name, ":") /\ port \in 1024..65535 THEN port ELSE 0
WithoutPort(name) == IF Has(name, ":") THEN Before(name, ":") ELSE name
(* Mutant of AliveOf: the host stays in the alive name.                    *)
AliveOfWithHost(name) == name

AliveOf(name) == IF Has(name, "@") THEN Before(name, "@") ELSE name
HostOf(name) == IF Has(name, "@") THEN After(name, "@") ELSE <<"defaulthost">>

Full(alive, host) == alive \o <<"@">> \o host

(* Mutant of IsSameHost: only the first name is made full.                 *)
IsSameFirst(node1, node2, host) ==
  (IF Has(node1, "@") THEN Full(node1, host) ELSE node1) = node2

(* isSameHost(): the host is appended to a name that has one already, so   *)
(* that a node does not know itself by its alive name.                     *)
IsSameHost(node1, node2, host) ==
  LET full(node) == IF Has(node, "@") THEN Full(node, host) ELSE node
  IN full(node1) = full(node2)

-----------------------------------------------------------------------------
Init ==
  /\ state = [n \in Nodes |-> "none"]
  /\ mNodeName = [n \in Nodes |-> <<>>] /\ mAliveName = [n \in Nodes |-> <<>>]
  /\ mHostName = [n \in Nodes |-> <<>>]
  /\ mPort = [n \in Nodes |-> 0] /\ mListening = [n \in Nodes |-> FALSE]
  /\ socket = [n \in Nodes |-> 0]
  /\ cause = [n \in Nodes |-> "none"]
  /\ epmd = <<>> /\ duel = FALSE /\ connected = NoEntry

Alive(n) == state[n] \notin {"none", "invalid", "crashed"}
Listens(n, port) == mListening[n] /\ socket[n] = port
HasItsPort(n) == Alive(n) /\ socket[n] = mPort[n]
Unused == {p \in FreePorts : \A n \in Nodes : socket[n] # p}

Goto(n, s) == state' = [state EXCEPT ![n] = s]

(* The constructor throws: there is no socket, or the EI library does not  *)
(* start.  That the protocol is unknown is an exception which AutoNode does *)
(* not declare, and ends the program.                                      *)
ConstructorThrows(n, id) ==
  /\ state[n] = "none"
  /\ Goto(n, IF Protocol(id) \in Protocols THEN "invalid" ELSE "crashed")
  /\ UNCHANGED <<transport, mListening, socket, cause, duel, epmd>>

(* EITransport::init() and LocalNode::init().  bind() fails on a port that *)
(* somebody listens on; its result is not looked at, and getLocalPort() is *)
(* then the port that was asked for, while the socket is not bound.        *)
Construct(n, id) ==
  LET name == NodeName(id)
      port == PortOf(name)
      alive == AliveOf(WithoutPort(name))
      host == HostOf(WithoutPort(name))
  IN /\ state[n] = "none" /\ Protocol(id) \in Protocols
     /\ \E p \in IF port = 0 THEN Unused
                 ELSE {IF \E m \in Nodes : Listens(m, port) THEN 0 ELSE port} :
          socket' = [socket EXCEPT ![n] = p]
     /\ mPort' = [mPort EXCEPT ![n] = IF port = 0 THEN socket'[n] ELSE port]
     /\ mAliveName' = [mAliveName EXCEPT ![n] = alive]
     /\ mHostName' = [mHostName EXCEPT ![n] = host]
     /\ mNodeName' = [mNodeName EXCEPT ![n] = Full(alive, host)]
     /\ duel' = (duel \/ \E m \in Nodes : Alive(m) /\ mAliveName[m] = alive)
     /\ Goto(n, "created")
     /\ UNCHANGED <<mListening, cause, epmd>>

-----------------------------------------------------------------------------
(* setListening(): once.  The system binds a socket that is not bound, and *)
(* refuses a port on which somebody listens.                               *)
SetListening(n) ==
  /\ \A m \in Nodes \ {n} : socket[n] # 0 => ~Listens(m, socket[n])
  /\ mListening' = [mListening EXCEPT ![n] = TRUE]
  /\ IF socket[n] = 0 THEN \E p \in Unused : socket' = [socket EXCEPT ![n] = p]
     ELSE UNCHANGED socket

Registered(n) == mAliveName[n] \in DOMAIN epmd
Entry(n) == [port |-> mPort[n], node |-> n]
EntriesWith(n) ==
  [a \in DOMAIN epmd \cup {mAliveName[n]} |-> IF a = mAliveName[n] THEN Entry(n) ELSE epmd[a]]

(* Mutant of PublishPort: the socket is not set to listen.                 *)
PublishOnly(n) ==
  /\ ~Registered(n)
  /\ epmd' = EntriesWith(n)
  /\ UNCHANGED <<mListening, socket>>

(* publishPort(): epmd takes a name it does not have.                      *)
PublishPort(n) ==
  /\ SetListening(n) /\ ~Registered(n)
  /\ epmd' = EntriesWith(n)

(* startAcceptor(): the accept thread runs from here on, whatever becomes  *)
(* of the publishing; its accept() listens too.                            *)
StartAcceptor(n) ==
  /\ state[n] = "created" /\ Goto(n, "publishing")
  /\ UNCHANGED <<transport, mListening, socket, cause, duel, epmd>>

(* Another node that is about to publish the name again comes too late.    *)
Forestalled(n) ==
  [m \in Nodes |-> IF m # n /\ mAliveName[m] = mAliveName[n] /\ state[m] = "again"
                     THEN "rival" ELSE cause[m]]

(* Mutants of Publish: it does not try again; it does not look at the      *)
(* result of ei_publish().                                                 *)
PublishOnce(n) ==
  /\ state[n] \in {"publishing", "again"}
  /\ \/ PublishPort(n) /\ Goto(n, "started") /\ cause' = Forestalled(n)
     \/ Registered(n) /\ SetListening(n) /\ Goto(n, "failed") /\ UNCHANGED <<epmd, cause>>
  /\ UNCHANGED <<transport, duel>>
PublishUnchecked(n) ==
  /\ state[n] \in {"publishing", "again"} /\ Goto(n, "started")
  /\ \/ PublishPort(n) /\ cause' = Forestalled(n)
     \/ Registered(n) /\ SetListening(n) /\ UNCHANGED <<epmd, cause>>
  /\ UNCHANGED <<transport, duel>>

(* "Try to publish it, and if it fails, try to unpublish an publish it."   *)
Publish(n) ==
  /\ state[n] \in {"publishing", "again"}
  /\ \/ PublishPort(n) /\ Goto(n, "started") /\ cause' = Forestalled(n)
     \/ /\ Registered(n) /\ SetListening(n)
        /\ Goto(n, IF state[n] = "publishing" THEN "unpublishing" ELSE "failed")
        /\ UNCHANGED <<epmd, cause>>
  /\ UNCHANGED <<transport, duel>>

(* listen() or epmd fails: an exception, the first of which is caught.     *)
PublishFails(n) ==
  /\ state[n] \in {"publishing", "again"}
  /\ \/ state[n] = "publishing" /\ Goto(n, "unpublishing") /\ UNCHANGED cause
     \/ state[n] = "again" /\ Goto(n, "failed") /\ cause' = [cause EXCEPT ![n] = "system"]
  /\ SetListening(n) \/ UNCHANGED <<mListening, socket>>
  /\ UNCHANGED <<transport, duel, epmd>>

(* unPublishPort(): epmd forgets the name, whoever registered it; if that  *)
(* fails, the exception leaves startAcceptor().                            *)
UnPublishPort(n) == epmd' = Restrict(epmd, DOMAIN epmd \ {mAliveName[n]})

UnPublish(n) ==
  /\ state[n] = "unpublishing"
  /\ \/ UnPublishPort(n) /\ Goto(n, "again") /\ UNCHANGED cause
     \/ /\ Goto(n, "failed") /\ UNCHANGED epmd
        /\ cause' = [cause EXCEPT ![n] = "system"]
  /\ UNCHANGED <<transport, mListening, socket, duel>>

(* The user withdraws the name of a node, which keeps on listening.        *)
Withdraw(n) ==
  /\ state[n] = "started" /\ UnPublishPort(n) /\ Goto(n, "created")
  /\ UNCHANGED <<transport, mListening, socket, cause, duel>>

(* The process ends: its socket is closed, and epmd notices, or not.       *)
Crash(n) ==
  /\ Alive(n) /\ Goto(n, "crashed")
  /\ socket' = [socket EXCEPT ![n] = 0]
  /\ mListening' = [mListening EXCEPT ![n] = FALSE]
  /\ epmd' \in {epmd, Restrict(epmd, {a \in DOMAIN epmd : epmd[a].node # n})}
  /\ UNCHANGED <<transport, cause, duel>>

(* epmd notices.                                                           *)
Expire(a) ==
  /\ state[epmd[a].node] = "crashed"
  /\ epmd' = Restrict(epmd, DOMAIN epmd \ {a})
  /\ UNCHANGED <<state, transport, mListening, socket, cause, duel>>

-----------------------------------------------------------------------------
(* Node n has node m get what it sends to the name.                        *)
Reach(n, m, name, call) ==
  connected' = [from |-> n, to |-> m, name |-> name, call |-> call]

(* connect() by node n, and accept() by whoever listens on the port that   *)
(* epmd tells of the alive name.  The handshake does not compare names.  If *)
(* it fails, connect() throws and accept() does, or gives nothing when the *)
(* time is up; both leave nothing behind.                                  *)
Handshake(n, name, call) ==
  /\ Alive(n) /\ AliveOf(name) \in DOMAIN epmd
  /\ \E m \in Nodes : Listens(m, epmd[AliveOf(name)].port) /\ Reach(n, m, name, call)
  /\ UNCHANGED <<state, transport, mListening, socket, cause, duel, epmd>>

Connect(n, name) == Handshake(n, name, "connect")

(* sendBuf() keeps what is for its own node, as isSameHost() tells, and    *)
(* connects to any other.                                                  *)
SendBuf(n, name) ==
  \/ /\ Alive(n) /\ IsSameHost(name, mNodeName[n], mHostName[n])
     /\ Reach(n, n, name, "kept")
     /\ UNCHANGED <<state, transport, mListening, socket, cause, duel, epmd>>
  \/ ~IsSameHost(name, mNodeName[n], mHostName[n]) /\ Handshake(n, name, "sendBuf")

(* accept() with nobody there: the socket listens from then on.            *)
Accept(n) ==
  /\ Alive(n) /\ ~mListening[n] /\ SetListening(n)
  /\ UNCHANGED <<state, transport, cause, duel, epmd>>

Next ==
  \/ /\ \/ \E n \in Nodes :
             \/ StartAcceptor(n) \/ Publish(n) \/ PublishFails(n)
             \/ UnPublish(n) \/ Withdraw(n) \/ Crash(n) \/ Accept(n)
             \/ \E id \in NodeIds : Construct(n, id) \/ ConstructorThrows(n, id)
        \/ \E a \in DOMAIN epmd : Expire(a)
     /\ connected' = NoEntry
  \/ \E n \in Nodes, name \in Names : SendBuf(n, name) \/ Connect(n, name)

Spec == Init /\ [][Next]_vars

-----------------------------------------------------------------------------
(* Nodes have full names, epmd knows nodes that were started, and a socket *)
(* that listens is bound.                                                  *)
TypeOK ==
  /\ state \in [Nodes -> {"none", "created", "publishing", "unpublishing", "again",
                          "started", "failed", "invalid", "crashed"}]
  /\ \A n \in Nodes :
       /\ Alive(n) => mNodeName[n] = Full(mAliveName[n], mHostName[n]) /\ ~Has(mAliveName[n], "@")
       /\ mListening[n] => Alive(n) /\ socket[n] # 0
  /\ cause \in [Nodes -> {"none", "system", "rival"}]
  /\ \A a \in DOMAIN epmd : mAliveName[epmd[a].node] = a

(* The port that epmd tells of a living node leads to that node and to no  *)
(* other, if the node got the port it asked for.                           *)
PublishedPortsLeadToTheirNodes ==
  \A a \in DOMAIN epmd :
    LET n == epmd[a].node
    IN HasItsPort(n) => {m \in Nodes : Listens(m, epmd[a].port)} = {n}

(* As long as no two living nodes have the same name, a node is known to   *)
(* epmd once startAcceptor() has returned, whatever a node of that name    *)
(* that crashed before has left there.                                     *)
StartedNodesAreKnown ==
  ~duel => \A n \in Nodes : state[n] = "started" => Registered(n) /\ epmd[mAliveName[n]] = Entry(n)

(* startAcceptor() gives up for no name that is taken, but if another node *)
(* takes it between the two attempts, or the system fails.                 *)
TakenNamesAreOvercome == \A n \in Nodes : state[n] = "failed" => cause[n] # "none"

(* What is sent or connected to a name, by the full name of the node, that *)
(* with another name of its host or the alive name alone, gets to the node *)
(* that epmd knows by it, if that node lives and got the port it asked     *)
(* for; what sendBuf() keeps does so unless two living nodes had one name. *)
(* And sendBuf() makes no connection by the full name of its own node.     *)
ConnectionsReachTheNamedNode ==
  connected # NoEntry
  => LET a == AliveOf(connected.name)
     IN /\ /\ a \in DOMAIN epmd /\ HasItsPort(epmd[a].node)
           /\ connected.call = "kept" => ~duel
           => connected.to = epmd[a].node
        /\ connected.call = "sendBuf" => connected.name # mNodeName[connected.from]
=============================================================================
