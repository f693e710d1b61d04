-------------------------- MODULE Transport_proofs --------------------------
(***************************************************************************)
(* Proofs about names, published ports and connections, for any nodes,     *)
(* names and ports.                                                        *)
(***************************************************************************)
EXTENDS Transport, SequenceLemmas

(* Position is that of the first mark, or 0 if there is none.              *)
LEMMA PositionIsFirst ==
  ASSUME NEW W, NEW name \in Seq(W), NEW mark
  PROVE  /\ Position(name, mark) \in 0 .. Len(name)
         /\ Has(name, mark) => name[Position(name, mark)] = mark
         /\ ~Has(name, mark) => \A i \in 1 .. Len(name) : name[i] # mark
         /\ \A i \in 1 .. Position(name, mark) - 1 : name[i] # mark
<1> DEFINE I == {i \in 1 .. Len(name) : name[i] = mark}
<1>1. Position(name, mark) = IF I # {} THEN Min(I) ELSE 0
  BY DEF Position, SelectInSeq
<1>2. Len(name) \in Nat
  OBVIOUS
<1>3. I \subseteq Nat
  BY <1>2
<1> HIDE DEF I
<1>4. I # {} => Min(I) \in I /\ \A j \in I : Min(I) <= j
  BY <1>3, MinIsSmallest
<1>5. CASE I = {}
  <2>1. Position(name, mark) = 0
    BY <1>1, <1>5
  <2> QED
    BY <1>2, <1>5, <2>1 DEF Has, I
<1>6. CASE I # {}
  <2>1. Position(name, mark) \in I /\ \A j \in I : Position(name, mark) <= j
    BY <1>1, <1>4, <1>6
  <2> QED
    BY <1>2, <2>1 DEF Has, I
<1> QED
  BY <1>5, <1>6

(* What stands before the first mark and what stands after it.             *)
LEMMA BeforeAndAfter ==
  ASSUME NEW W, NEW name \in Seq(W), NEW mark, Has(name, mark)
  PROVE  /\ Before(name, mark) \in Seq(W) /\ ~Has(Before(name, mark), mark)
         /\ After(name, mark) \in Seq(W)
<1> DEFINE p == Position(name, mark)
           front == SubSeq(name, 1, p - 1)
<1>1. /\ p \in 1 .. Len(name) /\ Len(name) \in Nat
      /\ \A i \in 1 .. p - 1 : name[i] # mark
  BY PositionIsFirst DEF Has
<1> HIDE DEF p
<1>2. /\ front \in Seq(W) /\ Len(front) = p - 1
      /\ \A i \in 1 .. p - 1 : front[i] = name[i]
  BY <1>1
<1>3. SubSeq(name, p + 1, Len(name)) \in Seq(W)
  BY <1>1
<1> HIDE DEF front
<1>4. ~Has(front, mark)
  BY <1>1, <1>2, PositionIsFirst DEF Has
<1> QED
  BY <1>2, <1>3, <1>4 DEF Before, After, front, p

(* The alive name of a node has no host, and it and the host are names.    *)
LEMMA PartsOfNames ==
  ASSUME NEW id \in NodeIds
  PROVE  LET short == WithoutPort(NodeName(id))
         IN /\ AliveOf(short) \in Seq(Words) /\ HostOf(short) \in Seq(Words)
            /\ ~Has(AliveOf(short), "@")
<1> DEFINE name == NodeName(id)
           short == WithoutPort(name)
<1>1. id \in Seq(Words) /\ <<"defaulthost">> \in Seq(Words)
  BY NamesAssumption
<1>2. name \in Seq(Words)
  BY <1>1, BeforeAndAfter DEF NodeName
<1> HIDE DEF name
<1>3. short \in Seq(Words)
  BY <1>2, BeforeAndAfter DEF WithoutPort
<1> HIDE DEF short
<1>4. AliveOf(short) \in Seq(Words) /\ HostOf(short) \in Seq(Words)
  BY <1>1, <1>3, BeforeAndAfter DEF AliveOf, HostOf
<1>5. ~Has(AliveOf(short), "@")
  BY <1>3, BeforeAndAfter DEF AliveOf
<1> QED
  BY <1>4, <1>5 DEF short, name

(* A full name is spelled by its parts,                                    *)
LEMMA FullIsSpelled ==
  ASSUME NEW alive \in Seq(Words), NEW host \in Seq(Words)
  PROVE  /\ Full(alive, host) \in Seq(Words)
         /\ Len(Full(alive, host)) = Len(alive) + 1 + Len(host)
         /\ \A i \in 1 .. Len(alive) : Full(alive, host)[i] = alive[i]
         /\ Full(alive, host)[Len(alive) + 1] = "@"
<1> DEFINE front == alive \o <<"@">>
<1>1. /\ front \in Seq(Words) /\ Len(front) = Len(alive) + 1
      /\ \A i \in 1 .. Len(alive) : front[i] = alive[i]
      /\ front[Len(alive) + 1] = "@"
  BY NamesAssumption
<1>2. Full(alive, host) = front \o host
  BY DEF Full
<1> HIDE DEF front
<1>3. /\ front \o host \in Seq(Words) /\ Len(front \o host) = Len(front) + Len(host)
      /\ \A i \in 1 .. Len(front) : (front \o host)[i] = front[i]
  BY <1>1
<1>4. Len(alive) \in Nat
  OBVIOUS
<1> QED
  BY <1>1, <1>2, <1>3, <1>4

(* ... tells them apart,                                                   *)
LEMMA FullTellsApart ==
  ASSUME NEW x \in Seq(Words), NEW y \in Seq(Words), NEW host \in Seq(Words),
         Full(x, host) = Full(y, host)
  PROVE  x = y
<1>1. Len(x) \in Nat /\ Len(y) \in Nat /\ Len(host) \in Nat
  OBVIOUS
<1>2. Len(x) = Len(y)
  BY <1>1, FullIsSpelled
<1> DEFINE full == Full(x, host)
<1>3. \A i \in 1 .. Len(x) : full[i] = x[i]
  BY FullIsSpelled
<1>4. \A i \in 1 .. Len(y) : Full(y, host)[i] = y[i]
  BY FullIsSpelled
<1>5. \A i \in 1 .. Len(y) : full[i] = y[i]
  BY <1>4
<1> HIDE DEF full
<1>6. \A i \in 1 .. Len(x) : x[i] = y[i]
  BY <1>2, <1>3, <1>5
<1> QED
  BY <1>1, <1>2, <1>6

(* ... and gives the alive name back.                                      *)
LEMMA AliveOfFull ==
  ASSUME NEW alive \in Seq(Words), NEW host \in Seq(Words), ~Has(alive, "@")
  PROVE  Has(Full(alive, host), "@") /\ AliveOf(Full(alive, host)) = alive
<1> DEFINE full == Full(alive, host)
           p == Position(full, "@")
<1>1. /\ full \in Seq(Words) /\ Len(full) = Len(alive) + 1 + Len(host)
      /\ \A i \in 1 .. Len(alive) : full[i] = alive[i]
      /\ full[Len(alive) + 1] = "@"
  BY FullIsSpelled
<1>2. Len(alive) \in Nat /\ Len(host) \in Nat
  OBVIOUS
<1>3. \A i \in 1 .. Len(alive) : alive[i] # "@"
  BY PositionIsFirst
<1> HIDE DEF full
<1>4. /\ p \in 0 .. Len(full) /\ (Has(full, "@") => full[p] = "@")
      /\ ~Has(full, "@") => \A i \in 1 .. Len(full) : full[i] # "@"
      /\ \A i \in 1 .. p - 1 : full[i] # "@"
  BY <1>1, PositionIsFirst
<1>5. Has(full, "@")
  BY <1>1, <1>2, <1>4
<1>6. p > 0
  BY <1>5 DEF Has
<1> HIDE DEF p
<1>7. p = Len(alive) + 1
  <2>1. p \notin 1 .. Len(alive)
    BY <1>1, <1>3, <1>4, <1>5
  <2>2. Len(alive) + 1 \notin 1 .. p - 1
    BY <1>1, <1>4
  <2> QED
    BY <1>1, <1>2, <1>4, <1>6, <2>1, <2>2
<1>8. SubSeq(full, 1, p - 1) = alive
  BY <1>1, <1>2, <1>7
<1> QED
  BY <1>5, <1>8 DEF AliveOf, Before, p, full

-----------------------------------------------------------------------------
(* What is kept of each node is kept of every node, and names are names.   *)
Total ==
  /\ mAliveName \in [Nodes -> Seq(Words)] /\ mHostName \in [Nodes -> Seq(Words)]
  /\ DOMAIN mNodeName = Nodes /\ DOMAIN mPort = Nodes /\ DOMAIN socket = Nodes
  /\ mListening \in [Nodes -> BOOLEAN]

(* epmd knows nodes by their names and ports, and those that live listen.  *)
Located ==
  \A a \in DOMAIN epmd :
    LET n == epmd[a].node
    IN /\ n \in Nodes /\ state[n] \notin {"none", "invalid"}
       /\ epmd[a] = Entry(n) /\ mAliveName[n] = a
       /\ Alive(n) => mListening[n]

(* No two sockets listen on a port.                                        *)
ListenersApart ==
  \A m, n \in Nodes :
    mListening[m] /\ mListening[n] /\ socket[m] = socket[n] => m = n

(* As long as there was no duel, a name has one living node.               *)
NamesApart ==
  ~duel => \A m, n \in Nodes :
             Alive(m) /\ Alive(n) /\ mAliveName[m] = mAliveName[n] => m = n

(* A node that finds its name taken at its second attempt has a rival.     *)
TakenByRivals ==
  \A n \in Nodes : state[n] = "again" /\ Registered(n) => cause[n] # "none"

Inv ==
  /\ Total /\ TypeOK /\ Located /\ ListenersApart /\ NamesApart /\ TakenByRivals
  /\ StartedNodesAreKnown /\ TakenNamesAreOvercome

LEMMA InitInv == Init => Inv
<1> SUFFICES ASSUME Init PROVE Inv
  OBVIOUS
<1>1. DOMAIN epmd = {}
  BY DEF Init
<1>2. Total /\ TypeOK
  BY <1>1 DEF Init, Total, TypeOK, Alive
<1>3. Located /\ ListenersApart /\ NamesApart /\ TakenByRivals
  BY <1>1 DEF Init, Located, ListenersApart, NamesApart, TakenByRivals, Alive
<1> QED
  BY <1>2, <1>3 DEF Init, Inv, StartedNodesAreKnown, TakenNamesAreOvercome

(* setListening() leaves the node on a port of its own.                    *)
LEMMA SetListeningEffect ==
  ASSUME Inv, NEW n \in Nodes, Alive(n), SetListening(n)
  PROVE  /\ mListening' \in [Nodes -> BOOLEAN] /\ DOMAIN socket' = Nodes
         /\ mListening'[n] /\ socket'[n] # 0
         /\ \A m \in Nodes \ {n} : mListening'[m] = mListening[m] /\ socket'[m] = socket[m]
         /\ ListenersApart'
<1>1. /\ mListening' \in [Nodes -> BOOLEAN] /\ mListening'[n]
      /\ \A m \in Nodes \ {n} : mListening'[m] = mListening[m]
  BY DEF Inv, Total, SetListening
<1>2. /\ DOMAIN socket' = Nodes /\ socket'[n] # 0
      /\ \A m \in Nodes \ {n} : socket'[m] = socket[m]
      /\ \/ socket[n] # 0 /\ socket'[n] = socket[n]
         \/ \A m \in Nodes : socket[m] # socket'[n]
  BY DEF Inv, Total, SetListening, Unused
<1>3. \A m \in Nodes \ {n} : mListening[m] => socket[m] # socket'[n]
  BY <1>2 DEF Inv, TypeOK, SetListening, Listens
<1>4. ListenersApart'
  BY <1>1, <1>2, <1>3 DEF Inv, ListenersApart
<1> QED
  BY <1>1, <1>2, <1>4

(* The constructor makes a new node, which nobody knows yet.               *)
LEMMA ConstructInv ==
  ASSUME Inv, NEW n \in Nodes, NEW id \in NodeIds, Construct(n, id)
  PROVE  Inv'
<1> DEFINE alive == AliveOf(WithoutPort(NodeName(id)))
           host == HostOf(WithoutPort(NodeName(id)))
<1>1. alive \in Seq(Words) /\ host \in Seq(Words) /\ ~Has(alive, "@")
  BY PartsOfNames
<1>2. /\ state[n] = "none" /\ state' = [state EXCEPT ![n] = "created"]
      /\ DOMAIN socket' = Nodes /\ \A m \in Nodes \ {n} : socket'[m] = socket[m]
      /\ DOMAIN mPort' = Nodes /\ \A m \in Nodes \ {n} : mPort'[m] = mPort[m]
      /\ mAliveName' = [mAliveName EXCEPT ![n] = alive]
      /\ mHostName' = [mHostName EXCEPT ![n] = host]
      /\ mNodeName' = [mNodeName EXCEPT ![n] = Full(alive, host)]
      /\ duel' = (duel \/ \E m \in Nodes : Alive(m) /\ mAliveName[m] = alive)
      /\ UNCHANGED <<mListening, cause, epmd>>
  BY DEF Construct, Goto, Inv, Total
<1> HIDE DEF alive, host
<1>3. ~mListening[n]
  BY <1>2 DEF Inv, TypeOK, Alive
<1>4. Total'
  BY <1>1, <1>2 DEF Inv, Total
<1>5. \A a \in DOMAIN epmd : epmd[a].node \in Nodes \ {n}
  BY <1>2 DEF Inv, Located
<1>6. TypeOK'
  BY <1>1, <1>2, <1>3, <1>5 DEF Inv, TypeOK, Total, Alive
<1>7. Located'
  BY <1>2, <1>5 DEF Inv, Located, TypeOK, Total, Alive, Entry
<1>8. ListenersApart'
  BY <1>2, <1>3 DEF Inv, ListenersApart
<1>9. NamesApart'
  <2>1. \A m \in Nodes \ {n} : Alive(m)' = Alive(m) /\ mAliveName'[m] = mAliveName[m]
    BY <1>2 DEF Inv, TypeOK, Total, Alive
  <2>2. mAliveName'[n] = alive
    BY <1>2 DEF Inv, Total
  <2>3. ~duel' => ~duel /\ \A m \in Nodes : Alive(m) => mAliveName[m] # alive
    BY <1>2
  <2> QED
    BY <2>1, <2>2, <2>3 DEF Inv, NamesApart
<1>10. TakenByRivals' /\ StartedNodesAreKnown' /\ TakenNamesAreOvercome'
  BY <1>2 DEF Inv, TakenByRivals, StartedNodesAreKnown, TakenNamesAreOvercome,
              TypeOK, Total, Registered, Entry
<1> QED
  BY <1>4, <1>6, <1>7, <1>8, <1>9, <1>10 DEF Inv

(* A step of a living node that keeps the names, and forgets no entry or   *)
(* only its own name.                                                      *)
Steps(n, s) ==
  /\ Alive(n) /\ s \notin {"none", "invalid", "crashed"} /\ Goto(n, s)
  /\ SetListening(n) \/ UNCHANGED <<mListening, socket>>
  /\ UNCHANGED <<transport, duel>>

LEMMA StepsKeep ==
  ASSUME Inv, NEW n \in Nodes, NEW s \in
           {"created", "publishing", "unpublishing", "again", "started", "failed"},
         Steps(n, s)
  PROVE  /\ Total' /\ ListenersApart' /\ NamesApart'
         /\ state' = [state EXCEPT ![n] = s]
         /\ \A m \in Nodes : Alive(m)' = Alive(m)
         /\ \A m \in Nodes : mListening[m] => mListening'[m]
         /\ \A m \in Nodes :
              /\ Alive(m)' => mNodeName'[m] = Full(mAliveName'[m], mHostName'[m])
                              /\ ~Has(mAliveName'[m], "@")
              /\ mListening'[m] => Alive(m)' /\ socket'[m] # 0
<1>1. /\ state' = [state EXCEPT ![n] = s]
      /\ \A m \in Nodes : Alive(m)' = Alive(m)
  BY DEF Steps, Goto, Inv, TypeOK, Alive
<1>2. /\ mListening' \in [Nodes -> BOOLEAN] /\ DOMAIN socket' = Nodes
      /\ \A m \in Nodes : mListening[m] => mListening'[m]
      /\ \A m \in Nodes : mListening'[m] => Alive(m) /\ socket'[m] # 0
      /\ ListenersApart'
  <2>1. CASE SetListening(n)
    BY <2>1, SetListeningEffect DEF Steps, Inv, TypeOK
  <2>2. CASE UNCHANGED <<mListening, socket>>
    BY <2>2 DEF Inv, Total, TypeOK, ListenersApart
  <2> QED
    BY <2>1, <2>2 DEF Steps
<1>3. Total'
  BY <1>2 DEF Steps, transport, Inv, Total
<1>4. NamesApart'
  BY <1>1 DEF Steps, transport, Inv, NamesApart
<1> QED
  BY <1>1, <1>2, <1>3, <1>4 DEF Steps, transport, Inv, TypeOK

(* ... which epmd does not see,                                            *)
LEMMA UnseenInv ==
  ASSUME Inv, NEW n \in Nodes, NEW s \in
           {"created", "publishing", "unpublishing", "again", "started", "failed"},
         Steps(n, s), UNCHANGED epmd, s \in {"started", "again"} => s = state[n],
         cause' = cause \/ cause' = [cause EXCEPT ![n] = "system"],
         s = "failed" => cause'[n] # "none"
  PROVE  Inv'
<1>1. TypeOK'
  BY StepsKeep DEF Steps, transport, Inv, TypeOK, Located
<1>2. \A m \in Nodes : Registered(m)' = Registered(m) /\ Entry(m)' = Entry(m)
  BY DEF Steps, transport, Registered, Entry
<1>3. Located'
  BY <1>2, StepsKeep DEF Steps, transport, Inv, TypeOK, Located
<1>4. TakenByRivals' /\ TakenNamesAreOvercome'
  BY <1>2, StepsKeep DEF Inv, TypeOK, TakenByRivals, TakenNamesAreOvercome
<1>5. StartedNodesAreKnown'
  BY <1>2, StepsKeep DEF Steps, transport, Inv, TypeOK, StartedNodesAreKnown
<1> QED
  BY <1>1, <1>3, <1>4, <1>5, StepsKeep DEF Inv

(* ... which makes the node known,                                         *)
LEMMA PublishInv ==
  ASSUME Inv, NEW n \in Nodes, Steps(n, "started"), PublishPort(n), cause' = Forestalled(n)
  PROVE  Inv'
<1>1. /\ DOMAIN epmd' = DOMAIN epmd \cup {mAliveName[n]}
      /\ mAliveName[n] \notin DOMAIN epmd
      /\ epmd'[mAliveName[n]] = Entry(n)
      /\ \A a \in DOMAIN epmd : epmd'[a] = epmd[a]
  BY DEF PublishPort, Registered, EntriesWith
<1>2. Entry(n).node = n /\ Entry(n).port = mPort[n]
  BY DEF Entry
<1>3. mListening'[n]
  BY SetListeningEffect DEF PublishPort, Steps
<1>4. UNCHANGED <<mAliveName, mPort, mHostName, duel>>
  BY DEF Steps, transport
<1>5. /\ cause' \in [Nodes -> {"none", "system", "rival"}]
      /\ \A m \in Nodes : cause[m] # "none" => cause'[m] # "none"
      /\ \A m \in Nodes \ {n} :
           mAliveName[m] = mAliveName[n] /\ state[m] = "again" => cause'[m] = "rival"
  BY DEF Forestalled, Inv, TypeOK
<1>6. TypeOK'
  BY <1>1, <1>2, <1>4, <1>5, StepsKeep DEF Inv, TypeOK
<1>7. \A m \in Nodes : Entry(m)' = Entry(m)
  BY <1>4 DEF Entry
<1>8. Located'
  BY <1>1, <1>2, <1>3, <1>4, <1>7, StepsKeep DEF Inv, TypeOK, Located
<1>9. TakenByRivals' /\ TakenNamesAreOvercome'
  BY <1>1, <1>4, <1>5, StepsKeep
     DEF Inv, TypeOK, TakenByRivals, TakenNamesAreOvercome, Registered
<1>10. StartedNodesAreKnown'
  BY <1>1, <1>4, <1>7, StepsKeep DEF Inv, TypeOK, StartedNodesAreKnown, Registered
<1> QED
  BY <1>6, <1>8, <1>9, <1>10, StepsKeep DEF Inv

(* ... and which withdraws its name.                                       *)
LEMMA ForgetInv ==
  ASSUME Inv, NEW n \in Nodes, NEW s \in {"again", "created"},
         Steps(n, s), UnPublishPort(n), UNCHANGED cause
  PROVE  Inv'
<1>1. /\ DOMAIN epmd' = DOMAIN epmd \ {mAliveName[n]}
      /\ \A a \in DOMAIN epmd' : epmd'[a] = epmd[a]
  BY DEF UnPublishPort, Restrict
<1>2. UNCHANGED <<mAliveName, mPort, mHostName, duel>>
  BY DEF Steps, transport
<1>3. TypeOK'
  BY <1>1, <1>2, StepsKeep DEF Inv, TypeOK
<1>4. \A m \in Nodes : Entry(m)' = Entry(m)
  BY <1>2 DEF Entry
<1>5. Located'
  BY <1>1, <1>2, <1>4, StepsKeep DEF Inv, TypeOK, Located
<1>6. TakenByRivals' /\ TakenNamesAreOvercome'
  BY <1>1, <1>2, StepsKeep
     DEF Inv, TypeOK, TakenByRivals, TakenNamesAreOvercome, Registered
<1>7. ASSUME ~duel, NEW m \in Nodes, state'[m] = "started"
      PROVE  mAliveName[m] # mAliveName[n]
  BY <1>7, StepsKeep DEF Steps, Inv, TypeOK, NamesApart, Alive
<1>8. StartedNodesAreKnown'
  BY <1>1, <1>2, <1>4, <1>7, StepsKeep DEF Inv, TypeOK, StartedNodesAreKnown, Registered
<1> QED
  BY <1>3, <1>5, <1>6, <1>8, StepsKeep DEF Inv

(* A process ends: its entry stays or goes.                                *)
LEMMA CrashInv ==
  ASSUME Inv, NEW n \in Nodes, Crash(n)
  PROVE  Inv'
<1>1. /\ Alive(n) /\ state' = [state EXCEPT ![n] = "crashed"]
      /\ socket' = [socket EXCEPT ![n] = 0] /\ mListening' = [mListening EXCEPT ![n] = FALSE]
      /\ UNCHANGED <<mNodeName, mAliveName, mHostName, mPort, cause, duel>>
  BY DEF Crash, Goto, transport
<1>2. /\ DOMAIN epmd' \subseteq DOMAIN epmd
      /\ \A a \in DOMAIN epmd' : epmd'[a] = epmd[a]
      /\ \A a \in DOMAIN epmd : epmd[a].node # n => a \in DOMAIN epmd'
  BY DEF Crash, Restrict
<1>3. Total' /\ ListenersApart'
  BY <1>1 DEF Inv, Total, ListenersApart
<1>4. TypeOK' /\ NamesApart'
  BY <1>1, <1>2 DEF Inv, Total, TypeOK, NamesApart, Alive
<1>5. \A m \in Nodes : Entry(m)' = Entry(m) /\ Entry(m).node = m
  BY <1>1 DEF Entry
<1>6. Located'
  BY <1>1, <1>2, <1>5 DEF Inv, Total, TypeOK, Located, Alive
<1>7. TakenByRivals' /\ TakenNamesAreOvercome'
  BY <1>1, <1>2 DEF Inv, TypeOK, TakenByRivals, TakenNamesAreOvercome, Registered
<1>8. StartedNodesAreKnown'
  BY <1>1, <1>2, <1>5 DEF Inv, TypeOK, StartedNodesAreKnown, Registered
<1> QED
  BY <1>3, <1>4, <1>6, <1>7, <1>8 DEF Inv

(* epmd notices that a process has ended.                                  *)
LEMMA ExpireInv ==
  ASSUME Inv, NEW a \in DOMAIN epmd, Expire(a)
  PROVE  Inv'
<1>1. /\ DOMAIN epmd' = DOMAIN epmd \ {a} /\ state[epmd[a].node] = "crashed"
      /\ \A b \in DOMAIN epmd' : epmd'[b] = epmd[b]
      /\ UNCHANGED <<state, mNodeName, mAliveName, mHostName, mPort, mListening,
                     socket, cause, duel>>
  BY DEF Expire, Restrict, transport
<1>2. Total' /\ TypeOK' /\ ListenersApart' /\ NamesApart'
  BY <1>1 DEF Inv, Total, TypeOK, ListenersApart, NamesApart, Alive
<1>3. \A m \in Nodes : Entry(m)' = Entry(m) /\ Entry(m).node = m
  BY <1>1 DEF Entry
<1>4. Located'
  BY <1>1, <1>3 DEF Inv, Located, Alive
<1>5. TakenByRivals' /\ TakenNamesAreOvercome'
  BY <1>1 DEF Inv, TakenByRivals, TakenNamesAreOvercome, Registered
<1>6. StartedNodesAreKnown'
  BY <1>1, <1>3 DEF Inv, StartedNodesAreKnown, Registered
<1> QED
  BY <1>2, <1>4, <1>5, <1>6 DEF Inv

(* A step that changes only the history of connections, or nothing.        *)
LEMMA QuietInv ==
  ASSUME Inv,
         UNCHANGED <<state, transport, mListening, socket, cause, duel, epmd>>
  PROVE  Inv'
BY DEF transport, Inv, Total, TypeOK, Located, ListenersApart, NamesApart, TakenByRivals,
       StartedNodesAreKnown, TakenNamesAreOvercome, Registered, Entry, Alive

LEMMA NextInv == Inv /\ [Next]_vars => Inv'
<1> SUFFICES ASSUME Inv, [Next]_vars PROVE Inv'
  OBVIOUS
<1> USE DEF Alive
<1>1. ASSUME NEW n \in Nodes, NEW id \in NodeIds, ConstructorThrows(n, id) PROVE Inv'
  <2>1. PICK s \in {"invalid", "crashed"} : state' = [state EXCEPT ![n] = s]
    BY <1>1 DEF ConstructorThrows, Goto
  <2>2. /\ state[n] = "none"
        /\ UNCHANGED <<mNodeName, mAliveName, mHostName, mPort, mListening, socket, cause,
                       duel, epmd>>
    BY <1>1 DEF ConstructorThrows, transport
  <2>3. Total' /\ TypeOK' /\ Located' /\ ListenersApart' /\ NamesApart'
    BY <2>1, <2>2 DEF Inv, Total, TypeOK, Located, ListenersApart, NamesApart, Entry
  <2>4. TakenByRivals' /\ StartedNodesAreKnown' /\ TakenNamesAreOvercome'
    BY <2>1, <2>2 DEF Inv, TypeOK, TakenByRivals, StartedNodesAreKnown,
                      TakenNamesAreOvercome, Registered, Entry
  <2> QED
    BY <2>3, <2>4 DEF Inv
<1>2. ASSUME NEW n \in Nodes, NEW id \in NodeIds, Construct(n, id) PROVE Inv'
  BY <1>2, ConstructInv
<1>3. ASSUME NEW n \in Nodes, StartAcceptor(n) PROVE Inv'
  <2>1. Steps(n, "publishing") /\ UNCHANGED <<epmd, cause>>
    BY <1>3 DEF StartAcceptor, Steps
  <2> QED
    BY <2>1, UnseenInv
<1>4. ASSUME NEW n \in Nodes, Publish(n) PROVE Inv'
  <2>1. CASE PublishPort(n) /\ Goto(n, "started") /\ cause' = Forestalled(n)
    <3>1. Steps(n, "started")
      BY <1>4, <2>1 DEF Publish, PublishPort, Steps
    <3> QED
      BY <2>1, <3>1, PublishInv
  <2>2. CASE /\ Registered(n) /\ SetListening(n) /\ UNCHANGED <<epmd, cause>>
             /\ Goto(n, IF state[n] = "publishing" THEN "unpublishing" ELSE "failed")
    <3>1. CASE state[n] = "publishing"
      <4>1. Steps(n, "unpublishing")
        BY <1>4, <2>2, <3>1 DEF Publish, Steps
      <4> QED
        BY <2>2, <4>1, UnseenInv
    <3>2. CASE state[n] = "again"
      <4>1. Steps(n, "failed")
        BY <1>4, <2>2, <3>2 DEF Publish, Steps
      <4>2. cause'[n] # "none"
        BY <2>2, <3>2 DEF Inv, TakenByRivals
      <4> QED
        BY <2>2, <4>1, <4>2, UnseenInv
    <3> QED
      BY <1>4, <3>1, <3>2 DEF Publish
  <2> QED
    BY <1>4, <2>1, <2>2 DEF Publish
<1>5. ASSUME NEW n \in Nodes, PublishFails(n) PROVE Inv'
  <2>1. CASE state[n] = "publishing" /\ Goto(n, "unpublishing") /\ UNCHANGED cause
    <3>1. Steps(n, "unpublishing") /\ UNCHANGED epmd
      BY <1>5, <2>1 DEF PublishFails, Steps
    <3> QED
      BY <2>1, <3>1, UnseenInv
  <2>2. CASE /\ state[n] = "again" /\ Goto(n, "failed")
             /\ cause' = [cause EXCEPT ![n] = "system"]
    <3>1. Steps(n, "failed") /\ UNCHANGED epmd
      BY <1>5, <2>2 DEF PublishFails, Steps
    <3>2. cause'[n] # "none"
      BY <2>2 DEF Inv, TypeOK
    <3> QED
      BY <2>2, <3>1, <3>2, UnseenInv
  <2> QED
    BY <1>5, <2>1, <2>2 DEF PublishFails
<1>6. ASSUME NEW n \in Nodes, UnPublish(n) PROVE Inv'
  <2>1. CASE UnPublishPort(n) /\ Goto(n, "again") /\ UNCHANGED cause
    <3>1. Steps(n, "again")
      BY <1>6, <2>1 DEF UnPublish, Steps
    <3> QED
      BY <2>1, <3>1, ForgetInv
  <2>2. CASE Goto(n, "failed") /\ UNCHANGED epmd /\ cause' = [cause EXCEPT ![n] = "system"]
    <3>1. Steps(n, "failed")
      BY <1>6, <2>2 DEF UnPublish, Steps
    <3>2. cause'[n] # "none"
      BY <2>2 DEF Inv, TypeOK
    <3> QED
      BY <2>2, <3>1, <3>2, UnseenInv
  <2> QED
    BY <1>6, <2>1, <2>2 DEF UnPublish
<1>7. ASSUME NEW n \in Nodes, Withdraw(n) PROVE Inv'
  <2>1. Steps(n, "created")
    BY <1>7 DEF Withdraw, Steps
  <2> QED
    BY <1>7, <2>1, ForgetInv DEF Withdraw
<1>8. ASSUME NEW n \in Nodes, Crash(n) PROVE Inv'
  BY <1>8, CrashInv
<1>9. ASSUME NEW n \in Nodes, Accept(n) PROVE Inv'
  <2>1. Steps(n, state[n]) /\ UNCHANGED <<epmd, cause>>
    BY <1>9 DEF Accept, Steps, Goto, Inv, TypeOK
  <2>2. state[n] \in {"created", "publishing", "unpublishing", "again", "started", "failed"}
    BY <1>9 DEF Accept, Inv, TypeOK
  <2>3. state[n] = "failed" => cause'[n] # "none"
    BY <2>1 DEF Inv, TakenNamesAreOvercome
  <2> QED
    BY <2>1, <2>2, <2>3, UnseenInv
<1>10. ASSUME NEW a \in DOMAIN epmd, Expire(a) PROVE Inv'
  BY <1>10, ExpireInv
<1>11. ASSUME NEW n \in Nodes, NEW name \in Names, SendBuf(n, name) \/ Connect(n, name)
       PROVE  Inv'
  BY <1>11, QuietInv DEF SendBuf, Connect, Handshake
<1>12. CASE UNCHANGED vars
  BY <1>12, QuietInv DEF vars
<1> QED
  BY <1>1, <1>2, <1>3, <1>4, <1>5, <1>6, <1>7, <1>8, <1>9, <1>10, <1>11, <1>12 DEF Next

LEMMA Invariance == Spec => []Inv
BY InitInv, NextInv, PTL DEF Spec

-----------------------------------------------------------------------------
(* Living nodes have full names without a host in the alive name, sockets  *)
(* that listen are bound, and epmd (EITransport.cpp:261) has nodes under   *)
(* their own names.                                                        *)
THEOREM TransportTypes == Spec => []TypeOK
<1>1. Inv => TypeOK
  BY DEF Inv
<1> QED
  BY <1>1, Invariance, PTL

LEMMA PortsLead == Inv => PublishedPortsLeadToTheirNodes
<1> SUFFICES ASSUME Inv, NEW a \in DOMAIN epmd, HasItsPort(epmd[a].node)
             PROVE  {m \in Nodes : Listens(m, epmd[a].port)} = {epmd[a].node}
  BY DEF PublishedPortsLeadToTheirNodes
<1> DEFINE n == epmd[a].node
<1>1. n \in Nodes /\ Alive(n) /\ mListening[n] /\ socket[n] = mPort[n]
  BY DEF HasItsPort, Inv, Located
<1>2. epmd[a].port = mPort[n]
  BY DEF Inv, Located, Entry
<1> HIDE DEF n
<1>3. \A m \in Nodes : Listens(m, epmd[a].port) <=> m = n
  BY <1>1, <1>2 DEF Listens, Inv, ListenersApart
<1> QED
  BY <1>1, <1>3 DEF n

(* publishPort() (EITransport.cpp:261) tells epmd a port on which that     *)
(* node listens and nobody else, if it got the port it asked for.          *)
THEOREM PublishedPorts == Spec => []PublishedPortsLeadToTheirNodes
BY Invariance, PortsLead, PTL

(* startAcceptor() (EpiAutoNode.cpp:180) returns when epmd has the node,   *)
(* and keeps it there while no two living nodes have one name.             *)
THEOREM StartedNodes == Spec => []StartedNodesAreKnown
<1>1. Inv => StartedNodesAreKnown
  BY DEF Inv
<1> QED
  BY <1>1, Invariance, PTL

(* startAcceptor() (EpiAutoNode.cpp:180) throws only when the system fails *)
(* or a rival takes the name between its attempts.                         *)
THEOREM TakenNames == Spec => []TakenNamesAreOvercome
<1>1. Inv => TakenNamesAreOvercome
  BY DEF Inv
<1> QED
  BY <1>1, Invariance, PTL

(* What a node takes for its own is its full name,                         *)
LEMMA KeptIsOwn ==
  ASSUME Inv, NEW n \in Nodes, Alive(n), NEW name \in Names,
         IsSameHost(name, mNodeName[n], mHostName[n])
  PROVE  name = mNodeName[n] /\ AliveOf(name) = mAliveName[n]
<1> DEFINE alive == mAliveName[n]
           host == mHostName[n]
           own == mNodeName[n]
<1>1. /\ alive \in Seq(Words) /\ host \in Seq(Words) /\ ~Has(alive, "@")
      /\ own = Full(alive, host)
  BY DEF Inv, Total, TypeOK
<1>2. name \in Seq(Words)
  BY NamesAssumption
<1> HIDE DEF alive, host, own
<1>3. own \in Seq(Words) /\ Has(own, "@") /\ AliveOf(own) = alive
  BY <1>1, FullIsSpelled, AliveOfFull
<1>4. (IF Has(name, "@") THEN Full(name, host) ELSE name) = Full(own, host)
  BY <1>3 DEF IsSameHost, own, host
<1>5. Has(name, "@")
  <2> DEFINE full == Full(own, host)
  <2>1. full[Len(own) + 1] = "@" /\ Len(full) = Len(own) + 1 + Len(host)
    BY <1>1, <1>3, FullIsSpelled
  <2>2. Len(own) \in Nat /\ Len(host) \in Nat
    BY <1>1, <1>3
  <2>3. ~Has(name, "@") => \A i \in 1 .. Len(name) : name[i] # "@"
    BY <1>2, PositionIsFirst
  <2>4. ~Has(name, "@") => name = full
    BY <1>4
  <2> HIDE DEF full
  <2>5. Len(own) + 1 \in 1 .. Len(full)
    BY <2>1, <2>2
  <2> QED
    BY <2>1, <2>3, <2>4, <2>5
<1>6. name = own
  BY <1>1, <1>2, <1>3, <1>4, <1>5, FullTellsApart
<1> QED
  BY <1>3, <1>6 DEF own, alive

(* ... and its own full name it does take for it.                          *)
LEMMA OwnIsKept ==
  ASSUME NEW n \in Nodes
  PROVE  IsSameHost(mNodeName[n], mNodeName[n], mHostName[n])
BY DEF IsSameHost

LEMMA HandshakeReaches ==
  ASSUME Inv, NEW n \in Nodes, NEW name \in Names, NEW call \in {"connect", "sendBuf"},
         Handshake(n, name, call), call = "sendBuf" => name # mNodeName[n]
  PROVE  ConnectionsReachTheNamedNode'
<1> DEFINE a == AliveOf(name)
<1>1. PICK m \in Nodes :
        /\ Listens(m, epmd[a].port)
        /\ connected' = [from |-> n, to |-> m, name |-> name, call |-> call]
  BY DEF Handshake, Reach
<1>2. a \in DOMAIN epmd /\ UNCHANGED <<state, mNodeName, mPort, socket, duel, epmd>>
  BY DEF Handshake, transport
<1>3. HasItsPort(epmd[a].node) => m = epmd[a].node
  BY <1>1, <1>2, PortsLead DEF PublishedPortsLeadToTheirNodes
<1>4. HasItsPort(epmd[a].node)' = HasItsPort(epmd[a].node)
  BY <1>2 DEF HasItsPort, Alive
<1> QED
  BY <1>1, <1>2, <1>3, <1>4 DEF ConnectionsReachTheNamedNode

LEMMA KeptReaches ==
  ASSUME Inv, NEW n \in Nodes, NEW name \in Names, Alive(n),
         IsSameHost(name, mNodeName[n], mHostName[n]), Reach(n, n, name, "kept"),
         UNCHANGED <<state, transport, mListening, socket, cause, duel, epmd>>
  PROVE  ConnectionsReachTheNamedNode'
<1> DEFINE a == AliveOf(name)
<1>1. connected' = [from |-> n, to |-> n, name |-> name, call |-> "kept"]
  BY DEF Reach
<1>2. UNCHANGED <<state, mNodeName, mPort, socket, duel, epmd>>
  BY DEF transport
<1>3. a = mAliveName[n]
  BY KeptIsOwn
<1>4. ASSUME a \in DOMAIN epmd, HasItsPort(epmd[a].node), ~duel
      PROVE  n = epmd[a].node
  BY <1>3, <1>4 DEF HasItsPort, Inv, Located, NamesApart
<1>5. HasItsPort(epmd[a].node)' = HasItsPort(epmd[a].node)
  BY <1>2 DEF HasItsPort, Alive
<1> QED
  BY <1>1, <1>2, <1>4, <1>5 DEF ConnectionsReachTheNamedNode

(* connect() and sendBuf() (EpiAutoNode.cpp:351, 386) get what is for a    *)
(* name, in whatever form, to the node that epmd knows by it, if it lives  *)
(* and got its port (for what sendBuf() keeps: and shares its name with no *)
(* living node), and sendBuf() does not connect by its node's full name.   *)
THEOREM Connections == Spec => []ConnectionsReachTheNamedNode
<1>1. Init => ConnectionsReachTheNamedNode
  BY DEF Init, ConnectionsReachTheNamedNode
<1>2. Inv /\ ConnectionsReachTheNamedNode /\ [Next]_vars => ConnectionsReachTheNamedNode'
  <2> SUFFICES ASSUME Inv, ConnectionsReachTheNamedNode, [Next]_vars
               PROVE  ConnectionsReachTheNamedNode'
    OBVIOUS
  <2>1. CASE connected' = NoEntry
    BY <2>1 DEF ConnectionsReachTheNamedNode
  <2>2. ASSUME NEW n \in Nodes, NEW name \in Names, SendBuf(n, name)
        PROVE  ConnectionsReachTheNamedNode'
    <3>1. CASE IsSameHost(name, mNodeName[n], mHostName[n])
      BY <2>2, <3>1, KeptReaches DEF SendBuf
    <3>2. CASE ~IsSameHost(name, mNodeName[n], mHostName[n])
      BY <2>2, <3>2, OwnIsKept, HandshakeReaches DEF SendBuf
    <3> QED
      BY <3>1, <3>2
  <2>3. ASSUME NEW n \in Nodes, NEW name \in Names, Connect(n, name)
        PROVE  ConnectionsReachTheNamedNode'
    BY <2>3, HandshakeReaches DEF Connect
  <2>4. CASE UNCHANGED vars
    BY <2>4 DEF vars, transport, ConnectionsReachTheNamedNode, HasItsPort, Alive
  <2> QED
    BY <2>1, <2>2, <2>3, <2>4 DEF Next
<1> QED
  BY <1>1, <1>2, Invariance, PTL DEF Spec
=============================================================================
