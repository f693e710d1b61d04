------------------------------ MODULE LocalNode ------------------------------
(***************************************************************************)
(* The identifiers a node makes (src/src/EpiLocalNode.cpp) and what relies *)
(* on their being unique: the map of mailboxes of an AutoNode, which is    *)
(* ordered by operator< on pids, and ping(), which tells answers apart by  *)
(* a fresh mailbox and a fresh reference (src/src/EpiAutoNode.cpp).        *)
(*                                                                         *)
(* The counters have no mutex: a thread makes an identifier of them, loads *)
(* a counter, stores its successor and tests that in steps of their own,   *)
(* and other threads come in between; a step that resets a counter takes   *)
(* the test before it along.  Only the three words of a reference are      *)
(* advanced in one step.                                                   *)
(* The map has a mutex, so that an operation on it is a step.  Between the *)
(* lookup and the queue of a mailbox, and in the queue, things are as      *)
(* AutoNode and GenericQueue say; here a delivery is one step.             *)
(***************************************************************************)
EXTENDS Integers, FiniteSets, SequencesExt, Functions

CONSTANTS Threads, Boxes,
          MaxPidCount, MaxSerial,  \* 0x7fff, 0x1fff
          PidIds,                  \* 0x40000: the ids an ErlPid tells apart
          MaxPortCount, PortIds,   \* 0xfffffff, and 0x40000: the ids an ErlPort tells apart
          MaxRefId, Words,         \* 0x3ffff, 2^32
          Creations,               \* 4: the creations an identifier tells apart
          NoBox, NoPid, NoRef,
          MaxNodes, MaxPorts, MaxWord, \* bounds: nodes of a process, ports of a
                                   \* node, second word of a reference,
          Overrun,                 \* how far racing threads drive a counter,
          Narrow                   \* and, if TRUE, a node makes ports or it
                                   \* makes pids and references, and threads
                                   \* race for pids of mailboxes, where there
                                   \* is no second node

ASSUME WidthsAssumption ==
  /\ MaxPidCount \in Nat \ {0} /\ MaxSerial \in Nat
  /\ MaxPortCount \in Nat \ {0} /\ MaxRefId \in Nat \ {0}
  /\ {PidIds, PortIds, Words, Creations} \subseteq Nat \ {0}
  /\ MaxPidCount < PidIds

ASSUME BoundsAssumption == Overrun \in Nat /\ Narrow \in BOOLEAN

(* The port counter goes round after a multiple of the ids of ports, 2^28  *)
(* and 2^18 in the source; a node makes fewer references than there are.   *)
ASSUME PortsAssumption == (MaxPortCount + 1) % PortIds = 0
ASSUME RefsAssumption == MaxWord \in Nat /\ MaxWord + 1 < Words

Pids == [id : 0..PidIds - 1, serial : 0..MaxSerial, creation : 0..Creations - 1]

ASSUME NullAssumption == NoBox \notin Boxes /\ NoPid \notin Pids

VARIABLES
  smCreationCounter,     \* of the process
  mCreation, mPidCount, mSerial, mPortCount, mRefId, \* of the node
  mMailBoxes,            \* the map, in the order of its tree: [pid, box] entries
  self, life, inbox,     \* each mailbox: its pid, "unused", "new", "attached",
                         \* "pinged" or "detached", and the answers it holds
  at, box, ref, count,   \* each thread: where it is, its local variables, and
                         \* what it loaded of the counter it advances
  pinging,               \* the call in hand is a ping()
  asked,                 \* the pings a peer has not answered: [pid, ref, call]
  old, ports,            \* history: a pid of an earlier node, ports of this one
  racedPid, racedPort, racedRef, \* history: two threads made identifiers
                         \* of the kind at a time
  wrapped,               \* history: the serial went back to 0
  mixed                  \* history: pids of different serials in the map

counters == <<smCreationCounter, mCreation, mPidCount, mSerial, mPortCount, mRefId>>
mailboxes == <<mMailBoxes, self, life, inbox>>
threads == <<at, box, ref, count, pinging>>
history == <<old, ports, racedPid, racedPort, racedRef, wrapped, mixed>>
vars == <<counters, mailboxes, threads, asked, history>>

-----------------------------------------------------------------------------
(* ErlPid::init(): the fields of a pid keep 18, 13 and 2 bits.             *)
ErlPid(id, serial, creation) ==
  [id |-> id % PidIds, serial |-> serial % (MaxSerial + 1), creation |-> creation % Creations]

(* Mutant of Less: the ids are not compared.                               *)
LessWithoutIds(p, q) ==
  p.serial < q.serial \/ (p.serial = q.serial /\ p.creation < q.creation)

(* operator< of two pids of one node.  The test for a greater id repeats   *)
(* the one for a lesser, so that a greater id does not settle it.          *)
Less(p, q) ==
  \/ p.id < q.id
  \/ p.serial < q.serial
  \/ p.serial = q.serial /\ p.creation < q.creation

(* std::map: where a descent for a key can end in a tree with these        *)
(* entries.  If Less orders them this is one place, and the map finds a    *)
(* key there if it has it; if not, it depends on the shape of the tree.    *)
LowerBound(map, key) ==
  {i \in 1 .. Len(map) + 1 :
     /\ i > 1 => Less(map[i - 1].pid, key)
     /\ i <= Len(map) => ~Less(map[i].pid, key)}

FoundAt(map, key, i) == i <= Len(map) /\ ~Less(key, map[i].pid)

(* Mutant of Erase: the last entry is taken for the end of the map.        *)
EraseBeforeLast(map, key) ==
  {IF FoundAt(map, key, i) /\ i < Len(map) THEN RemoveAt(map, i) ELSE map :
     i \in LowerBound(map, key)}

(* mMailBoxes[key] = b, and erase(key).                                    *)
Assign(map, key, b) ==
  {IF FoundAt(map, key, i) THEN [map EXCEPT ![i].box = b]
   ELSE InsertAt(map, i, [pid |-> key, box |-> b]) : i \in LowerBound(map, key)}

Erase(map, key) ==
  {IF FoundAt(map, key, i) THEN RemoveAt(map, i) ELSE map : i \in LowerBound(map, key)}

(* getMailBox(pid).                                                        *)
GetMailBox(map, key) ==
  {IF FoundAt(map, key, i) THEN map[i].box ELSE NoBox : i \in LowerBound(map, key)}

-----------------------------------------------------------------------------
(* LocalNode::init(): the counters of a new node.                          *)
Counters(creation) ==
  /\ mCreation' = creation /\ smCreationCounter' = creation + 1
  /\ mPidCount' = 1 /\ mSerial' = 0 /\ mPortCount' = 1 /\ mRefId' = <<1, 0, 0>>

Init ==
  /\ smCreationCounter = 1 /\ mCreation = 0
  /\ mPidCount = 1 /\ mSerial = 0 /\ mPortCount = 1 /\ mRefId = <<1, 0, 0>>
  /\ mMailBoxes = <<>>
  /\ self = [b \in Boxes |-> NoPid]
  /\ life = [b \in Boxes |-> "unused"]
  /\ inbox = [b \in Boxes |-> {}]
  /\ at = [t \in Threads |-> "idle"]
  /\ box = [t \in Threads |-> NoBox]
  /\ ref = [t \in Threads |-> NoRef]
  /\ count = [t \in Threads |-> 0]
  /\ pinging = [t \in Threads |-> FALSE]
  /\ asked = {} /\ old = NoPid /\ ports = <<>>
  /\ racedPid = FALSE /\ racedPort = FALSE /\ racedRef = FALSE
  /\ wrapped = FALSE /\ mixed = FALSE

(* Mutant of NewNode: the creation counter is not advanced.                *)
NewNodeSameCreation ==
  /\ \A t \in Threads : at[t] = "idle"
  /\ smCreationCounter < MaxNodes /\ (Narrow => ~racedPid)
  /\ mCreation' = mCreation /\ smCreationCounter' = smCreationCounter + 1
  /\ mPidCount' = 1 /\ mSerial' = 0 /\ mPortCount' = 1 /\ mRefId' = <<1, 0, 0>>
  /\ old' \in {old} \cup Range(self)
  /\ mMailBoxes' = <<>> /\ asked' = {} /\ ports' = <<>>
  /\ self' = [b \in Boxes |-> NoPid]
  /\ life' = [b \in Boxes |-> "unused"]
  /\ inbox' = [b \in Boxes |-> {}]
  /\ racedPid' = FALSE /\ racedPort' = FALSE /\ racedRef' = FALSE
  /\ wrapped' = FALSE /\ mixed' = FALSE
  /\ UNCHANGED threads

(* The node is destroyed with its mailboxes and the process makes another  *)
(* of the same name.  A peer still knows the pid of one of the mailboxes.  *)
NewNode ==
  /\ \A t \in Threads : at[t] = "idle"
  /\ smCreationCounter < MaxNodes /\ (Narrow => ~racedPid)
  /\ Counters(smCreationCounter)
  /\ old' \in {old} \cup Range(self)
  /\ mMailBoxes' = <<>> /\ asked' = {} /\ ports' = <<>>
  /\ self' = [b \in Boxes |-> NoPid]
  /\ life' = [b \in Boxes |-> "unused"]
  /\ inbox' = [b \in Boxes |-> {}]
  /\ racedPid' = FALSE /\ racedPort' = FALSE /\ racedRef' = FALSE
  /\ wrapped' = FALSE /\ mixed' = FALSE
  /\ UNCHANGED threads

-----------------------------------------------------------------------------
(* A thread loads a counter, on its way from one place to the next.        *)
Load(t, counter, from, to) ==
  /\ at[t] = from
  /\ at' = [at EXCEPT ![t] = to]
  /\ count' = [count EXCEPT ![t] = counter]

(* ... and stores the successor.  Bound: Overrun past its greatest value.  *)
Store(t, max, from, to) ==
  /\ at[t] = from /\ count[t] <= max + Overrun
  /\ at' = [at EXCEPT ![t] = to]
  /\ UNCHANGED count

(* What a test after that sees: what was stored, or what others made of it.*)
Tested(t, counter) == {counter, count[t] + 1}

(* The places in createPid(), and in createPort(), once it has its pid or  *)
(* port.                                                                   *)
InCreatePid(t) ==
  at[t] \in {"created", "counting", "counted", "carrying", "carryLoaded", "carried"}
InCreatePort(t) == at[t] \in {"ported", "portCounting", "portCounted"}

(* createPid(), called by itself (b = NoBox), by createMailBox() or by     *)
(* ping().  The pid is made of the counters as they are.                   *)
CreatePid(t, b, p) ==
  /\ at[t] = "idle" /\ (b = NoBox => ~p) /\ (b # NoBox => life[b] = "unused")
  /\ Narrow => /\ ports = <<>>
               /\ \A u \in Threads :
                    InCreatePid(u) => smCreationCounter = 1 /\ NoBox \notin {b, box[u]}
  /\ LET new == ErlPid(mPidCount, mSerial, mCreation)
     IN /\ self' = IF b = NoBox THEN self ELSE [self EXCEPT ![b] = new]
        /\ life' = IF b = NoBox THEN life ELSE [life EXCEPT ![b] = "new"]
  /\ racedPid' = (racedPid \/ \E u \in Threads : InCreatePid(u))
  /\ at' = [at EXCEPT ![t] = "created"]
  /\ box' = [box EXCEPT ![t] = b]
  /\ pinging' = [pinging EXCEPT ![t] = p]
  /\ UNCHANGED <<counters, mMailBoxes, inbox, ref, count, asked, old, ports, racedPort,
                 racedRef, wrapped, mixed>>

(* mPidCount++.                                                            *)
LoadPidCount(t) ==
  /\ Load(t, mPidCount, "created", "counting")
  /\ UNCHANGED <<counters, mailboxes, box, ref, pinging, asked, history>>

StorePidCount(t) ==
  /\ Store(t, MaxPidCount, "counting", "counted")
  /\ mPidCount' = count[t] + 1
  /\ UNCHANGED <<smCreationCounter, mCreation, mSerial, mPortCount, mRefId,
                 mailboxes, box, ref, pinging, asked, history>>

(* The end of createPid(): with the pid to addMailBox(), or to the caller. *)
PidDone(t) ==
  /\ at' = [at EXCEPT ![t] = IF box[t] = NoBox THEN "idle" ELSE "adding"]
  /\ count' = [count EXCEPT ![t] = 0]

(* Mutant of PidsUsedUp: one id too many.                                  *)
PidsUsedUpLate(n) == n > MaxPidCount + 1

PidsUsedUp(n) == n > MaxPidCount

TestPidCount(t) ==
  /\ at[t] = "counted"
  /\ \E n \in Tested(t, mPidCount) :
       IF PidsUsedUp(n)
         THEN /\ mPidCount' = 0
              /\ at' = [at EXCEPT ![t] = "carrying"] /\ UNCHANGED count
         ELSE PidDone(t) /\ UNCHANGED mPidCount
  /\ UNCHANGED <<smCreationCounter, mCreation, mSerial, mPortCount, mRefId,
                 mailboxes, box, ref, pinging, asked, history>>

(* mSerial++.                                                              *)
LoadSerial(t) ==
  /\ Load(t, mSerial, "carrying", "carryLoaded")
  /\ UNCHANGED <<counters, mailboxes, box, ref, pinging, asked, history>>

(* Mutant of StoreSerial: the serial stays.                                *)
StoreSameSerial(t) ==
  /\ Store(t, MaxSerial, "carryLoaded", "carried")
  /\ UNCHANGED <<counters, mailboxes, box, ref, pinging, asked, history>>

StoreSerial(t) ==
  /\ Store(t, MaxSerial, "carryLoaded", "carried")
  /\ mSerial' = count[t] + 1
  /\ UNCHANGED <<smCreationCounter, mCreation, mPidCount, mPortCount, mRefId,
                 mailboxes, box, ref, pinging, asked, history>>

TestSerial(t) ==
  /\ at[t] = "carried"
  /\ \E n \in Tested(t, mSerial) :
       /\ mSerial' = IF n > MaxSerial THEN 0 ELSE mSerial
       /\ wrapped' = (wrapped \/ n > MaxSerial)
  /\ PidDone(t)
  /\ UNCHANGED <<smCreationCounter, mCreation, mPidCount, mPortCount, mRefId,
                 mailboxes, box, ref, pinging, asked, old, ports, racedPid, racedPort,
                 racedRef, mixed>>

(* addMailBox().  A mailbox in the map under the same pid is replaced.     *)
AddMailBox(t) ==
  /\ at[t] = "adding"
  /\ mMailBoxes' \in Assign(mMailBoxes, self[box[t]], box[t])
  /\ mixed' = (mixed \/ \E i, j \in DOMAIN mMailBoxes' :
                          mMailBoxes'[i].pid.serial # mMailBoxes'[j].pid.serial)
  /\ life' = [life EXCEPT ![box[t]] = IF pinging[t] THEN "pinged" ELSE "attached"]
  /\ at' = [at EXCEPT ![t] = IF pinging[t] THEN "boxed" ELSE "idle"]
  /\ box' = IF pinging[t] THEN box ELSE [box EXCEPT ![t] = NoBox]
  /\ UNCHANGED <<counters, self, inbox, ref, count, pinging, asked,
                 old, ports, racedPid, racedPort, racedRef, wrapped>>

(* deattachMailBox() by the owner of the mailbox: eraseByValue() collects  *)
(* the keys of the mailbox, of which there is at most one, and erases them.*)
(* The mailbox of a ping() stays in the map: nobody detaches it.           *)
Detach(t, b) ==
  /\ at[t] = "idle" /\ life[b] = "attached"
  /\ LET keys == {e.pid : e \in {f \in Range(mMailBoxes) : f.box = b}}
     IN IF keys = {} THEN UNCHANGED mMailBoxes
        ELSE \E key \in keys : mMailBoxes' \in Erase(mMailBoxes, key)
  /\ life' = [life EXCEPT ![b] = "detached"]
  /\ inbox' = [inbox EXCEPT ![b] = {}]
  /\ UNCHANGED <<counters, self, threads, asked, history>>

-----------------------------------------------------------------------------
(* createPort(), without a mutex as well; ErlPort keeps the low 18 of the  *)
(* 28 bits.                                                                *)
CreatePort(t) ==
  /\ at[t] = "idle" /\ Len(ports) < MaxPorts
  /\ Narrow => /\ Range(self) = {NoPid} /\ mRefId = <<1, 0, 0>>
               /\ \A u \in Threads : at[u] = "idle" \/ InCreatePort(u)
  /\ ports' = Append(ports, mPortCount % PortIds)
  /\ racedPort' = (racedPort \/ \E u \in Threads : InCreatePort(u))
  /\ at' = [at EXCEPT ![t] = "ported"]
  /\ UNCHANGED <<counters, mailboxes, box, ref, count, pinging, asked,
                 old, racedPid, racedRef, wrapped, mixed>>

(* mPortCount++.                                                           *)
LoadPortCount(t) ==
  /\ Load(t, mPortCount, "ported", "portCounting")
  /\ UNCHANGED <<counters, mailboxes, box, ref, pinging, asked, history>>

StorePortCount(t) ==
  /\ Store(t, MaxPortCount, "portCounting", "portCounted")
  /\ mPortCount' = count[t] + 1
  /\ UNCHANGED <<smCreationCounter, mCreation, mPidCount, mSerial, mRefId,
                 mailboxes, box, ref, pinging, asked, history>>

(* Mutant of PortsUsedUp: it goes round where the ids of ports do, one     *)
(* late.                                                                   *)
PortsUsedUpWithIds(n) == n > PortIds

PortsUsedUp(n) == n > MaxPortCount

TestPortCount(t) ==
  /\ at[t] = "portCounted"
  /\ \E n \in Tested(t, mPortCount) :
       mPortCount' = IF PortsUsedUp(n) THEN 0 ELSE mPortCount
  /\ at' = [at EXCEPT ![t] = "idle"]
  /\ count' = [count EXCEPT ![t] = 0]
  /\ UNCHANGED <<smCreationCounter, mCreation, mPidCount, mSerial, mRefId,
                 mailboxes, box, ref, pinging, asked, history>>

(* Mutant of NextRef: no carry into the second word.                       *)
NextRefWithoutCarry(r) == <<IF r[1] + 1 > MaxRefId THEN 0 ELSE r[1] + 1, r[2], r[3]>>

(* createRef(): the three words of a reference are one number.             *)
NextRef(r) ==
  IF r[1] + 1 <= MaxRefId THEN <<r[1] + 1, r[2], r[3]>>
  ELSE <<0, (r[2] + 1) % Words,
         IF (r[2] + 1) % Words = 0 THEN (r[3] + 1) % Words ELSE r[3]>>

(* createRef(), by itself or in ping().  What the words can be while       *)
(* threads race, between a carry and the next, is left out: of racing      *)
(* threads no property asks more than that they share references.          *)
CreateRef(t) ==
  /\ at[t] \in {"idle", "boxed"} /\ mRefId[2] <= MaxWord
  /\ Narrow => ports = <<>>
  /\ ref' = [ref EXCEPT ![t] = mRefId]
  /\ racedRef' = (racedRef \/ \E u \in Threads : at[u] = "referred")
  /\ at' = [at EXCEPT ![t] = "referred"]
  /\ UNCHANGED <<counters, mailboxes, box, count, pinging, asked, old, ports,
                 racedPid, racedPort, wrapped, mixed>>

(* The rest of createRef().  In ping(), the question then goes out.        *)
AdvanceRef(t) ==
  /\ at[t] = "referred"
  /\ \E r \in {mRefId, ref[t]} : mRefId' = NextRef(r)
  /\ IF pinging[t]
       THEN /\ asked' = asked \cup {[pid |-> self[box[t]], ref |-> ref[t], call |-> box[t]]}
            /\ at' = [at EXCEPT ![t] = "waiting"]
            /\ UNCHANGED ref
       ELSE /\ at' = [at EXCEPT ![t] = "idle"]
            /\ ref' = [ref EXCEPT ![t] = NoRef]
            /\ UNCHANGED asked
  /\ UNCHANGED <<smCreationCounter, mCreation, mPidCount, mSerial, mPortCount,
                 mailboxes, box, count, pinging, history>>

(* The peer answers {Ref, yes} to the pid, however late.                   *)
Answer(question) ==
  /\ question \in asked /\ asked' = asked \ {question}
  /\ \E b \in GetMailBox(mMailBoxes, question.pid) :
       inbox' = IF b = NoBox THEN inbox
                ELSE [inbox EXCEPT ![b] = @ \cup {question}]
  /\ UNCHANGED <<counters, mMailBoxes, self, life, threads, history>>

(* The end of ping(): an answer with its reference, or 0 when the time is  *)
(* up or there was no connection.                                          *)
PingEnds(t) ==
  /\ at' = [at EXCEPT ![t] = "idle"]
  /\ box' = [box EXCEPT ![t] = NoBox]
  /\ ref' = [ref EXCEPT ![t] = NoRef]
  /\ pinging' = [pinging EXCEPT ![t] = FALSE]
  /\ UNCHANGED <<counters, mMailBoxes, self, life, count, asked, history>>

Pong(t, answer) ==
  /\ at[t] = "waiting" /\ answer \in inbox[box[t]] /\ answer.ref = ref[t]
  /\ inbox' = [inbox EXCEPT ![box[t]] = @ \ {answer}]
  /\ PingEnds(t)

Pang(t) == at[t] = "waiting" /\ UNCHANGED inbox /\ PingEnds(t)

Next ==
  \/ NewNode
  \/ \E t \in Threads, b \in Boxes \cup {NoBox}, p \in BOOLEAN : CreatePid(t, b, p)
  \/ \E t \in Threads :
       \/ LoadPidCount(t) \/ StorePidCount(t) \/ TestPidCount(t)
       \/ LoadSerial(t) \/ StoreSerial(t) \/ TestSerial(t)
       \/ CreatePort(t) \/ LoadPortCount(t) \/ StorePortCount(t) \/ TestPortCount(t)
       \/ AddMailBox(t) \/ CreateRef(t) \/ AdvanceRef(t) \/ Pang(t)
       \/ \E b \in Boxes : Detach(t, b)
       \/ \E b \in Boxes : \E answer \in inbox[b] : Pong(t, answer)
  \/ \E question \in asked : Answer(question)

Spec == Init /\ [][Next]_vars

-----------------------------------------------------------------------------
(* Pids keep to the bits of their fields, and as long as no two threads    *)
(* were in createPid() at a time to those of the counters: no pid is made  *)
(* of a counter past its test.  Mailboxes and threads are in one of their  *)
(* stages.                                                                 *)
TypeOK ==
  /\ {mPidCount, mSerial, mPortCount, mCreation, smCreationCounter} \subseteq Nat
  /\ self \in [Boxes -> Pids \cup {NoPid}]
  /\ ~racedPid => /\ \A b \in Boxes : self[b] # NoPid => self[b].id <= MaxPidCount
                  /\ (\A t \in Threads : ~InCreatePid(t)) =>
                       mPidCount <= MaxPidCount /\ mSerial <= MaxSerial
  /\ life \in [Boxes -> {"unused", "new", "attached", "pinged", "detached"}]
  /\ at \in [Threads -> {"idle", "created", "counting", "counted", "carrying",
                         "carryLoaded", "carried", "adding", "boxed", "referred",
                         "waiting", "ported", "portCounting", "portCounted"}]
  /\ box \in [Threads -> Boxes \cup {NoBox}]
  /\ count \in [Threads -> Nat]
  /\ racedPid \in BOOLEAN /\ racedPort \in BOOLEAN /\ wrapped \in BOOLEAN

(* Two mailboxes of a node have different pids, as long as no two threads  *)
(* were in createPid() at a time and the serial has not come round.        *)
PidsAreUnique ==
  ~racedPid /\ ~wrapped
  => \A b, c \in Boxes : self[b] = self[c] /\ self[b] # NoPid => b = c

(* A mailbox that is attached is found by its pid, whatever the shape of   *)
(* the tree, as long as pids are unique and of one serial.                 *)
EveryMailBoxIsFound ==
  ~racedPid /\ ~wrapped /\ ~mixed
  => \A b \in Boxes : life[b] \in {"attached", "pinged"} => GetMailBox(mMailBoxes, self[b]) = {b}

(* deattachMailBox() leaves nothing of a mailbox in the map, even where    *)
(* threads raced for its pid, as long as the pids are of one serial.       *)
DetachedMailBoxesAreForgotten ==
  ~mixed => \A i \in DOMAIN mMailBoxes : life[mMailBoxes[i].box] \in {"attached", "pinged"}

(* A pid of an earlier node of the process finds no mailbox of this one,   *)
(* until the creations come round.                                         *)
StalePidsFindNothing ==
  smCreationCounter <= Creations /\ old # NoPid => GetMailBox(mMailBoxes, old) = {NoBox}

(* A port comes back only after all the ids of ports, as long as no two    *)
(* threads were in createPort() at a time: two that are get the same port  *)
(* at once, though each is promised a "unique port" (EpiLocalNode.hpp:85). *)
PortsComeBackLate ==
  ~racedPort =>
    \A i, j \in DOMAIN ports : ports[i] = ports[j] /\ i < j => j - i >= PortIds

(* ping() takes no answer to another ping for its own, even if it shares   *)
(* its pid, or its reference, with that one; not both.                     *)
PongsAreOwn ==
  [][\A t \in Threads : \A b \in Boxes : \A answer \in inbox[b] :
       Pong(t, answer) /\ ~(racedRef /\ (racedPid \/ wrapped)) => answer.call = box[t]]_vars
=============================================================================
