-------------------------- MODULE LocalNode_proofs --------------------------
(***************************************************************************)
(* Proofs about the pids, ports and references a node makes, the map that  *)
(* is ordered by its pids, and the pings that go by both, for counters of  *)
(* every width and any number of threads and mailboxes.                    *)
(***************************************************************************)
EXTENDS LocalNode, SequenceLemmas

(* While no two threads were in createPid() at a time, the one that is     *)
(* there knows the counters: it steps them by one, and a counter is past   *)
(* its greatest value only between the store and the test.                 *)
InHand ==
  ~racedPid => \A t \in Threads : InCreatePid(t) =>
    /\ \A u \in Threads : InCreatePid(u) => u = t
    /\ at[t] \in {"created", "counting"} => mPidCount <= MaxPidCount
    /\ at[t] = "counting" => count[t] = mPidCount
    /\ at[t] = "counted" => mPidCount = count[t] + 1
    /\ at[t] # "carried" => mSerial <= MaxSerial
    /\ at[t] \in {"carrying", "carryLoaded", "carried"} => mPidCount = 0
    /\ at[t] = "carryLoaded" => count[t] = mSerial
    /\ at[t] = "carried" => mSerial = count[t] + 1

(* The pid was made before the counters came to these values.              *)
Earlier(p, n, serial) ==
  p.serial < serial \/ (p.serial = serial /\ p.id < n)

(* Every mailbox has an earlier pid than the one to come, but while a      *)
(* thread has still to advance the counters, or to carry.                  *)
Given ==
  ~racedPid /\ ~wrapped =>
    \A b \in Boxes : self[b] # NoPid =>
      \/ Earlier(self[b], mPidCount, mSerial)
      \/ /\ self[b].serial = mSerial /\ self[b].id = mPidCount
         /\ \E t \in Threads : at[t] \in {"created", "counting"}
      \/ /\ self[b].serial = mSerial
         /\ \E t \in Threads : at[t] \in {"carrying", "carryLoaded"}

Inv == TypeOK /\ InHand /\ Given /\ PidsAreUnique

-----------------------------------------------------------------------------
(* A pid keeps to its bits, and is made of the counters as they are unless *)
(* they are past their tests.                                              *)
LEMMA PidIsPid ==
  ASSUME NEW i \in Nat, NEW s \in Nat, NEW c \in Nat
  PROVE  /\ ErlPid(i, s, c) \in Pids
         /\ i <= MaxPidCount /\ s <= MaxSerial =>
              ErlPid(i, s, c).id = i /\ ErlPid(i, s, c).serial = s
<1>1. /\ PidIds \in Nat \ {0} /\ MaxSerial + 1 \in Nat \ {0} /\ Creations \in Nat \ {0}
      /\ MaxPidCount \in Nat /\ MaxPidCount < PidIds
  BY WidthsAssumption
<1>2. /\ i % PidIds \in 0..PidIds - 1 /\ c % Creations \in 0..Creations - 1
      /\ s % (MaxSerial + 1) \in 0..(MaxSerial + 1) - 1
  BY <1>1
<1>3. ErlPid(i, s, c) \in Pids
  <2>1. s % (MaxSerial + 1) \in 0..MaxSerial
    BY <1>1, <1>2, WidthsAssumption
  <2> QED
    BY <1>2, <2>1 DEF ErlPid, Pids
<1>4. i <= MaxPidCount => i % PidIds = i
  BY <1>1
<1>5. s <= MaxSerial => s % (MaxSerial + 1) = s
  BY <1>1, WidthsAssumption
<1> QED
  BY <1>3, <1>4, <1>5 DEF ErlPid

LEMMA PidFields == \A p \in Pids : p.id \in Nat /\ p.serial \in Nat /\ p.creation \in Nat
BY WidthsAssumption DEF Pids

(* The first state, and the first of a later node, satisfy the invariant.  *)
LEMMA InitInv == Init => Inv
<1> SUFFICES ASSUME Init PROVE Inv
  OBVIOUS
<1>1. mPidCount <= MaxPidCount /\ mSerial <= MaxSerial
  BY WidthsAssumption DEF Init
<1>2. TypeOK
  <2>1. {mPidCount, mSerial, mPortCount, mCreation, smCreationCounter} \subseteq Nat
    BY DEF Init
  <2> QED
    BY <1>1, <2>1 DEF Init, TypeOK
<1>3. InHand /\ Given /\ PidsAreUnique
  BY DEF Init, InHand, InCreatePid, Given, PidsAreUnique
<1> QED
  BY <1>2, <1>3 DEF Inv

LEMMA NewNodeInv == Inv /\ NewNode => Inv'
<1> SUFFICES ASSUME Inv, NewNode PROVE Inv'
  OBVIOUS
<1>1. /\ mPidCount' \in Nat /\ mSerial' \in Nat /\ mPortCount' \in Nat
      /\ mPidCount' <= MaxPidCount /\ mSerial' <= MaxSerial
  BY WidthsAssumption DEF NewNode, Counters
<1>2. mCreation' \in Nat /\ smCreationCounter' \in Nat
  BY DEF Inv, TypeOK, NewNode, Counters
<1>3. TypeOK'
  <2>1. {mPidCount', mSerial', mPortCount', mCreation', smCreationCounter'} \subseteq Nat
    BY <1>1, <1>2
  <2> QED
    BY <1>1, <2>1 DEF Inv, TypeOK, NewNode, threads
<1>4. InHand' /\ Given' /\ PidsAreUnique'
  BY DEF NewNode, InHand, InCreatePid, Given, PidsAreUnique, threads, Inv
<1> QED
  BY <1>3, <1>4 DEF Inv

(* The first step of createPid(): the new pid is made of the counters, and *)
(* no mailbox has it unless another thread was in between.                 *)
LEMMA CreatePidInv ==
  ASSUME NEW t \in Threads, NEW b \in Boxes \cup {NoBox}, NEW p \in BOOLEAN
  PROVE  Inv /\ CreatePid(t, b, p) => Inv'
<1> SUFFICES ASSUME Inv, CreatePid(t, b, p) PROVE Inv'
  OBVIOUS
<1> DEFINE new == ErlPid(mPidCount, mSerial, mCreation)
<1>1. /\ new \in Pids
      /\ mPidCount <= MaxPidCount /\ mSerial <= MaxSerial =>
           new.id = mPidCount /\ new.serial = mSerial
  BY PidIsPid DEF Inv, TypeOK
<1>2. /\ at' = [at EXCEPT ![t] = "created"] /\ at[t] = "idle"
      /\ self' = IF b = NoBox THEN self ELSE [self EXCEPT ![b] = new]
      /\ life' = IF b = NoBox THEN life ELSE [life EXCEPT ![b] = "new"]
      /\ box' = [box EXCEPT ![t] = b]
      /\ racedPid' = (racedPid \/ \E u \in Threads : InCreatePid(u))
      /\ UNCHANGED <<smCreationCounter, mCreation, mPidCount, mSerial, mPortCount, count,
                   racedPort, wrapped>>
  BY DEF CreatePid, counters
<1> HIDE DEF new
<1>3. ASSUME ~racedPid'
      PROVE  /\ ~racedPid /\ \A u \in Threads : ~InCreatePid(u)
             /\ mPidCount <= MaxPidCount /\ mSerial <= MaxSerial
             /\ new.id = mPidCount /\ new.serial = mSerial
  BY <1>1, <1>2, <1>3 DEF Inv, TypeOK
<1>4. /\ at'[t] = "created" /\ \A u \in Threads : u # t => at'[u] = at[u]
      /\ \A c \in Boxes : self'[c] = self[c] \/ (c = b /\ self'[c] = new)
  BY <1>2 DEF Inv, TypeOK
<1>5. TypeOK'
  <2>1. InCreatePid(t)'
    BY <1>4 DEF InCreatePid
  <2>2. ASSUME ~racedPid', NEW c \in Boxes, self'[c] # NoPid
        PROVE  self'[c].id <= MaxPidCount
    BY <1>3, <1>4, <2>2 DEF Inv, TypeOK
  <2>3. self' \in [Boxes -> Pids \cup {NoPid}]
    BY <1>1, <1>2 DEF Inv, TypeOK
  <2>4. racedPid' \in BOOLEAN
    BY <1>2 DEF Inv, TypeOK
  <2> QED
    BY <1>2, <2>1, <2>2, <2>3, <2>4 DEF Inv, TypeOK
<1>6. InHand'
  <2> SUFFICES ASSUME ~racedPid', NEW u \in Threads, InCreatePid(u)'
               PROVE  /\ u = t /\ mPidCount' <= MaxPidCount /\ mSerial' <= MaxSerial
                      /\ at'[u] = "created"
    BY DEF InHand
  <2>1. u = t
    BY <1>3, <1>4 DEF InCreatePid
  <2> QED
    BY <1>2, <1>3, <1>4, <2>1
<1>7. ASSUME ~racedPid', ~wrapped'
      PROVE  \A c \in Boxes : self[c] # NoPid => Earlier(self[c], mPidCount, mSerial)
  BY <1>2, <1>3, <1>7 DEF Inv, Given, InCreatePid
<1>8. Given'
  <2> SUFFICES ASSUME ~racedPid', ~wrapped', NEW c \in Boxes, self'[c] # NoPid
               PROVE  \/ Earlier(self'[c], mPidCount', mSerial')
                      \/ /\ self'[c].serial = mSerial' /\ self'[c].id = mPidCount'
                         /\ at'[t] = "created"
    BY DEF Given, Earlier
  <2>1. CASE self'[c] = new
    BY <1>2, <1>3, <1>4, <2>1
  <2>2. CASE self'[c] = self[c]
    BY <2>2, <1>2, <1>7 DEF Earlier
  <2> QED
    BY <1>4, <2>1, <2>2
<1>9. PidsAreUnique'
  <2> SUFFICES ASSUME ~racedPid', ~wrapped', NEW c \in Boxes, NEW d \in Boxes,
                      self'[c] = self'[d], self'[c] # NoPid, c # d
               PROVE  FALSE
    BY DEF PidsAreUnique
  <2>1. ASSUME NEW e \in Boxes, self[e] # NoPid PROVE self[e] # new
    <3>1. Earlier(self[e], mPidCount, mSerial)
      BY <1>7, <2>1
    <3>2. mPidCount \in Nat /\ mSerial \in Nat
      BY DEF Inv, TypeOK
    <3>3. ~Earlier(new, mPidCount, mSerial)
      BY <1>3, <3>2 DEF Earlier
    <3> QED
      BY <3>1, <3>3
  <2>2. ~racedPid /\ ~wrapped
    BY <1>2, <1>3
  <2> QED
    BY <1>4, <2>1, <2>2 DEF Inv, PidsAreUnique
<1> QED
  BY <1>5, <1>6, <1>8, <1>9 DEF Inv

-----------------------------------------------------------------------------
(* The rest of createPid(), and createPort().                              *)
Counting(t) ==
  \/ LoadPidCount(t) \/ StorePidCount(t) \/ TestPidCount(t)
  \/ LoadSerial(t) \/ StoreSerial(t) \/ TestSerial(t)

Porting(t) ==
  CreatePort(t) \/ LoadPortCount(t) \/ StorePortCount(t) \/ TestPortCount(t)

PortStages == {"idle", "ported", "portCounting", "portCounted"}

(* The rest of createPid() is about the counters of pids and nothing else. *)
LEMMA CountingEffect ==
  ASSUME TypeOK, NEW t \in Threads, Counting(t)
  PROVE  /\ UNCHANGED <<smCreationCounter, mCreation, mPortCount, mRefId, mMailBoxes, self,
                        life, inbox, box, ref, pinging, asked, old, ports, racedPid,
                        racedPort, racedRef, mixed>>
         /\ mPidCount' \in Nat /\ mSerial' \in Nat /\ count' \in [Threads -> Nat]
         /\ wrapped' \in BOOLEAN /\ (~wrapped' => ~wrapped)
         /\ InCreatePid(t) /\ \E place \in {"counting", "counted", "carrying", "carryLoaded",
                                            "carried", "idle", "adding"} :
              /\ at' = [at EXCEPT ![t] = place]
              /\ place = "idle" => box[t] = NoBox
              /\ place = "adding" => box[t] # NoBox
         /\ \A u \in Threads : u # t => count'[u] = count[u]
<1> USE DEF TypeOK, InCreatePid, counters, mailboxes, history
<1>1. CASE LoadPidCount(t)
  BY <1>1 DEF LoadPidCount, Load
<1>2. CASE StorePidCount(t)
  BY <1>2 DEF StorePidCount, Store
<1>3. CASE TestPidCount(t)
  <2>1. PICK n \in Tested(t, mPidCount) :
          IF PidsUsedUp(n)
            THEN mPidCount' = 0 /\ at' = [at EXCEPT ![t] = "carrying"] /\ UNCHANGED count
            ELSE PidDone(t) /\ UNCHANGED mPidCount
    BY <1>3 DEF TestPidCount
  <2> QED
    BY <1>3, <2>1 DEF TestPidCount, PidDone
<1>4. CASE LoadSerial(t)
  BY <1>4 DEF LoadSerial, Load
<1>5. CASE StoreSerial(t)
  BY <1>5 DEF StoreSerial, Store
<1>6. CASE TestSerial(t)
  <2>1. PICK n \in Tested(t, mSerial) :
          /\ mSerial' = IF n > MaxSerial THEN 0 ELSE mSerial
          /\ wrapped' = (wrapped \/ n > MaxSerial)
    BY <1>6 DEF TestSerial
  <2> QED
    BY <1>6, <2>1 DEF TestSerial, PidDone
<1> QED
  BY <1>1, <1>2, <1>3, <1>4, <1>5, <1>6 DEF Counting

LEMMA PortingEffect ==
  ASSUME TypeOK, NEW t \in Threads, Porting(t)
  PROVE  /\ UNCHANGED <<smCreationCounter, mCreation, mPidCount, mSerial, mRefId, mMailBoxes,
                        self, life, inbox, box, ref, pinging, asked, old, racedPid, racedRef,
                        wrapped, mixed>>
         /\ mPortCount' \in Nat /\ count' \in [Threads -> Nat] /\ racedPort' \in BOOLEAN
         /\ at[t] \in PortStages /\ \E place \in PortStages : at' = [at EXCEPT ![t] = place]
         /\ \A u \in Threads : u # t => count'[u] = count[u]
<1> USE DEF TypeOK, PortStages, counters, mailboxes, history
<1>1. CASE CreatePort(t)
  BY <1>1 DEF CreatePort
<1>2. CASE LoadPortCount(t)
  <2>1. mPortCount \in Nat
    OBVIOUS
  <2> QED
    BY <1>2, <2>1 DEF LoadPortCount, Load
<1>3. CASE StorePortCount(t)
  BY <1>3 DEF StorePortCount, Store
<1>4. CASE TestPortCount(t)
  BY <1>4 DEF TestPortCount
<1> QED
  BY <1>1, <1>2, <1>3, <1>4 DEF Porting

(* What that is to the pids.  A thread that is alone in createPid() leaves *)
(* it with the counters within their greatest values and later than every  *)
(* pid there is.                                                           *)
LEMMA CountingInv ==
  ASSUME NEW t \in Threads
  PROVE  Inv /\ Counting(t) => Inv'
<1> SUFFICES ASSUME Inv, Counting(t) PROVE Inv'
  OBVIOUS
<1>1. /\ UNCHANGED <<smCreationCounter, mCreation, mPortCount, self, life, box, racedPid,
                     racedPort>>
      /\ mPidCount' \in Nat /\ mSerial' \in Nat /\ count' \in [Threads -> Nat]
      /\ wrapped' \in BOOLEAN /\ (~wrapped' => ~wrapped) /\ InCreatePid(t)
      /\ \A u \in Threads : u # t => at'[u] = at[u]
      /\ at' \in [Threads -> {"idle", "created", "counting", "counted", "carrying",
                              "carryLoaded", "carried", "adding", "boxed", "referred",
                              "waiting", "ported", "portCounting", "portCounted"}]
  BY CountingEffect DEF Inv, TypeOK
<1>2. ASSUME ~racedPid
      PROVE  /\ \A u \in Threads : InCreatePid(u)' => u = t
             /\ InCreatePid(t)' =>
                  /\ at'[t] \in {"created", "counting"} => mPidCount' <= MaxPidCount
                  /\ at'[t] = "counting" => count'[t] = mPidCount'
                  /\ at'[t] = "counted" => mPidCount' = count'[t] + 1
                  /\ at'[t] # "carried" => mSerial' <= MaxSerial
                  /\ at'[t] \in {"carrying", "carryLoaded", "carried"} => mPidCount' = 0
                  /\ at'[t] = "carryLoaded" => count'[t] = mSerial'
                  /\ at'[t] = "carried" => mSerial' = count'[t] + 1
             /\ ~InCreatePid(t)' => mPidCount' <= MaxPidCount /\ mSerial' <= MaxSerial
             /\ ~wrapped' => \A b \in Boxes : self[b] # NoPid =>
                  \/ Earlier(self[b], mPidCount', mSerial')
                  \/ /\ self[b].serial = mSerial' /\ self[b].id = mPidCount'
                     /\ at'[t] = "counting"
                  \/ self[b].serial = mSerial' /\ at'[t] \in {"carrying", "carryLoaded"}
  <2>1. \A u \in Threads : InCreatePid(u) => u = t
    BY <1>1, <1>2 DEF Inv, InHand
  <2>2. \A u \in Threads : InCreatePid(u)' => u = t
    BY <1>1, <2>1 DEF InCreatePid
  <2>3. /\ at[t] \in {"created", "counting"} => mPidCount <= MaxPidCount
        /\ at[t] = "counting" => count[t] = mPidCount
        /\ at[t] = "counted" => mPidCount = count[t] + 1
        /\ at[t] # "carried" => mSerial <= MaxSerial
        /\ at[t] \in {"carrying", "carryLoaded", "carried"} => mPidCount = 0
        /\ at[t] = "carryLoaded" => count[t] = mSerial
        /\ at[t] = "carried" => mSerial = count[t] + 1
    BY <1>1, <1>2 DEF Inv, InHand
  <2>4. ASSUME ~wrapped, NEW b \in Boxes, self[b] # NoPid
        PROVE  \/ Earlier(self[b], mPidCount, mSerial)
               \/ /\ self[b].serial = mSerial /\ self[b].id = mPidCount
                  /\ at[t] \in {"created", "counting"}
               \/ self[b].serial = mSerial /\ at[t] \in {"carrying", "carryLoaded"}
    <3>1. \A u \in Threads : at[u] \in {"created", "counting", "carrying", "carryLoaded"} => u = t
      BY <2>1 DEF InCreatePid
    <3> QED
      BY <1>2, <2>4, <3>1 DEF Inv, Given
  <2>5. \A b \in Boxes : self[b] # NoPid => self[b].id \in Nat /\ self[b].serial \in Nat
    BY PidFields DEF Inv, TypeOK
  <2>6. mPidCount \in Nat /\ mSerial \in Nat /\ count \in [Threads -> Nat] /\ t \in DOMAIN at
    BY DEF Inv, TypeOK
  <2>7. CASE LoadPidCount(t)
    <3>1. /\ at[t] = "created" /\ at'[t] = "counting" /\ count'[t] = mPidCount
          /\ UNCHANGED <<mPidCount, mSerial, wrapped>>
      BY <2>6, <2>7 DEF LoadPidCount, Load, counters, history
    <3> QED
      BY <2>2, <2>3, <2>4, <3>1 DEF InCreatePid, Earlier
  <2>8. CASE StorePidCount(t)
    <3>1. /\ at[t] = "counting" /\ at'[t] = "counted" /\ count'[t] = count[t]
          /\ mPidCount' = mPidCount + 1 /\ UNCHANGED <<mSerial, wrapped>>
      BY <2>3, <2>6, <2>8 DEF StorePidCount, Store, history
    <3>2. ASSUME ~wrapped, NEW b \in Boxes, self[b] # NoPid
          PROVE  Earlier(self[b], mPidCount', mSerial')
      BY <2>4, <2>5, <2>6, <3>1, <3>2 DEF Earlier
    <3> QED
      BY <2>2, <2>3, <3>1, <3>2 DEF InCreatePid
  <2>9. CASE TestPidCount(t)
    <3>1. /\ at[t] = "counted" /\ UNCHANGED <<mSerial, wrapped>>
          /\ \/ mPidCount > MaxPidCount /\ mPidCount' = 0 /\ at'[t] = "carrying"
             \/ ~(mPidCount > MaxPidCount) /\ mPidCount' = mPidCount /\ at'[t] \in {"idle", "adding"}
      <4>1. at[t] = "counted" /\ UNCHANGED <<mSerial, wrapped>> /\ Tested(t, mPidCount) = {mPidCount}
        BY <2>3, <2>9 DEF TestPidCount, Tested, history
      <4>2. IF PidsUsedUp(mPidCount)
              THEN mPidCount' = 0 /\ at' = [at EXCEPT ![t] = "carrying"]
              ELSE PidDone(t) /\ UNCHANGED mPidCount
        BY <2>9, <4>1 DEF TestPidCount
      <4> QED
        BY <2>6, <4>1, <4>2 DEF PidsUsedUp, PidDone
    <3>2. ASSUME ~wrapped, NEW b \in Boxes, self[b] # NoPid
          PROVE  Earlier(self[b], mPidCount, mSerial)
      BY <2>4, <3>1, <3>2
    <3>3. CASE mPidCount > MaxPidCount
      <4>1. ASSUME ~wrapped, NEW b \in Boxes, self[b] # NoPid
            PROVE  Earlier(self[b], mPidCount', mSerial') \/ self[b].serial = mSerial'
        BY <3>1, <3>2, <4>1 DEF Earlier
      <4> QED
        BY <2>2, <2>3, <3>1, <3>3, <4>1 DEF InCreatePid
    <3>4. CASE ~(mPidCount > MaxPidCount)
      <4>1. mPidCount' <= MaxPidCount /\ ~InCreatePid(t)'
        BY <2>6, <3>1, <3>4, WidthsAssumption DEF InCreatePid
      <4> QED
        BY <2>2, <2>3, <3>1, <3>2, <3>4, <4>1
    <3> QED
      BY <3>3, <3>4
  <2>10. CASE LoadSerial(t)
    <3>1. /\ at[t] = "carrying" /\ at'[t] = "carryLoaded" /\ count'[t] = mSerial
          /\ UNCHANGED <<mPidCount, mSerial, wrapped>>
      BY <2>6, <2>10 DEF LoadSerial, Load, counters, history
    <3> QED
      BY <2>2, <2>3, <2>4, <3>1 DEF InCreatePid, Earlier
  <2>11. CASE StoreSerial(t)
    <3>1. /\ at[t] = "carryLoaded" /\ at'[t] = "carried" /\ count'[t] = count[t]
          /\ mSerial' = mSerial + 1 /\ UNCHANGED <<mPidCount, wrapped>>
      BY <2>3, <2>6, <2>11 DEF StoreSerial, Store, history
    <3>2. ASSUME ~wrapped, NEW b \in Boxes, self[b] # NoPid
          PROVE  Earlier(self[b], mPidCount', mSerial')
      BY <2>3, <2>4, <2>5, <2>6, <3>1, <3>2 DEF Earlier
    <3> QED
      BY <2>2, <2>3, <3>1, <3>2 DEF InCreatePid
  <2>12. CASE TestSerial(t)
    <3>1. /\ at[t] = "carried" /\ at'[t] \in {"idle", "adding"} /\ UNCHANGED mPidCount
          /\ mSerial' = IF mSerial > MaxSerial THEN 0 ELSE mSerial
          /\ wrapped' = (wrapped \/ mSerial > MaxSerial)
      <4>1. at[t] = "carried" /\ Tested(t, mSerial) = {mSerial}
        BY <2>3, <2>12 DEF TestSerial, Tested
      <4> QED
        BY <2>6, <2>12, <4>1 DEF TestSerial, PidDone
    <3>2. mPidCount' <= MaxPidCount /\ mSerial' <= MaxSerial /\ ~InCreatePid(t)'
      BY <2>3, <2>6, <3>1, WidthsAssumption DEF InCreatePid
    <3>3. ASSUME ~wrapped', NEW b \in Boxes, self[b] # NoPid
          PROVE  Earlier(self[b], mPidCount', mSerial')
      <4>1. mSerial' = mSerial /\ mPidCount' = mPidCount /\ ~wrapped
        BY <3>1, <3>3 DEF Inv, TypeOK
      <4> QED
        BY <2>4, <3>1, <3>3, <4>1
    <3> QED
      BY <2>2, <3>2, <3>3
  <2> QED
    BY <2>7, <2>8, <2>9, <2>10, <2>11, <2>12 DEF Counting
<1>3. TypeOK'
  <2>1. ASSUME ~racedPid', \A u \in Threads : ~InCreatePid(u)'
        PROVE  mPidCount' <= MaxPidCount /\ mSerial' <= MaxSerial
    BY <1>1, <1>2, <2>1
  <2> QED
    BY <1>1, <2>1 DEF Inv, TypeOK
<1>4. InHand'
  BY <1>1, <1>2 DEF InHand
<1>5. Given'
  BY <1>1, <1>2 DEF Given
<1>6. PidsAreUnique'
  BY <1>1 DEF Inv, PidsAreUnique
<1> QED
  BY <1>3, <1>4, <1>5, <1>6 DEF Inv

(* What a step must leave alone to have nothing to do with pids.           *)
Quiet ==
  /\ UNCHANGED <<smCreationCounter, mCreation, mPidCount, mSerial, self, racedPid, wrapped>>
  /\ mPortCount' \in Nat
  /\ life' \in [Boxes -> {"unused", "new", "attached", "pinged", "detached"}]
  /\ at' \in [Threads -> {"idle", "created", "counting", "counted", "carrying",
                          "carryLoaded", "carried", "adding", "boxed", "referred",
                          "waiting", "ported", "portCounting", "portCounted"}]
  /\ box' \in [Threads -> Boxes \cup {NoBox}]
  /\ count' \in [Threads -> Nat] /\ racedPort' \in BOOLEAN
  /\ \A t \in Threads :
       \/ at'[t] = at[t] /\ count'[t] = count[t]
       \/ ~InCreatePid(t) /\ ~InCreatePid(t)'

LEMMA QuietInv == Inv /\ Quiet => Inv'
<1> SUFFICES ASSUME Inv, Quiet PROVE Inv'
  OBVIOUS
<1>1. \A t \in Threads : /\ InCreatePid(t)' <=> InCreatePid(t)
                         /\ InCreatePid(t) => at'[t] = at[t] /\ count'[t] = count[t]
  BY DEF Quiet, InCreatePid
<1>2. TypeOK'
  BY <1>1 DEF Inv, Quiet, TypeOK
<1>3. InHand'
  BY <1>1 DEF Inv, Quiet, InHand
<1>4. Given'
  <2>1. \A t \in Threads : at[t] \in {"created", "counting", "carrying", "carryLoaded"} =>
                             at'[t] = at[t]
    BY <1>1 DEF InCreatePid
  <2> QED
    BY <2>1 DEF Inv, Quiet, Given
<1>5. PidsAreUnique'
  BY DEF Inv, Quiet, PidsAreUnique
<1> QED
  BY <1>2, <1>3, <1>4, <1>5 DEF Inv

(* The operations on the map, on ports, on references and in ping() are    *)
(* such steps.                                                             *)
LEMMA OthersAreQuiet ==
  ASSUME Inv, NEW t \in Threads
  PROVE  /\ AddMailBox(t) => Quiet
         /\ Porting(t) => Quiet
         /\ CreateRef(t) => Quiet
         /\ AdvanceRef(t) => Quiet
         /\ Pang(t) => Quiet
         /\ \A b \in Boxes : Detach(t, b) => Quiet
         /\ \A b \in Boxes : \A answer \in inbox[b] : Pong(t, answer) => Quiet
<1>1. AddMailBox(t) => Quiet
  BY DEF AddMailBox, Quiet, Inv, TypeOK, counters, InCreatePid
<1>2. CreateRef(t) => Quiet
  BY DEF CreateRef, Quiet, Inv, TypeOK, counters, mailboxes, InCreatePid
<1>3. AdvanceRef(t) => Quiet
  BY DEF AdvanceRef, Quiet, Inv, TypeOK, mailboxes, history, InCreatePid
<1>4. Pang(t) => Quiet
  BY DEF Pang, PingEnds, Quiet, Inv, TypeOK, counters, history, InCreatePid
<1>5. ASSUME NEW b \in Boxes PROVE Detach(t, b) => Quiet
  BY DEF Detach, Quiet, Inv, TypeOK, counters, threads, history
<1>6. ASSUME NEW b \in Boxes, NEW answer \in inbox[b] PROVE Pong(t, answer) => Quiet
  BY DEF Pong, PingEnds, Quiet, Inv, TypeOK, counters, history, InCreatePid
<1>7. Porting(t) => Quiet
  BY PortingEffect DEF PortStages, Quiet, Inv, TypeOK, InCreatePid
<1> QED
  BY <1>1, <1>2, <1>3, <1>4, <1>5, <1>6, <1>7

(* Every step keeps the invariant.                                         *)
LEMMA NextInv == Inv /\ [Next]_vars => Inv'
<1> SUFFICES ASSUME Inv, [Next]_vars PROVE Inv'
  OBVIOUS
<1>1. CASE NewNode
  BY <1>1, NewNodeInv
<1>2. ASSUME NEW t \in Threads, NEW b \in Boxes \cup {NoBox}, NEW p \in BOOLEAN,
             CreatePid(t, b, p)
      PROVE  Inv'
  BY <1>2, CreatePidInv
<1>3. ASSUME NEW t \in Threads, Counting(t) PROVE Inv'
  BY <1>3, CountingInv
<1>4. ASSUME NEW t \in Threads,
             \/ Porting(t) \/ AddMailBox(t) \/ CreateRef(t) \/ AdvanceRef(t) \/ Pang(t)
             \/ \E b \in Boxes : Detach(t, b)
             \/ \E b \in Boxes : \E answer \in inbox[b] : Pong(t, answer)
      PROVE  Inv'
  BY <1>4, OthersAreQuiet, QuietInv
<1>5. ASSUME NEW question \in asked, Answer(question) PROVE Inv'
  <2>1. Quiet
    BY <1>5 DEF Answer, Quiet, Inv, TypeOK, counters, threads, history
  <2> QED
    BY <2>1, QuietInv
<1>6. CASE UNCHANGED vars
  <2>1. Quiet
    BY <1>6 DEF vars, counters, mailboxes, threads, history, Quiet, Inv, TypeOK
  <2> QED
    BY <2>1, QuietInv
<1> QED
  BY <1>1, <1>2, <1>3, <1>4, <1>5, <1>6 DEF Next, Counting, Porting

(* Pids keep to their bits (ErlPid.cpp), and while no two threads are in   *)
(* createPid() (EpiLocalNode.cpp:113) at a time to those of the counters,  *)
(* which are within their greatest values between its calls.               *)
THEOREM NodeTypes == Spec => []TypeOK
<1>1. Inv => TypeOK
  BY DEF Inv
<1> QED
  BY <1>1, InitInv, NextInv, PTL DEF Spec

(* createPid() (EpiLocalNode.cpp:113) gives two mailboxes of a node        *)
(* different pids while no two threads are in it at a time and the serial  *)
(* has not come round, whatever the widths of the counters.                *)
THEOREM UniquePids == Spec => []PidsAreUnique
<1>1. Inv => PidsAreUnique
  BY DEF Inv
<1> QED
  BY <1>1, InitInv, NextInv, PTL DEF Spec

-----------------------------------------------------------------------------
(* Numbers that leave the same remainder: so do their successors, and they *)
(* are no closer than the divisor.                                         *)
LEMMA RemainderOf ==
  ASSUME NEW n \in Nat \ {0}, NEW q \in Nat, NEW r \in 0 .. n - 1
  PROVE  (n * q + r) % n = r
OBVIOUS

LEMMA SameRemainder ==
  ASSUME NEW n \in Nat \ {0}, NEW a \in Nat, NEW b \in Nat, a % n = b % n
  PROVE  (a + 1) % n = (b + 1) % n /\ (a < b => b - a >= n)
<1>1. PICK r \in 0 .. n - 1 : r = a % n
  OBVIOUS
<1>2. PICK p \in Nat : p = a \div n
  OBVIOUS
<1>3. PICK q \in Nat : q = b \div n
  OBVIOUS
<1>4. a = n * p + r /\ b = n * q + r
  BY <1>1, <1>2, <1>3
<1>5. CASE r + 1 < n
  <2>1. a + 1 = n * p + (r + 1) /\ b + 1 = n * q + (r + 1) /\ r + 1 \in 0 .. n - 1
    BY <1>4, <1>5
  <2>2. (n * p + (r + 1)) % n = r + 1 /\ (n * q + (r + 1)) % n = r + 1
    BY <2>1, RemainderOf
  <2> QED
    BY <2>1, <2>2
<1>6. CASE r + 1 = n
  <2>1. n * (p + 1) = n * p + n /\ n * (q + 1) = n * q + n
    OBVIOUS
  <2>2. a + 1 = n * (p + 1) + 0 /\ b + 1 = n * (q + 1) + 0 /\ 0 \in 0 .. n - 1
    BY <1>4, <1>6, <2>1
  <2>3. (n * (p + 1) + 0) % n = 0 /\ (n * (q + 1) + 0) % n = 0
    BY <2>2, RemainderOf
  <2> QED
    BY <2>2, <2>3
<1>7. ASSUME a < b
      PROVE  b - a >= n
  <2>1. p < q
    BY <1>4, <1>7
  <2>2. n * (q - p) >= n
    BY <2>1
  <2>3. n * (q - p) = n * q - n * p
    OBVIOUS
  <2> QED
    BY <1>4, <2>2, <2>3
<1>8. r + 1 < n \/ r + 1 = n
  OBVIOUS
<1> QED
  BY <1>5, <1>6, <1>7, <1>8

(* While no two threads were in createPort() at a time the ports of a node *)
(* are numbered in turn, by a counter that is past its greatest value only *)
(* between the store and the test.                                         *)
Turn(n) == mPortCount % PortIds = n % PortIds

Numbered ==
  /\ ports \in Seq(Nat)
  /\ ~racedPort =>
       /\ \A i \in DOMAIN ports : ports[i] = i % PortIds
       /\ \/ /\ \A t \in Threads : ~InCreatePort(t)
             /\ mPortCount <= MaxPortCount /\ Turn(Len(ports) + 1)
          \/ \E t \in Threads :
               /\ \A u \in Threads : InCreatePort(u) <=> u = t
               /\ at[t] \in {"ported", "portCounting"} =>
                    mPortCount <= MaxPortCount /\ Turn(Len(ports))
               /\ at[t] = "portCounting" => count[t] = mPortCount
               /\ at[t] = "portCounted" => /\ mPortCount = count[t] + 1
                                           /\ count[t] <= MaxPortCount /\ Turn(Len(ports) + 1)

LEMMA NumberedInit == Init => Numbered
<1> SUFFICES ASSUME Init PROVE Numbered
  OBVIOUS
<1>1. ports \in Seq(Nat) /\ Len(ports) = 0 /\ DOMAIN ports = {}
  BY DEF Init
<1>2. mPortCount = 1 /\ mPortCount <= MaxPortCount /\ \A t \in Threads : ~InCreatePort(t)
  BY WidthsAssumption DEF Init, InCreatePort
<1> QED
  BY <1>1, <1>2 DEF Numbered, Turn

(* A step with no thread in createPort().                                  *)
LEMMA NotNumbering ==
  ASSUME Numbered, UNCHANGED <<mPortCount, ports, racedPort>>,
         \A t \in Threads : \/ at'[t] = at[t] /\ count'[t] = count[t]
                            \/ ~InCreatePort(t) /\ ~InCreatePort(t)'
  PROVE  Numbered'
<1>1. \A t \in Threads : /\ InCreatePort(t)' <=> InCreatePort(t)
                         /\ InCreatePort(t) => at'[t] = at[t] /\ count'[t] = count[t]
  BY DEF InCreatePort
<1>2. \A n : Turn(n)' <=> Turn(n)
  BY DEF Turn
<1>3. CASE racedPort
  BY <1>3 DEF Numbered
<1>4. CASE ~racedPort /\ \A t \in Threads : ~InCreatePort(t)
  BY <1>1, <1>2, <1>4 DEF Numbered
<1>5. CASE ~racedPort /\ ~(\A t \in Threads : ~InCreatePort(t))
  <2>1. PICK t \in Threads :
          /\ \A u \in Threads : InCreatePort(u) <=> u = t
          /\ at[t] \in {"ported", "portCounting"} =>
               mPortCount <= MaxPortCount /\ Turn(Len(ports))
          /\ at[t] = "portCounting" => count[t] = mPortCount
          /\ at[t] = "portCounted" => /\ mPortCount = count[t] + 1
                                      /\ count[t] <= MaxPortCount /\ Turn(Len(ports) + 1)
    BY <1>5 DEF Numbered
  <2>2. at'[t] = at[t] /\ count'[t] = count[t] /\ \A u \in Threads : InCreatePort(u)' <=> u = t
    BY <1>1, <2>1
  <2> QED
    BY <1>2, <2>1, <2>2 DEF Numbered
<1> QED
  BY <1>3, <1>4, <1>5

LEMMA PortingNumbered ==
  ASSUME Inv, Numbered, NEW t \in Threads, Porting(t)
  PROVE  Numbered'
<1> DEFINE n == Len(ports)
<1>1. /\ t \in DOMAIN at /\ mPortCount \in Nat /\ count \in [Threads -> Nat]
      /\ ports \in Seq(Nat) /\ n \in Nat /\ PortIds \in Nat \ {0} /\ MaxPortCount \in Nat
  BY WidthsAssumption DEF Inv, TypeOK, Numbered
<1>2. \A u \in Threads : u # t => at'[u] = at[u] /\ count'[u] = count[u]
  BY PortingEffect DEF Inv, TypeOK
<1>3. CASE CreatePort(t)
  <2>1. /\ at[t] = "idle" /\ at'[t] = "ported" /\ ports' = Append(ports, mPortCount % PortIds)
        /\ racedPort' = (racedPort \/ \E u \in Threads : InCreatePort(u))
        /\ mPortCount' = mPortCount
    BY <1>1, <1>3 DEF CreatePort, counters
  <2>2. mPortCount % PortIds \in Nat
    BY <1>1
  <2>3. /\ ports' \in Seq(Nat) /\ Len(ports') = n + 1 /\ DOMAIN ports' = 1 .. n + 1
        /\ ports'[n + 1] = mPortCount % PortIds
        /\ \A i \in 1 .. n : ports'[i] = ports[i]
    BY <1>1, <2>1, <2>2
  <2>4. ASSUME ~racedPort'
        PROVE  /\ ~racedPort /\ \A u \in Threads : ~InCreatePort(u)
               /\ mPortCount <= MaxPortCount /\ mPortCount % PortIds = (n + 1) % PortIds
               /\ \A i \in 1 .. n : ports[i] = i % PortIds
    <3>1. ~racedPort /\ \A u \in Threads : ~InCreatePort(u)
      BY <2>1, <2>4 DEF Inv, TypeOK
    <3>2. DOMAIN ports = 1 .. n
      BY <1>1
    <3> QED
      BY <3>1, <3>2 DEF Numbered, Turn
  <2>5. ASSUME ~racedPort'
        PROVE  \A i \in DOMAIN ports' : ports'[i] = i % PortIds
    <3>1. \A i \in DOMAIN ports' : i \in 1 .. n \/ i = n + 1
      BY <1>1, <2>3
    <3> QED
      BY <2>3, <2>4, <2>5, <3>1
  <2>6. ASSUME ~racedPort'
        PROVE  \A u \in Threads : InCreatePort(u)' <=> u = t
    BY <1>2, <2>1, <2>4, <2>6 DEF InCreatePort
  <2>7. ASSUME ~racedPort'
        PROVE  mPortCount' <= MaxPortCount /\ Turn(Len(ports))'
    BY <2>1, <2>3, <2>4, <2>7 DEF Turn
  <2> QED
    BY <2>1, <2>3, <2>5, <2>6, <2>7 DEF Numbered
<1>4. ASSUME ~CreatePort(t)
      PROVE  UNCHANGED <<ports, racedPort>> /\ InCreatePort(t)
  BY <1>4 DEF Porting, LoadPortCount, Load, StorePortCount, Store, TestPortCount, history,
              InCreatePort
<1>5. CASE racedPort /\ ~CreatePort(t)
  BY <1>4, <1>5 DEF Numbered
<1>6. ASSUME ~racedPort, ~CreatePort(t)
      PROVE  /\ \A i \in DOMAIN ports : ports[i] = i % PortIds
             /\ \A u \in Threads : InCreatePort(u) <=> u = t
             /\ at[t] \in {"ported", "portCounting"} =>
                  mPortCount <= MaxPortCount /\ Turn(Len(ports))
             /\ at[t] = "portCounting" => count[t] = mPortCount
             /\ at[t] = "portCounted" => /\ mPortCount = count[t] + 1
                                         /\ count[t] <= MaxPortCount /\ Turn(Len(ports) + 1)
  <2>1. PICK v \in Threads :
          /\ \A u \in Threads : InCreatePort(u) <=> u = v
          /\ at[v] \in {"ported", "portCounting"} =>
               mPortCount <= MaxPortCount /\ Turn(Len(ports))
          /\ at[v] = "portCounting" => count[v] = mPortCount
          /\ at[v] = "portCounted" => /\ mPortCount = count[v] + 1
                                      /\ count[v] <= MaxPortCount /\ Turn(Len(ports) + 1)
    BY <1>4, <1>6 DEF Numbered
  <2>2. v = t
    BY <1>4, <1>6, <2>1
  <2> QED
    BY <1>6, <2>1, <2>2 DEF Numbered
<1>7. CASE ~racedPort /\ LoadPortCount(t)
  <2>1. /\ at[t] = "ported" /\ at'[t] = "portCounting" /\ count'[t] = mPortCount
        /\ mPortCount' = mPortCount /\ UNCHANGED <<ports, racedPort>> /\ ~CreatePort(t)
    BY <1>1, <1>7 DEF LoadPortCount, Load, CreatePort, counters, history
  <2>2. \A u \in Threads : InCreatePort(u)' <=> u = t
    BY <1>2, <1>6, <1>7, <2>1 DEF InCreatePort
  <2>3. mPortCount' <= MaxPortCount /\ Turn(Len(ports))'
    BY <1>6, <1>7, <2>1 DEF Turn
  <2> QED
    BY <1>1, <1>6, <1>7, <2>1, <2>2, <2>3 DEF Numbered
<1>8. CASE ~racedPort /\ StorePortCount(t)
  <2>1. /\ at[t] = "portCounting" /\ at'[t] = "portCounted" /\ count'[t] = count[t]
        /\ mPortCount' = count[t] + 1 /\ UNCHANGED <<ports, racedPort>> /\ ~CreatePort(t)
    BY <1>1, <1>8 DEF StorePortCount, Store, CreatePort, history
  <2>2. \A u \in Threads : InCreatePort(u)' <=> u = t
    BY <1>2, <1>6, <1>8, <2>1 DEF InCreatePort
  <2>3. count[t] = mPortCount /\ mPortCount <= MaxPortCount /\ mPortCount % PortIds = n % PortIds
    BY <1>6, <1>8, <2>1 DEF Turn
  <2>4. (mPortCount + 1) % PortIds = (n + 1) % PortIds
    BY <1>1, <2>3, SameRemainder
  <2>5. count'[t] <= MaxPortCount /\ Turn(Len(ports) + 1)'
    BY <2>1, <2>3, <2>4 DEF Turn
  <2> QED
    BY <1>1, <1>6, <1>8, <2>1, <2>2, <2>5 DEF Numbered
<1>9. CASE ~racedPort /\ TestPortCount(t)
  <2>1. /\ at[t] = "portCounted" /\ at'[t] = "idle" /\ UNCHANGED <<ports, racedPort>>
        /\ ~CreatePort(t)
    BY <1>1, <1>9 DEF TestPortCount, CreatePort, history
  <2>2. /\ mPortCount = count[t] + 1 /\ count[t] <= MaxPortCount
        /\ mPortCount % PortIds = (n + 1) % PortIds
    BY <1>6, <1>9, <2>1 DEF Turn
  <2>3. mPortCount' = IF mPortCount > MaxPortCount THEN 0 ELSE mPortCount
    BY <1>9, <2>2 DEF TestPortCount, Tested, PortsUsedUp
  <2>4. mPortCount' % PortIds = mPortCount % PortIds /\ mPortCount' <= MaxPortCount
    <3>1. CASE mPortCount > MaxPortCount
      <4>1. mPortCount = MaxPortCount + 1 /\ mPortCount' = 0
        BY <1>1, <2>2, <2>3, <3>1
      <4> QED
        BY <1>1, <4>1, PortsAssumption
    <3>2. CASE ~(mPortCount > MaxPortCount)
      BY <1>1, <2>3, <3>2
    <3> QED
      BY <3>1, <3>2
  <2>5. \A u \in Threads : ~InCreatePort(u)'
    BY <1>2, <1>6, <1>9, <2>1 DEF InCreatePort
  <2>6. Turn(Len(ports) + 1)'
    BY <2>1, <2>2, <2>4 DEF Turn
  <2> QED
    BY <1>1, <1>6, <1>9, <2>1, <2>4, <2>5, <2>6 DEF Numbered
<1> QED
  BY <1>3, <1>5, <1>7, <1>8, <1>9 DEF Porting, Inv, TypeOK

LEMMA NumberedNext ==
  ASSUME Inv, Numbered, [Next]_vars
  PROVE  Numbered'
<1>1. CASE NewNode
  <2>1. mPortCount' = 1 /\ ports' = <<>> /\ \A t \in Threads : at'[t] = "idle"
    BY <1>1 DEF NewNode, Counters, threads
  <2>2. ports' \in Seq(Nat) /\ Len(ports') = 0 /\ DOMAIN ports' = {}
    BY <2>1
  <2>3. mPortCount' <= MaxPortCount /\ Turn(Len(ports) + 1)' /\ \A t \in Threads : ~InCreatePort(t)'
    BY <2>1, <2>2, WidthsAssumption DEF InCreatePort, Turn
  <2> QED
    BY <2>2, <2>3 DEF Numbered
<1>2. ASSUME NEW t \in Threads, Porting(t)
      PROVE  Numbered'
  BY <1>2, PortingNumbered
<1> DEFINE Elsewhere ==
             /\ UNCHANGED <<mPortCount, ports, racedPort>>
             /\ \A t \in Threads : \/ at'[t] = at[t] /\ count'[t] = count[t]
                                   \/ ~InCreatePort(t) /\ ~InCreatePort(t)'
<1> USE DEF counters, history, threads, Inv, TypeOK, InCreatePort
<1>3. ASSUME NEW t \in Threads, NEW b \in Boxes \cup {NoBox}, NEW p \in BOOLEAN,
             CreatePid(t, b, p)
      PROVE  Elsewhere
  BY <1>3 DEF CreatePid
<1>4. ASSUME NEW t \in Threads, Counting(t)
      PROVE  Elsewhere
  <2>1. /\ UNCHANGED <<mPortCount, ports, racedPort>> /\ InCreatePid(t)
        /\ \E place \in {"counting", "counted", "carrying", "carryLoaded", "carried",
                         "idle", "adding"} : at' = [at EXCEPT ![t] = place]
        /\ \A u \in Threads : u # t => count'[u] = count[u]
    BY <1>4, CountingEffect
  <2> QED
    BY <2>1 DEF InCreatePid
<1>5. ASSUME NEW t \in Threads, AddMailBox(t)
      PROVE  Elsewhere
  BY <1>5 DEF AddMailBox
<1>6. ASSUME NEW t \in Threads, CreateRef(t) \/ AdvanceRef(t)
      PROVE  Elsewhere
  BY <1>6 DEF CreateRef, AdvanceRef
<1>7. ASSUME NEW t \in Threads, at[t] = "waiting", PingEnds(t)
      PROVE  Elsewhere
  BY <1>7 DEF PingEnds
<1>8. ASSUME \/ \E t \in Threads, b \in Boxes : Detach(t, b)
             \/ \E q \in asked : Answer(q)
             \/ UNCHANGED vars
      PROVE  Elsewhere
  BY <1>8 DEF Detach, Answer, vars
<1>9. \/ NewNode
      \/ \E t \in Threads, b \in Boxes \cup {NoBox}, p \in BOOLEAN : CreatePid(t, b, p)
      \/ \E t \in Threads :
           \/ Porting(t) \/ Counting(t) \/ AddMailBox(t) \/ CreateRef(t) \/ AdvanceRef(t)
           \/ at[t] = "waiting" /\ PingEnds(t)
           \/ \E b \in Boxes : Detach(t, b)
      \/ \E q \in asked : Answer(q)
      \/ UNCHANGED vars
  BY DEF Next, Pang, Pong, Counting, Porting
<1> HIDE DEF counters, history, threads, Inv, TypeOK, InCreatePort, Elsewhere
<1>10. Elsewhere => Numbered'
  BY NotNumbering DEF Elsewhere
<1> QED
  BY <1>1, <1>2, <1>3, <1>4, <1>5, <1>6, <1>7, <1>8, <1>9, <1>10

(* createPort() (EpiLocalNode.cpp:129) gives no port again before it has   *)
(* given all the ids that an ErlPort tells apart, while no two threads are *)
(* in it at a time.                                                        *)
THEOREM LatePorts == Spec => []PortsComeBackLate
<1>1. Numbered => PortsComeBackLate
  <2> SUFFICES ASSUME Numbered, ~racedPort, NEW i \in DOMAIN ports, NEW j \in DOMAIN ports,
                      ports[i] = ports[j], i < j
               PROVE  j - i >= PortIds
    BY DEF PortsComeBackLate
  <2>1. i \in Nat /\ j \in Nat /\ i % PortIds = j % PortIds
    BY DEF Numbered
  <2> QED
    BY <2>1, SameRemainder, WidthsAssumption
<1>2. Inv /\ Numbered /\ [Next]_vars => (Inv /\ Numbered)'
  BY NextInv, NumberedNext
<1> QED
  BY <1>1, <1>2, InitInv, NumberedInit, PTL DEF Spec

-----------------------------------------------------------------------------
(* The map.  Two pids neither of which is less than the other are equal,   *)
(* whatever else operator< does; between pids of one serial and creation   *)
(* it is the order of their ids.                                           *)
LEMMA LessTellsPidsApart ==
  ASSUME NEW p \in Pids, NEW q \in Pids
  PROVE  /\ ~Less(p, q) /\ ~Less(q, p) => p = q
         /\ p.serial = q.serial /\ p.creation = q.creation => (Less(p, q) <=> p.id < q.id)
<1>1. ~Less(p, q) /\ ~Less(q, p) => p.id = q.id /\ p.serial = q.serial /\ p.creation = q.creation
  BY WidthsAssumption DEF Less, Pids
<1>2. p.id = q.id /\ p.serial = q.serial /\ p.creation = q.creation => p = q
  BY DEF Pids
<1>3. p.serial = q.serial /\ p.creation = q.creation => (Less(p, q) <=> p.id < q.id)
  BY WidthsAssumption DEF Less, Pids
<1> QED
  BY <1>1, <1>2, <1>3

Entries == [pid : Pids, box : Boxes]

LEMMA EntryTypes == \A e \in Entries : e.pid \in Pids /\ e.pid.id \in Nat
<1>1. \A p \in Pids : p.id \in Nat
  BY WidthsAssumption DEF Pids
<1> QED
  BY <1>1 DEF Entries

(* A descent ends somewhere.                                               *)
LEMMA LowerBoundExists ==
  ASSUME NEW map \in Seq(Entries), NEW key \in Pids
  PROVE  LowerBound(map, key) # {} /\ LowerBound(map, key) \subseteq 1 .. Len(map) + 1
<1> DEFINE D == {i \in 1 .. Len(map) + 1 : i <= Len(map) => ~Less(map[i].pid, key)}
<1>1. Len(map) \in Nat
  OBVIOUS
<1>2. Len(map) + 1 \in D /\ D \subseteq Nat
  BY <1>1
<1>3. Min(D) \in D /\ \A j \in D : Min(D) <= j
  <2> HIDE DEF D
  <2> QED
    BY <1>2, MinIsSmallest
<1>4. PICK m \in D : \A j \in D : m <= j
  BY <1>3
<1>5. m \in 1 .. Len(map) + 1 /\ (m <= Len(map) => ~Less(map[m].pid, key))
  OBVIOUS
<1>6. ASSUME m > 1
      PROVE  Less(map[m - 1].pid, key)
  <2>1. m - 1 \in 1 .. Len(map) + 1 /\ m - 1 <= Len(map) /\ ~(m <= m - 1)
    BY <1>1, <1>5, <1>6
  <2>2. m - 1 \notin D
    BY <1>4, <2>1
  <2> QED
    BY <2>1, <2>2
<1>7. m \in LowerBound(map, key)
  BY <1>5, <1>6 DEF LowerBound
<1> QED
  BY <1>7 DEF LowerBound

(* What is found is the key.                                               *)
LEMMA FoundIsKey ==
  ASSUME NEW map \in Seq(Entries), NEW key \in Pids,
         NEW i \in LowerBound(map, key), FoundAt(map, key, i)
  PROVE  i \in DOMAIN map /\ map[i].pid = key
<1>1. i \in 1 .. Len(map) /\ ~Less(map[i].pid, key) /\ ~Less(key, map[i].pid)
  BY DEF LowerBound, FoundAt
<1>2. map[i] \in Entries
  BY <1>1
<1>3. map[i].pid \in Pids
  BY <1>2 DEF Entries
<1> QED
  BY <1>1, <1>3, LessTellsPidsApart

(* The pids of a map are of one serial and one creation, in the order of   *)
(* their ids.                                                              *)
Ordered(map) ==
  \A i, j \in DOMAIN map :
    /\ map[i].pid.serial = map[j].pid.serial
    /\ map[i].pid.creation = map[j].pid.creation
    /\ i < j => map[i].pid.id < map[j].pid.id

(* In such a map a descent for the key of an entry ends at the entry.      *)
LEMMA OrderedMapFinds ==
  ASSUME NEW map \in Seq(Entries), Ordered(map), NEW k \in DOMAIN map
  PROVE  LowerBound(map, map[k].pid) = {k} /\ FoundAt(map, map[k].pid, k)
<1>1. DOMAIN map = 1 .. Len(map) /\ Len(map) \in Nat
  OBVIOUS
<1>2. \A j \in DOMAIN map : map[j].pid \in Pids /\ map[j].pid.id \in Nat
  <2> SUFFICES ASSUME NEW j \in DOMAIN map PROVE map[j] \in Entries
    BY EntryTypes
  <2> QED
    OBVIOUS
<1>3. \A j \in DOMAIN map : Less(map[j].pid, map[k].pid) <=> map[j].pid.id < map[k].pid.id
  BY <1>2, LessTellsPidsApart DEF Ordered
<1>4. \A j \in DOMAIN map : Less(map[j].pid, map[k].pid) <=> j < k
  <2> SUFFICES ASSUME NEW j \in DOMAIN map
               PROVE  map[j].pid.id < map[k].pid.id <=> j < k
    BY <1>3
  <2>1. CASE j < k
    BY <2>1 DEF Ordered
  <2>2. CASE j = k
    BY <1>1, <1>2, <2>2
  <2>3. CASE j > k
    <3>1. map[k].pid.id < map[j].pid.id
      BY <1>1, <2>3 DEF Ordered
    <3> QED
      BY <1>1, <1>2, <2>3, <3>1
  <2> QED
    BY <1>1, <2>1, <2>2, <2>3
<1>5. ASSUME NEW i \in LowerBound(map, map[k].pid)
      PROVE  i = k
  <2>1. /\ i \in 1 .. Len(map) + 1
        /\ i > 1 => Less(map[i - 1].pid, map[k].pid)
        /\ i <= Len(map) => ~Less(map[i].pid, map[k].pid)
    BY DEF LowerBound
  <2>2. i > 1 => i - 1 < k
    <3>1. i > 1 => i - 1 \in DOMAIN map
      BY <1>1, <2>1
    <3> QED
      BY <1>4, <2>1, <3>1
  <2>3. i <= Len(map) => ~(i < k)
    BY <1>1, <1>4, <2>1
  <2> QED
    BY <1>1, <2>1, <2>2, <2>3
<1>6. LowerBound(map, map[k].pid) # {}
  BY <1>2, LowerBoundExists
<1>7. ~Less(map[k].pid, map[k].pid)
  BY <1>1, <1>4
<1> QED
  BY <1>1, <1>5, <1>6, <1>7 DEF FoundAt

(* A lookup gives a mailbox of the map under this pid, or none, and in an  *)
(* ordered map it gives the one that is there.                             *)
LEMMA GetMailBoxEffect ==
  ASSUME NEW map \in Seq(Entries), NEW key \in Pids
  PROVE  /\ GetMailBox(map, key) # {}
         /\ \A b \in GetMailBox(map, key) :
              b = NoBox \/ [pid |-> key, box |-> b] \in Range(map)
         /\ Ordered(map) =>
              \A e \in Range(map) : e.pid = key => GetMailBox(map, key) = {e.box}
<1>1. GetMailBox(map, key) # {}
  BY LowerBoundExists DEF GetMailBox
<1>2. ASSUME NEW i \in LowerBound(map, key), FoundAt(map, key, i)
      PROVE  [pid |-> key, box |-> map[i].box] \in Range(map)
  <2>1. i \in DOMAIN map /\ map[i].pid = key /\ map[i] \in Entries
    BY <1>2, FoundIsKey
  <2>2. map[i] = [pid |-> key, box |-> map[i].box]
    BY <2>1 DEF Entries
  <2> QED
    BY <2>1, <2>2 DEF Range
<1>3. ASSUME NEW b \in GetMailBox(map, key), b # NoBox
      PROVE  [pid |-> key, box |-> b] \in Range(map)
  BY <1>2, <1>3 DEF GetMailBox
<1>4. ASSUME Ordered(map), NEW e \in Range(map), e.pid = key
      PROVE  GetMailBox(map, key) = {e.box}
  <2>1. PICK k \in DOMAIN map : map[k] = e
    BY DEF Range
  <2>2. LowerBound(map, key) = {k} /\ FoundAt(map, key, k)
    BY <1>4, <2>1, OrderedMapFinds
  <2> QED
    BY <2>1, <2>2 DEF GetMailBox
<1> QED
  BY <1>1, <1>3, <1>4

(* In an ordered map, an entry with the key and no other is erased.        *)
LEMMA EraseEffect ==
  ASSUME NEW map \in Seq(Entries), NEW key \in Pids, NEW new \in Erase(map, key)
  PROVE  /\ new \in Seq(Entries) /\ Range(new) \subseteq Range(map)
         /\ Ordered(map) => Ordered(new)
         /\ Ordered(map) => Range(new) = {e \in Range(map) : e.pid # key}
<1>0. DOMAIN map = 1 .. Len(map) /\ Len(map) \in Nat
  OBVIOUS
<1>1. PICK i \in LowerBound(map, key) :
        new = IF FoundAt(map, key, i) THEN RemoveAt(map, i) ELSE map
  BY DEF Erase
<1>2. CASE ~FoundAt(map, key, i)
  <2>1. new = map
    BY <1>1, <1>2
  <2>2. ASSUME Ordered(map), NEW e \in Range(map), e.pid = key
        PROVE  FALSE
    <3>1. PICK k \in DOMAIN map : map[k] = e
      BY DEF Range
    <3>2. LowerBound(map, key) = {k} /\ FoundAt(map, key, k)
      BY <2>2, <3>1, OrderedMapFinds
    <3> QED
      BY <1>2, <3>2
  <2> QED
    BY <2>1, <2>2
<1>3. CASE FoundAt(map, key, i)
  <2>1. i \in DOMAIN map /\ map[i].pid = key
    BY <1>3, FoundIsKey
  <2>2. /\ new \in Seq(Entries) /\ Len(new) = Len(map) - 1
        /\ \A j \in 1 .. Len(map) - 1 : new[j] = IF j < i THEN map[j] ELSE map[j + 1]
    BY <1>1, <1>3, <2>1, RemoveAtProperties
  <2>3. DOMAIN new = 1 .. Len(map) - 1
    BY <2>2
  <2> DEFINE was(j) == IF j < i THEN j ELSE j + 1
  <2>4. \A j \in DOMAIN new : was(j) \in DOMAIN map /\ was(j) # i /\ new[j] = map[was(j)]
    BY <1>0, <2>1, <2>2, <2>3
  <2>5. \A j, k \in DOMAIN new : j < k => was(j) < was(k)
    BY <1>0, <2>1, <2>3
  <2>6. \A k \in DOMAIN map : k # i => \E j \in DOMAIN new : was(j) = k
    <3>1. ASSUME NEW k \in DOMAIN map, k < i PROVE k \in DOMAIN new /\ was(k) = k
      BY <1>0, <2>1, <2>3, <3>1
    <3>2. ASSUME NEW k \in DOMAIN map, k > i PROVE k - 1 \in DOMAIN new /\ was(k - 1) = k
      BY <1>0, <2>1, <2>3, <3>2
    <3> QED
      BY <1>0, <2>1, <3>1, <3>2
  <2> HIDE DEF was
  <2>7. Range(new) \subseteq Range(map)
    BY <2>4 DEF Range
  <2>8. ASSUME Ordered(map)
        PROVE  Ordered(new)
    BY <2>4, <2>5, <2>8 DEF Ordered
  <2>9. ASSUME Ordered(map)
        PROVE  Range(new) = {e \in Range(map) : e.pid # key}
    <3>1. \A k \in DOMAIN map : k # i => map[k].pid # key
      <4> SUFFICES ASSUME NEW k \in DOMAIN map, k # i PROVE map[k].pid.id # map[i].pid.id
        BY <2>1
      <4>1. map[k] \in Entries /\ map[i] \in Entries
        BY <2>1
      <4>2. map[k].pid.id \in Nat /\ map[i].pid.id \in Nat
        BY <4>1, EntryTypes
      <4>3. map[k].pid.id < map[i].pid.id \/ map[i].pid.id < map[k].pid.id
        BY <1>0, <2>1, <2>9 DEF Ordered
      <4> QED
        BY <4>2, <4>3
    <3>2. \A j \in DOMAIN new : new[j].pid # key
      BY <2>4, <3>1
    <3>3. \A k \in DOMAIN map : map[k].pid # key => \E j \in DOMAIN new : new[j] = map[k]
      BY <2>1, <2>4, <2>6
    <3> QED
      BY <2>7, <3>2, <3>3 DEF Range
  <2> QED
    BY <2>2, <2>7, <2>8, <2>9
<1> QED
  BY <1>2, <1>3

(* An assignment leaves what is there under other pids; in an ordered map, *)
(* if the new pid is of the same serial and creation, it keeps the order.  *)
LEMMA AssignEffect ==
  ASSUME NEW map \in Seq(Entries), NEW key \in Pids, NEW b \in Boxes,
         NEW new \in Assign(map, key, b)
  PROVE  /\ new \in Seq(Entries)
         /\ [pid |-> key, box |-> b] \in Range(new)
         /\ \A e \in Range(new) : e \in Range(map) \/ e = [pid |-> key, box |-> b]
         /\ \A e \in Range(map) : e \in Range(new) \/ e.pid = key
         /\ Ordered(map) /\ (\A e, f \in Range(new) : /\ e.pid.serial = f.pid.serial
                                                      /\ e.pid.creation = f.pid.creation)
              => Ordered(new)
<1> DEFINE entry == [pid |-> key, box |-> b]
<1>0. DOMAIN map = 1 .. Len(map) /\ Len(map) \in Nat /\ entry \in Entries
  BY DEF Entries
<1>1. PICK i \in LowerBound(map, key) :
        new = IF FoundAt(map, key, i) THEN [map EXCEPT ![i].box = b]
              ELSE InsertAt(map, i, [pid |-> key, box |-> b])
  BY DEF Assign
<1>2. CASE FoundAt(map, key, i)
  <2>1. i \in DOMAIN map /\ map[i].pid = key /\ map[i] \in Entries
    BY <1>2, FoundIsKey
  <2>2. [map[i] EXCEPT !.box = b] = entry
    BY <2>1 DEF Entries
  <2>3. new = [map EXCEPT ![i] = entry]
    BY <1>1, <1>2, <2>2
  <2> HIDE DEF entry
  <2>4. /\ new \in Seq(Entries) /\ DOMAIN new = DOMAIN map
        /\ \A j \in DOMAIN map : new[j] = IF j = i THEN entry ELSE map[j]
    BY <1>0, <2>1, <2>3
  <2>5. entry.pid = key
    BY DEF entry
  <2>6. \A j \in DOMAIN map : new[j].pid = map[j].pid
    BY <2>1, <2>4, <2>5
  <2>7. Ordered(map) => Ordered(new)
    BY <2>4, <2>6 DEF Ordered
  <2>8. /\ entry \in Range(new)
        /\ \A e \in Range(new) : e \in Range(map) \/ e = entry
        /\ \A e \in Range(map) : e \in Range(new) \/ e.pid = key
    BY <2>1, <2>4 DEF Range
  <2> QED
    BY <2>4, <2>7, <2>8 DEF entry
<1>3. CASE ~FoundAt(map, key, i)
  <2>1. /\ i \in 1 .. Len(map) + 1
        /\ i > 1 => Less(map[i - 1].pid, key)
        /\ i <= Len(map) => Less(key, map[i].pid)
    BY <1>3 DEF LowerBound, FoundAt
  <2>2. new = InsertAt(map, i, entry)
    BY <1>1, <1>3
  <2>3. entry.pid = key
    OBVIOUS
  <2> HIDE DEF entry
  <2>4. /\ new \in Seq(Entries) /\ Len(new) = Len(map) + 1
        /\ \A j \in 1 .. i - 1 : new[j] = map[j]
        /\ new[i] = entry
        /\ \A j \in i .. Len(map) : new[j + 1] = map[j]
    <3>1. entry \in Entries
      BY <1>0
    <3>2. i \in 1 .. Len(map) + 1
      BY <2>1
    <3> QED
      BY <2>2, <3>1, <3>2, InsertAtProperties
  <2>5. DOMAIN new = 1 .. Len(map) + 1
    BY <2>4
  <2>6. i \in DOMAIN new /\ new[i] = entry
    BY <1>0, <2>1, <2>4, <2>5
  <2>7. \A k \in DOMAIN map : \E j \in DOMAIN new : new[j] = map[k]
    <3>1. ASSUME NEW k \in DOMAIN map, k < i PROVE k \in DOMAIN new /\ new[k] = map[k]
      BY <1>0, <2>1, <2>4, <2>5, <3>1
    <3>2. ASSUME NEW k \in DOMAIN map, ~(k < i) PROVE k + 1 \in DOMAIN new /\ new[k + 1] = map[k]
      BY <1>0, <2>1, <2>4, <2>5, <3>2
    <3> QED
      BY <3>1, <3>2
  <2>8. ASSUME NEW j \in DOMAIN new
        PROVE  \/ j = i /\ new[j] = entry
               \/ j < i /\ j \in DOMAIN map /\ new[j] = map[j]
               \/ j > i /\ j - 1 \in DOMAIN map /\ new[j] = map[j - 1]
    <3>1. CASE j > i
      <4>1. j - 1 \in i .. Len(map) /\ (j - 1) + 1 = j
        BY <1>0, <2>1, <2>5, <3>1
      <4> QED
        BY <1>0, <2>1, <2>4, <3>1, <4>1
    <3>2. CASE ~(j > i)
      BY <1>0, <2>1, <2>4, <2>5, <3>2
    <3> QED
      BY <3>1, <3>2
  <2>9. /\ entry \in Range(new)
        /\ \A e \in Range(new) : e \in Range(map) \/ e = entry
        /\ \A e \in Range(map) : e \in Range(new) \/ e.pid = key
    BY <2>6, <2>7, <2>8 DEF Range
  <2>10. ASSUME Ordered(map),
                \A e, f \in Range(new) : /\ e.pid.serial = f.pid.serial
                                         /\ e.pid.creation = f.pid.creation
         PROVE  Ordered(new)
    <3>1. \A j, k \in DOMAIN new : /\ new[j].pid.serial = new[k].pid.serial
                                   /\ new[j].pid.creation = new[k].pid.creation
      BY <2>10 DEF Range
    <3>2. \A k \in DOMAIN map : /\ map[k].pid \in Pids /\ map[k].pid.id \in Nat
                                /\ key.serial = map[k].pid.serial
                                /\ key.creation = map[k].pid.creation
      <4> SUFFICES ASSUME NEW k \in DOMAIN map
                   PROVE  /\ map[k].pid \in Pids /\ map[k].pid.id \in Nat
                          /\ key.serial = map[k].pid.serial
                          /\ key.creation = map[k].pid.creation
        OBVIOUS
      <4>1. map[k] \in Entries
        OBVIOUS
      <4> QED
        BY <2>3, <2>6, <2>7, <3>1, <4>1, EntryTypes
    <3>3. key.id \in Nat
      BY WidthsAssumption DEF Pids
    <3>4. \A k \in DOMAIN map : k < i => map[k].pid.id < key.id
      <4> SUFFICES ASSUME NEW k \in DOMAIN map, k < i PROVE map[k].pid.id < key.id
        OBVIOUS
      <4>1. i > 1 /\ i - 1 \in DOMAIN map /\ (k < i - 1 \/ k = i - 1)
        BY <1>0, <2>1
      <4>2. map[i - 1].pid.id < key.id
        BY <2>1, <3>2, <4>1, LessTellsPidsApart
      <4>3. k < i - 1 => map[k].pid.id < map[i - 1].pid.id
        BY <2>10, <4>1 DEF Ordered
      <4> QED
        BY <3>2, <3>3, <4>1, <4>2, <4>3
    <3>5. \A k \in DOMAIN map : ~(k < i) => key.id < map[k].pid.id
      <4> SUFFICES ASSUME NEW k \in DOMAIN map, ~(k < i) PROVE key.id < map[k].pid.id
        OBVIOUS
      <4>1. i <= Len(map) /\ i \in DOMAIN map /\ (i < k \/ k = i)
        BY <1>0, <2>1
      <4>2. key.id < map[i].pid.id
        BY <2>1, <3>2, <4>1, LessTellsPidsApart
      <4>3. i < k => map[i].pid.id < map[k].pid.id
        BY <2>10, <4>1 DEF Ordered
      <4> QED
        BY <3>2, <3>3, <4>1, <4>2, <4>3
    <3>6. ASSUME NEW j \in DOMAIN new, NEW k \in DOMAIN new, j < k
          PROVE  new[j].pid.id < new[k].pid.id
      <4>0. j \in Nat /\ k \in Nat /\ i \in Nat
        BY <2>1, <2>5
      <4>1. CASE j < i /\ k < i
        BY <2>8, <2>10, <3>6, <4>0, <4>1 DEF Ordered
      <4>2. CASE j < i /\ k = i
        BY <2>3, <2>8, <3>4, <4>0, <4>2
      <4>3. CASE j < i /\ k > i
        <5>1. /\ j \in DOMAIN map /\ new[j] = map[j]
              /\ k - 1 \in DOMAIN map /\ new[k] = map[k - 1] /\ j < k - 1
          BY <2>8, <4>0, <4>3
        <5> QED
          BY <2>10, <5>1 DEF Ordered
      <4>4. CASE j = i
        <5>1. new[j] = entry /\ k - 1 \in DOMAIN map /\ new[k] = map[k - 1] /\ ~(k - 1 < i)
          BY <2>8, <3>6, <4>0, <4>4
        <5> QED
          BY <2>3, <3>5, <5>1
      <4>5. CASE j > i
        <5>1. /\ j - 1 \in DOMAIN map /\ new[j] = map[j - 1]
              /\ k - 1 \in DOMAIN map /\ new[k] = map[k - 1] /\ j - 1 < k - 1
          BY <2>8, <3>6, <4>0, <4>5
        <5> QED
          BY <2>10, <5>1 DEF Ordered
      <4> QED
        BY <3>6, <4>0, <4>1, <4>2, <4>3, <4>4, <4>5
    <3> QED
      BY <3>1, <3>6 DEF Ordered
  <2> QED
    BY <2>4, <2>9, <2>10 DEF entry
<1> QED
  BY <1>2, <1>3

-----------------------------------------------------------------------------
(* The mailbox in a thread's hands has a pid, and an idle thread has none  *)
(* in hand.                                                                *)
Working ==
  /\ pinging \in [Threads -> BOOLEAN]
  /\ \A t \in Threads :
       /\ pinging[t] => box[t] # NoBox
       /\ at[t] \in PortStages => box[t] = NoBox
       /\ at[t] = "referred" /\ ~pinging[t] => box[t] = NoBox
       /\ at[t] \in {"boxed", "waiting"} => pinging[t]
       /\ at[t] = "adding" => box[t] # NoBox
       /\ box[t] # NoBox => self[box[t]] # NoPid /\ life[box[t]] # "unused"

(* The pids of a node have its creation, and an old pid an earlier one.    *)
Created ==
  /\ smCreationCounter = mCreation + 1
  /\ \A b \in Boxes : self[b] # NoPid => self[b].creation = mCreation % Creations
  /\ old # NoPid => old \in Pids /\ (mCreation < Creations => old.creation < mCreation)

(* The map holds mailboxes under their own pids, in order while those are  *)
(* of one serial; then none of them is detached, and unless threads raced  *)
(* for pids every attached mailbox is there.                               *)
Live == {"attached", "pinged"}

Mapped ==
  /\ mMailBoxes \in Seq(Entries) /\ mixed \in BOOLEAN
  /\ \A e \in Range(mMailBoxes) : e.pid = self[e.box] /\ life[e.box] # "unused"
  /\ ~mixed =>
       /\ Ordered(mMailBoxes)
       /\ \A e \in Range(mMailBoxes) : life[e.box] \in Live
       /\ ~racedPid /\ ~wrapped =>
            \A b \in Boxes : life[b] \in Live => \E e \in Range(mMailBoxes) : e.box = b

(* The pings whose answers are still to come or to be read.                *)
Refs == (0..MaxRefId) \X (0..Words - 1) \X (0..Words - 1)
Questions == [pid : Pids, ref : Refs, call : Boxes]
Known == asked \cup UNION {inbox[b] : b \in Boxes}

(* A question names the mailbox of its ping, and as long as pids are       *)
(* unique the answer is in that mailbox.                                   *)
Asked ==
  /\ asked \subseteq Questions /\ inbox \in [Boxes -> SUBSET Questions]
  /\ \A q \in Known : q.pid = self[q.call] /\ life[q.call] # "unused"
  /\ ~racedPid /\ ~wrapped => \A b \in Boxes : \A q \in inbox[b] : q.call = b

(* The reference was made before the counter came to this value.           *)
EarlierRef(r, next) == r[2] < next[2] \/ (r[2] = next[2] /\ r[1] < next[1])

(* As long as no two threads were in createRef() at a time, the references *)
(* of threads and questions are earlier than the one to come, and no two   *)
(* pings share one.                                                        *)
Referred ==
  /\ mRefId \in Refs /\ ref \in [Threads -> Refs \cup {NoRef}]
  /\ \A t \in Threads : at[t] \in {"referred", "waiting"} => ref[t] \in Refs
  /\ racedRef \in BOOLEAN
  /\ ~racedRef =>
       /\ mRefId[2] <= MaxWord + 1
       /\ \A t \in Threads : at[t] = "referred" =>
            /\ ref[t] = mRefId /\ mRefId[2] <= MaxWord
            /\ \A u \in Threads : at[u] = "referred" => u = t
       /\ \A q \in Known : EarlierRef(q.ref, mRefId)
       /\ \A t \in Threads : at[t] = "waiting" =>
            /\ EarlierRef(ref[t], mRefId)
            /\ \A q \in Known : q.ref = ref[t] => q.call = box[t]

Full == Inv /\ Working /\ Created /\ Mapped /\ Asked /\ Referred

(* All of it holds of a new node.                                          *)
LEMMA FullInit == Init => Full
<1> SUFFICES ASSUME Init PROVE Full
  OBVIOUS
<1>1. Inv
  BY InitInv
<1>2. Working /\ Created
  BY DEF Init, Working, Created
<1>3. mMailBoxes \in Seq(Entries) /\ DOMAIN mMailBoxes = {} /\ Range(mMailBoxes) = {}
  <2>1. mMailBoxes = <<>>
    BY DEF Init
  <2>2. mMailBoxes \in Seq(Entries) /\ DOMAIN mMailBoxes = {}
    BY <2>1
  <2> QED
    BY <2>2 DEF Range
<1>4. Mapped
  BY <1>3 DEF Init, Mapped, Ordered, Live
<1>5. Known = {}
  BY DEF Init, Known
<1>6. Asked
  BY <1>5 DEF Init, Asked
<1>7. mRefId \in Refs
  BY WidthsAssumption, RefsAssumption DEF Init, Refs
<1>8. Referred
  <2>1. mRefId[2] <= MaxWord + 1 /\ ref \in [Threads -> Refs \cup {NoRef}]
    BY RefsAssumption DEF Init
  <2>2. ~racedRef /\ racedRef \in BOOLEAN /\ \A t \in Threads : at[t] = "idle"
    BY DEF Init
  <2> QED
    BY <1>5, <1>7, <2>1, <2>2 DEF Referred
<1> QED
  BY <1>1, <1>2, <1>4, <1>6, <1>8 DEF Full

(* The rest of a thread's steps that have nothing to do with its mailbox.  *)
LEMMA WorkingNext ==
  ASSUME Inv, Working, [Next]_vars
  PROVE  Working'
<1> USE DEF Inv, TypeOK, Working, PortStages
<1>1. CASE NewNode
  BY <1>1 DEF NewNode, threads
<1>2. CASE (\E q \in asked : Answer(q)) \/ UNCHANGED vars
  <2>1. UNCHANGED <<self, life, threads>>
    BY <1>2 DEF Answer, vars, mailboxes
  <2> QED
    BY <2>1 DEF threads
<1>3. ASSUME NEW t \in Threads, NEW b \in Boxes \cup {NoBox}, NEW p \in BOOLEAN,
             CreatePid(t, b, p)
      PROVE  Working'
  <2> DEFINE new == ErlPid(mPidCount, mSerial, mCreation)
  <2>1. new # NoPid
    <3>1. new \in Pids
      BY PidIsPid
    <3> QED
      BY <3>1, NullAssumption
  <2>2. /\ at' = [at EXCEPT ![t] = "created"]
        /\ self' = IF b = NoBox THEN self ELSE [self EXCEPT ![b] = new]
        /\ life' = IF b = NoBox THEN life ELSE [life EXCEPT ![b] = "new"]
        /\ box' = [box EXCEPT ![t] = b]
        /\ pinging' = [pinging EXCEPT ![t] = p]
        /\ b = NoBox => ~p
    BY <1>3 DEF CreatePid
  <2> HIDE DEF new
  <2> QED
    BY <2>1, <2>2, NullAssumption
<1>4. ASSUME NEW t \in Threads, Counting(t) \/ Porting(t) PROVE Working'
  <2>1. CASE Counting(t)
    <3>1. PICK place \in {"counting", "counted", "carrying", "carryLoaded", "carried",
                          "idle", "adding"} :
            /\ at' = [at EXCEPT ![t] = place]
            /\ place = "idle" => box[t] = NoBox
            /\ place = "adding" => box[t] # NoBox
      BY <2>1, CountingEffect
    <3>2. UNCHANGED <<box, pinging, self, life>>
      BY <2>1, CountingEffect
    <3>3. /\ at'[t] = place /\ \A u \in Threads : u # t => at'[u] = at[u]
      BY <3>1
    <3>4. \A u \in Threads :
            /\ at'[u] \in {"boxed", "waiting", "referred"} => at'[u] = at[u]
            /\ at'[u] \in PortStages => at'[u] = at[u] \/ box[u] = NoBox
            /\ at'[u] = "adding" => at'[u] = at[u] \/ box[u] # NoBox
      BY <3>1, <3>3
    <3> QED
      BY <3>2, <3>4
  <2>2. CASE Porting(t)
    <3>1. PICK place \in PortStages : at' = [at EXCEPT ![t] = place]
      BY <2>2, PortingEffect
    <3>2. UNCHANGED <<box, pinging, self, life>> /\ box[t] = NoBox
      BY <2>2, PortingEffect
    <3>3. /\ at'[t] = place /\ \A u \in Threads : u # t => at'[u] = at[u]
      BY <3>1
    <3> QED
      BY <3>2, <3>3
  <2> QED
    BY <1>4, <2>1, <2>2
<1>5. ASSUME NEW t \in Threads, AddMailBox(t) PROVE Working'
  BY <1>5 DEF AddMailBox
<1>6. ASSUME NEW t \in Threads, CreateRef(t) \/ AdvanceRef(t) PROVE Working'
  BY <1>6 DEF CreateRef, AdvanceRef, mailboxes
<1>7. ASSUME NEW t \in Threads, PingEnds(t) PROVE Working'
  BY <1>7 DEF PingEnds
<1>8. ASSUME NEW t \in Threads, NEW b \in Boxes, Detach(t, b) PROVE Working'
  BY <1>8 DEF Detach, threads
<1>9. \/ NewNode
      \/ (\E q \in asked : Answer(q)) \/ UNCHANGED vars
      \/ \E t \in Threads, b \in Boxes \cup {NoBox}, p \in BOOLEAN : CreatePid(t, b, p)
      \/ \E t \in Threads :
           \/ Counting(t) \/ Porting(t)
           \/ AddMailBox(t) \/ CreateRef(t) \/ AdvanceRef(t) \/ PingEnds(t)
           \/ \E b \in Boxes : Detach(t, b)
  BY DEF Next, Pang, Pong, Counting, Porting
<1> HIDE DEF Working
<1> QED
  BY <1>1, <1>2, <1>3, <1>4, <1>5, <1>6, <1>7, <1>8, <1>9

LEMMA CreatedNext ==
  ASSUME Inv, Created, [Next]_vars
  PROVE  Created'
<1> USE DEF Inv, TypeOK, Created
<1>1. CASE NewNode
  <2>1. /\ mCreation' = mCreation + 1 /\ smCreationCounter' = mCreation' + 1
        /\ old' = old \/ \E b \in Boxes : old' = self[b]
        /\ \A b \in Boxes : self'[b] = NoPid
    BY <1>1 DEF NewNode, Counters, Range
  <2>2. mCreation < Creations => mCreation % Creations = mCreation
    BY WidthsAssumption
  <2>3. ASSUME old' # NoPid
        PROVE  old' \in Pids /\ (mCreation' < Creations => old'.creation < mCreation')
    <3>1. CASE old' = old
      <4>1. old \in Pids /\ (mCreation < Creations => old.creation < mCreation)
        BY <2>3, <3>1
      <4>2. old.creation \in Nat
        BY <4>1, WidthsAssumption DEF Pids
      <4> QED
        BY <2>1, <3>1, <4>1, <4>2, WidthsAssumption
    <3>2. CASE \E b \in Boxes : old' = self[b]
      <4>1. old' \in Pids /\ old'.creation = mCreation % Creations
        BY <2>3, <3>2
      <4> QED
        BY <2>1, <2>2, <4>1, WidthsAssumption
    <3> QED
      BY <2>1, <3>1, <3>2
  <2> QED
    BY <2>1, <2>3
<1>2. ASSUME NEW t \in Threads, NEW b \in Boxes \cup {NoBox}, NEW p \in BOOLEAN,
             CreatePid(t, b, p)
      PROVE  Created'
  <2> DEFINE new == ErlPid(mPidCount, mSerial, mCreation)
  <2>1. new.creation = mCreation % Creations
    BY DEF ErlPid
  <2>2. /\ self' = IF b = NoBox THEN self ELSE [self EXCEPT ![b] = new]
        /\ UNCHANGED <<smCreationCounter, mCreation, old>>
    BY <1>2 DEF CreatePid, counters
  <2> HIDE DEF new
  <2> QED
    BY <2>1, <2>2
<1>3. CASE UNCHANGED <<smCreationCounter, mCreation, old, self>>
  BY <1>3
<1>4. \/ NewNode
      \/ \E t \in Threads, b \in Boxes \cup {NoBox}, p \in BOOLEAN : CreatePid(t, b, p)
      \/ UNCHANGED <<smCreationCounter, mCreation, old, self>>
  <2>1. ASSUME NEW t \in Threads, Counting(t) \/ Porting(t)
        PROVE  UNCHANGED <<smCreationCounter, mCreation, old, self>>
    BY <2>1, CountingEffect, PortingEffect
  <2> QED
    BY <2>1 DEF Next, vars, counters, mailboxes, history, AddMailBox, CreateRef, AdvanceRef,
                Pang, Pong, PingEnds, Detach, Answer, Counting, Porting
<1> QED
  BY <1>1, <1>2, <1>3, <1>4

(* The pids in a map are of one creation.                                  *)
LEMMA MapHasOneCreation ==
  ASSUME Inv, Created, Mapped
  PROVE  \A e \in Range(mMailBoxes) : /\ e \in Entries /\ e.pid \in Pids
                                      /\ e.pid.creation = mCreation % Creations
<1>1. \A e \in Range(mMailBoxes) : e \in Entries
  BY DEF Mapped, Range
<1> QED
  BY <1>1, NullAssumption DEF Entries, Mapped, Created

LEMMA MappedNext ==
  ASSUME Inv, Inv', Working, Created, Mapped, [Next]_vars
  PROVE  Mapped'
<1>0. \A e \in Range(mMailBoxes) : /\ e.pid \in Pids /\ e.box \in Boxes
                                   /\ e.pid.creation = mCreation % Creations
  BY MapHasOneCreation DEF Entries
<1>1. CASE NewNode
  <2>1. mMailBoxes' = <<>> /\ mixed' = FALSE /\ \A b \in Boxes : life'[b] = "unused"
    BY <1>1 DEF NewNode
  <2>2. mMailBoxes' \in Seq(Entries) /\ DOMAIN mMailBoxes' = {}
    BY <2>1
  <2>3. Range(mMailBoxes') = {}
    BY <2>2 DEF Range
  <2> QED
    BY <2>1, <2>2, <2>3 DEF Mapped, Ordered, Live
<1>2. ASSUME NEW t \in Threads, NEW b \in Boxes \cup {NoBox}, NEW p \in BOOLEAN,
             CreatePid(t, b, p)
      PROVE  Mapped'
  <2>1. /\ UNCHANGED <<mMailBoxes, mixed, wrapped>>
        /\ b \in Boxes => life[b] = "unused"
        /\ \A c \in Boxes : c # b => self'[c] = self[c] /\ life'[c] = life[c]
        /\ b \in Boxes => life'[b] = "new"
        /\ ~racedPid' => ~racedPid
    BY <1>2, NullAssumption DEF CreatePid, Inv, TypeOK
  <2>2. \A e \in Range(mMailBoxes) : e.box # b
    BY <1>0, <2>1 DEF Mapped
  <2> QED
    BY <1>0, <2>1, <2>2 DEF Mapped, Live
<1>3. ASSUME NEW t \in Threads, Counting(t) \/ Porting(t)
      PROVE  Mapped'
  <2>1. UNCHANGED <<mMailBoxes, mixed, racedPid, self, life>> /\ (~wrapped' => ~wrapped)
    BY <1>3, CountingEffect, PortingEffect DEF Inv
  <2> QED
    BY <2>1 DEF Mapped
<1>4. ASSUME NEW t \in Threads, AddMailBox(t)
      PROVE  Mapped'
  <2> DEFINE b == box[t]
             entry == [pid |-> self[b], box |-> b]
  <2>1. b \in Boxes /\ self[b] \in Pids /\ self[b].creation = mCreation % Creations
    BY <1>4 DEF AddMailBox, Working, Created, Inv, TypeOK
  <2>2. /\ mMailBoxes' \in Assign(mMailBoxes, self[b], b)
        /\ UNCHANGED <<self, racedPid, wrapped>>
        /\ ~mixed' => ~mixed /\ \A i, j \in DOMAIN mMailBoxes' :
                                  mMailBoxes'[i].pid.serial = mMailBoxes'[j].pid.serial
        /\ mixed' \in BOOLEAN
    BY <1>4 DEF AddMailBox, Mapped
  <2>3. /\ life'[b] \in Live
        /\ \A c \in Boxes : c # b => life'[c] = life[c]
    BY <1>4, <2>1 DEF AddMailBox, Live, Inv, TypeOK
  <2>4. /\ mMailBoxes' \in Seq(Entries)
        /\ entry \in Range(mMailBoxes')
        /\ \A e \in Range(mMailBoxes') : e \in Range(mMailBoxes) \/ e = entry
        /\ \A e \in Range(mMailBoxes) : e \in Range(mMailBoxes') \/ e.pid = self[b]
        /\ Ordered(mMailBoxes) /\ (\A e, f \in Range(mMailBoxes') :
                                     /\ e.pid.serial = f.pid.serial
                                     /\ e.pid.creation = f.pid.creation)
             => Ordered(mMailBoxes')
    BY <2>1, <2>2, AssignEffect DEF Mapped
  <2>5. entry.pid = self[b] /\ entry.box = b
    OBVIOUS
  <2> HIDE DEF entry
  <2>6. \A e \in Range(mMailBoxes') : e.pid = self'[e.box] /\ life'[e.box] # "unused"
    BY <1>0, <2>1, <2>2, <2>3, <2>4, <2>5 DEF Mapped, Live
  <2>7. ASSUME ~mixed'
        PROVE  /\ Ordered(mMailBoxes')
               /\ \A e \in Range(mMailBoxes') : life'[e.box] \in Live
    <3>1. \A e \in Range(mMailBoxes') : e.pid.creation = mCreation % Creations
      BY <1>0, <2>1, <2>4, <2>5
    <3>2. \A e, f \in Range(mMailBoxes') : e.pid.serial = f.pid.serial
      BY <2>2, <2>7 DEF Range
    <3>3. Ordered(mMailBoxes')
      BY <2>2, <2>4, <2>7, <3>1, <3>2 DEF Mapped
    <3>4. \A e \in Range(mMailBoxes') : life'[e.box] \in Live
      BY <1>0, <2>2, <2>3, <2>4, <2>5, <2>7 DEF Mapped
    <3> QED
      BY <3>3, <3>4
  <2>8. ASSUME ~mixed', ~racedPid', ~wrapped', NEW c \in Boxes, life'[c] \in Live
        PROVE  \E e \in Range(mMailBoxes') : e.box = c
    <3>1. CASE c = b
      BY <2>4, <2>5, <3>1
    <3>2. CASE c # b
      <4>1. PICK e \in Range(mMailBoxes) : e.box = c
        BY <2>2, <2>3, <2>8, <3>2 DEF Mapped
      <4>2. e.pid = self[c] /\ e.pid \in Pids
        BY <1>0, <4>1 DEF Mapped
      <4>3. e.pid # self[b]
        BY <2>1, <2>2, <2>8, <3>2, <4>2, NullAssumption DEF Inv, PidsAreUnique
      <4> QED
        BY <2>4, <4>1, <4>3
    <3> QED
      BY <3>1, <3>2
  <2> QED
    BY <2>2, <2>4, <2>6, <2>7, <2>8 DEF Mapped
<1>5. ASSUME NEW t \in Threads, NEW b \in Boxes, Detach(t, b)
      PROVE  Mapped'
  <2> DEFINE keys == {e.pid : e \in {f \in Range(mMailBoxes) : f.box = b}}
  <2>1. /\ UNCHANGED <<self, racedPid, wrapped, mixed>>
        /\ life' = [life EXCEPT ![b] = "detached"]
        /\ IF keys = {} THEN UNCHANGED mMailBoxes
           ELSE \E key \in keys : mMailBoxes' \in Erase(mMailBoxes, key)
    BY <1>5 DEF Detach, history
  <2>2. \A key \in keys : key = self[b] /\ key \in Pids
    BY <1>0 DEF Mapped
  <2>3. /\ mMailBoxes' \in Seq(Entries) /\ Range(mMailBoxes') \subseteq Range(mMailBoxes)
        /\ Ordered(mMailBoxes) => Ordered(mMailBoxes')
    BY <2>1, <2>2, EraseEffect DEF Mapped
  <2>4. Ordered(mMailBoxes) =>
          \A e \in Range(mMailBoxes) : e \in Range(mMailBoxes') <=> e.box # b
    <3> SUFFICES ASSUME Ordered(mMailBoxes), NEW e \in Range(mMailBoxes)
                 PROVE  e \in Range(mMailBoxes') <=> e.box # b
      OBVIOUS
    <3>1. CASE keys = {}
      BY <2>1, <3>1
    <3>2. CASE keys # {}
      <4>1. mMailBoxes' \in Erase(mMailBoxes, self[b]) /\ self[b] \in Pids
        BY <2>1, <2>2, <3>2
      <4>2. e \in Range(mMailBoxes') <=> e.pid # self[b]
        BY <4>1, EraseEffect DEF Mapped
      <4>3. PICK f \in Range(mMailBoxes) : f.box = b /\ f.pid = self[b]
        BY <2>2, <3>2
      <4>4. e.pid = self[b] => e.box = b
        <5>1. f.pid = e.pid => GetMailBox(mMailBoxes, e.pid) = {f.box}
          BY <1>0, <4>3, GetMailBoxEffect DEF Mapped
        <5>2. GetMailBox(mMailBoxes, e.pid) = {e.box}
          BY <1>0, GetMailBoxEffect DEF Mapped
        <5> QED
          BY <4>3, <5>1, <5>2
      <4>5. e.box = b => e.pid = self[b]
        BY DEF Mapped
      <4> QED
        BY <4>2, <4>4, <4>5
    <3> QED
      BY <3>1, <3>2
  <2>5. \A c \in Boxes : life'[c] = IF c = b THEN "detached" ELSE life[c]
    BY <2>1 DEF Inv, TypeOK
  <2>6. \A e \in Range(mMailBoxes') : e.pid = self'[e.box] /\ life'[e.box] # "unused"
    BY <1>0, <2>1, <2>3, <2>5 DEF Mapped
  <2>7. ASSUME ~mixed'
        PROVE  /\ Ordered(mMailBoxes')
               /\ \A e \in Range(mMailBoxes') : life'[e.box] \in Live
               /\ ~racedPid' /\ ~wrapped' =>
                    \A c \in Boxes : life'[c] \in Live =>
                      \E e \in Range(mMailBoxes') : e.box = c
    BY <1>0, <2>1, <2>3, <2>4, <2>5, <2>7 DEF Mapped, Live
  <2> QED
    BY <2>1, <2>3, <2>6, <2>7 DEF Mapped
<1>6. CASE UNCHANGED <<mMailBoxes, self, life, racedPid, wrapped, mixed>>
  BY <1>6 DEF Mapped
<1>7. \/ NewNode
      \/ \E t \in Threads, b \in Boxes \cup {NoBox}, p \in BOOLEAN : CreatePid(t, b, p)
      \/ \E t \in Threads :
           Counting(t) \/ Porting(t) \/ AddMailBox(t) \/ (\E b \in Boxes : Detach(t, b))
      \/ UNCHANGED <<mMailBoxes, self, life, racedPid, wrapped, mixed>>
  BY DEF Next, vars, counters, mailboxes, history, Counting, Porting,
         CreateRef, AdvanceRef, Pang, Pong, PingEnds, Answer
<1> QED
  BY <1>1, <1>2, <1>3, <1>4, <1>5, <1>6, <1>7

(* A step that asks nothing makes no new question.                         *)
LEMMA KnownShrinks ==
  ASSUME asked' \subseteq asked, \A b \in Boxes : inbox'[b] \subseteq inbox[b]
  PROVE  Known' \subseteq Known
BY DEF Known

LEMMA AskedNext ==
  ASSUME Inv, Working, Mapped, Asked, Referred, [Next]_vars
  PROVE  Asked'
<1>0. \A q \in Known : q \in Questions /\ q.call \in Boxes /\ q.pid \in Pids
  BY DEF Known, Asked, Questions
<1>1. CASE NewNode
  <2>1. asked' = {} /\ inbox' = [b \in Boxes |-> {}]
    BY <1>1 DEF NewNode
  <2> QED
    BY <2>1 DEF Asked, Known
<1>2. ASSUME NEW t \in Threads, NEW b \in Boxes \cup {NoBox}, NEW p \in BOOLEAN,
             CreatePid(t, b, p)
      PROVE  Asked'
  <2>1. /\ UNCHANGED <<asked, inbox, wrapped>>
        /\ b \in Boxes => life[b] = "unused"
        /\ \A c \in Boxes : c # b => self'[c] = self[c] /\ life'[c] = life[c]
        /\ ~racedPid' => ~racedPid
    BY <1>2, NullAssumption DEF CreatePid, Inv, TypeOK
  <2>2. Known' = Known /\ \A q \in Known : q.call # b
    BY <1>0, <2>1 DEF Asked, Known
  <2> QED
    BY <1>0, <2>1, <2>2 DEF Asked
<1>3. ASSUME NEW t \in Threads, Counting(t) \/ Porting(t)
      PROVE  Asked'
  <2>1. UNCHANGED <<asked, inbox, self, life, racedPid>> /\ (~wrapped' => ~wrapped)
    BY <1>3, CountingEffect, PortingEffect DEF Inv
  <2> QED
    BY <2>1 DEF Asked, Known
<1>4. ASSUME NEW t \in Threads, AddMailBox(t)
      PROVE  Asked'
  <2>1. /\ UNCHANGED <<asked, inbox, self, racedPid, wrapped>>
        /\ \A c \in Boxes : life'[c] = "unused" => life[c] = "unused"
    BY <1>4 DEF AddMailBox, Inv, TypeOK
  <2> QED
    BY <1>0, <2>1 DEF Asked, Known
<1>5. ASSUME NEW t \in Threads, NEW b \in Boxes, Detach(t, b)
      PROVE  Asked'
  <2>1. /\ UNCHANGED <<asked, self, racedPid, wrapped>>
        /\ inbox' = [inbox EXCEPT ![b] = {}]
        /\ \A c \in Boxes : life'[c] = "unused" => life[c] = "unused"
    BY <1>5 DEF Detach, history, Inv, TypeOK
  <2>2. inbox' \in [Boxes -> SUBSET Questions] /\ \A c \in Boxes : inbox'[c] \subseteq inbox[c]
    BY <2>1 DEF Asked
  <2>3. Known' \subseteq Known
    BY <2>1, <2>2, KnownShrinks
  <2> QED
    BY <1>0, <2>1, <2>2, <2>3 DEF Asked
<1>6. ASSUME NEW t \in Threads, AdvanceRef(t)
      PROVE  Asked'
  <2> DEFINE question == [pid |-> self[box[t]], ref |-> ref[t], call |-> box[t]]
  <2>1. /\ asked' \subseteq asked \cup {question}
        /\ asked' = asked \/ pinging[t]
        /\ UNCHANGED <<inbox, self, life, racedPid, wrapped>>
    BY <1>6 DEF AdvanceRef, mailboxes, history
  <2>2. ASSUME pinging[t]
        PROVE  question \in Questions /\ life[box[t]] # "unused"
    <3>1. box[t] \in Boxes /\ self[box[t]] \in Pids /\ life[box[t]] # "unused"
      BY <2>2 DEF Working, Inv, TypeOK
    <3>2. ref[t] \in Refs
      BY <1>6 DEF AdvanceRef, Referred
    <3> QED
      BY <3>1, <3>2 DEF Questions
  <2>3. /\ question.pid = self[question.call] /\ question.call = box[t]
    OBVIOUS
  <2> HIDE DEF question
  <2>4. \A q \in Known' : q \in Known \/ (q = question /\ pinging[t])
    BY <2>1 DEF Known
  <2> QED
    BY <2>1, <2>2, <2>3, <2>4 DEF Asked
<1>7. ASSUME NEW q \in asked, Answer(q)
      PROVE  Asked'
  <2>1. asked' \subseteq asked /\ UNCHANGED <<mMailBoxes, self, life, racedPid, wrapped>>
    BY <1>7 DEF Answer, history
  <2>2. PICK b \in GetMailBox(mMailBoxes, q.pid) :
          inbox' = IF b = NoBox THEN inbox ELSE [inbox EXCEPT ![b] = @ \cup {q}]
    BY <1>7 DEF Answer
  <2>3. q \in Known /\ q \in Questions
    BY <1>0 DEF Known
  <2>4. CASE b = NoBox
    <3>1. inbox' = inbox
      BY <2>2, <2>4
    <3>2. Known' \subseteq Known
      BY <2>1, <3>1, KnownShrinks
    <3> QED
      BY <2>1, <3>1, <3>2 DEF Asked
  <2>5. CASE b # NoBox
    <3>1. [pid |-> q.pid, box |-> b] \in Range(mMailBoxes)
      BY <1>0, <2>3, <2>5, GetMailBoxEffect DEF Mapped
    <3>2. [pid |-> q.pid, box |-> b] \in Entries
      BY <3>1 DEF Mapped, Range
    <3>3. b \in Boxes /\ self[b] = q.pid
      BY <3>1, <3>2 DEF Mapped, Entries
    <3>4. /\ inbox' \in [Boxes -> SUBSET Questions]
          /\ \A c \in Boxes : inbox'[c] = IF c = b THEN inbox[b] \cup {q} ELSE inbox[c]
      BY <2>2, <2>3, <2>5, <3>3 DEF Asked
    <3>5. Known' \subseteq Known
      BY <2>1, <2>3, <3>4 DEF Known
    <3>6. ~racedPid /\ ~wrapped => q.call = b
      BY <1>0, <2>3, <3>3, NullAssumption DEF Asked, Inv, PidsAreUnique
    <3> QED
      BY <2>1, <3>4, <3>5, <3>6 DEF Asked
  <2> QED
    BY <2>4, <2>5
<1>8. ASSUME NEW t \in Threads, NEW b \in Boxes, NEW answer \in inbox[b], Pong(t, answer)
      PROVE  Asked'
  <2>1. box[t] \in Boxes
    BY <1>8 DEF Pong, Working, Inv, TypeOK
  <2>2. /\ inbox' = [inbox EXCEPT ![box[t]] = @ \ {answer}]
        /\ UNCHANGED <<asked, self, life, racedPid, wrapped>>
    BY <1>8 DEF Pong, PingEnds, history
  <2>3. inbox' \in [Boxes -> SUBSET Questions] /\ \A c \in Boxes : inbox'[c] \subseteq inbox[c]
    BY <2>1, <2>2 DEF Asked
  <2>4. Known' \subseteq Known
    BY <2>2, <2>3, KnownShrinks
  <2> QED
    BY <2>2, <2>3, <2>4 DEF Asked
<1>9. CASE UNCHANGED <<asked, inbox, self, life, racedPid, wrapped>>
  BY <1>9 DEF Asked, Known
<1>10. \/ NewNode
       \/ \E t \in Threads, b \in Boxes \cup {NoBox}, p \in BOOLEAN : CreatePid(t, b, p)
       \/ \E t \in Threads :
            \/ Counting(t) \/ Porting(t) \/ AddMailBox(t) \/ AdvanceRef(t)
            \/ \E b \in Boxes : Detach(t, b)
            \/ \E b \in Boxes : \E answer \in inbox[b] : Pong(t, answer)
       \/ \E q \in asked : Answer(q)
       \/ UNCHANGED <<asked, inbox, self, life, racedPid, wrapped>>
  BY DEF Next, vars, counters, mailboxes, history, Counting, Porting, CreateRef, Pang, PingEnds
<1> QED
  BY <1>1, <1>2, <1>3, <1>4, <1>5, <1>6, <1>7, <1>8, <1>9, <1>10

(* The next reference is another one, and later, unless it goes round.     *)
LEMMA NextRefIsLater ==
  ASSUME NEW r \in Refs
  PROVE  /\ NextRef(r) \in Refs
         /\ r[2] <= MaxWord =>
              /\ NextRef(r)[2] <= MaxWord + 1
              /\ \A s \in Refs : EarlierRef(s, r) \/ s = r => EarlierRef(s, NextRef(r))
<1>0. /\ r[1] \in 0..MaxRefId /\ r[2] \in 0..Words - 1 /\ r[3] \in 0..Words - 1
      /\ Words \in Nat \ {0} /\ MaxRefId \in Nat /\ MaxWord \in Nat /\ MaxWord + 1 < Words
  BY WidthsAssumption, RefsAssumption DEF Refs
<1>1. \A k \in Nat : k % Words \in 0..Words - 1
  BY <1>0
<1>2. NextRef(r) \in Refs
  BY <1>0, <1>1 DEF NextRef, Refs
<1>3. ASSUME r[2] <= MaxWord
      PROVE  /\ NextRef(r)[2] = IF r[1] + 1 <= MaxRefId THEN r[2] ELSE r[2] + 1
             /\ r[1] + 1 <= MaxRefId => NextRef(r)[1] = r[1] + 1
  <2>1. (r[2] + 1) % Words = r[2] + 1
    BY <1>0, <1>3
  <2> QED
    BY <1>0, <2>1 DEF NextRef
<1>4. ASSUME r[2] <= MaxWord, NEW s \in Refs, EarlierRef(s, r) \/ s = r
      PROVE  EarlierRef(s, NextRef(r))
  <2>1. s[1] \in 0..MaxRefId /\ s[2] \in 0..Words - 1
    BY DEF Refs
  <2> QED
    BY <1>0, <1>3, <1>4, <2>1 DEF EarlierRef
<1> QED
  BY <1>0, <1>2, <1>3, <1>4

LEMMA ReferredNext ==
  ASSUME Inv, Working, Mapped, Asked, Asked', Referred, [Next]_vars
  PROVE  Referred'
<1>0. \A q \in Known : q.ref \in Refs
  BY DEF Known, Asked, Questions
<1>1. CASE NewNode
  <2>1. /\ mRefId' = <<1, 0, 0>> /\ racedRef' = FALSE /\ Known' = {}
        /\ ref' = ref /\ \A t \in Threads : at'[t] = "idle"
    BY <1>1 DEF NewNode, Counters, Known, threads
  <2>2. mRefId' \in Refs /\ mRefId'[2] <= MaxWord + 1
    BY <2>1, WidthsAssumption, RefsAssumption DEF Refs
  <2> QED
    BY <2>1, <2>2 DEF Referred
<1>2. ASSUME Known' \subseteq Known, UNCHANGED <<mRefId, racedRef>>,
             ref' \in [Threads -> Refs \cup {NoRef}],
             \A t \in Threads : /\ at'[t] = "referred" => at[t] = "referred" /\ ref'[t] = ref[t]
                                /\ at'[t] = "waiting" => /\ at[t] = "waiting" /\ ref'[t] = ref[t]
                                                         /\ box'[t] = box[t]
      PROVE  Referred'
  BY <1>2 DEF Referred
<1>3. ASSUME NEW t \in Threads, CreateRef(t)
      PROVE  Referred'
  <2>1. /\ ref' = [ref EXCEPT ![t] = mRefId]
        /\ racedRef' = (racedRef \/ \E u \in Threads : at[u] = "referred")
        /\ at' = [at EXCEPT ![t] = "referred"] /\ mRefId[2] <= MaxWord
        /\ UNCHANGED <<mRefId, asked, inbox, box>>
    BY <1>3 DEF CreateRef, counters, mailboxes
  <2>2. Known' = Known
    BY <2>1 DEF Known
  <2>3. \A u \in Threads : /\ at'[u] = IF u = t THEN "referred" ELSE at[u]
                           /\ ref'[u] = IF u = t THEN mRefId ELSE ref[u]
    BY <2>1 DEF Inv, TypeOK, Referred
  <2>4. ref' \in [Threads -> Refs \cup {NoRef}] /\ racedRef' \in BOOLEAN
    BY <2>1 DEF Referred
  <2>5. \A u \in Threads : at'[u] \in {"referred", "waiting"} => ref'[u] \in Refs
    BY <2>3 DEF Referred
  <2>6. ASSUME ~racedRef'
        PROVE  ~racedRef /\ \A u \in Threads : at[u] # "referred"
    BY <2>1, <2>6 DEF Referred
  <2>7. ASSUME ~racedRef', NEW u \in Threads, at'[u] = "referred"
        PROVE  u = t /\ ref'[u] = mRefId'
    BY <2>1, <2>3, <2>6, <2>7
  <2>8. ASSUME ~racedRef', NEW u \in Threads, at'[u] = "waiting"
        PROVE  /\ EarlierRef(ref'[u], mRefId')
               /\ \A q \in Known' : q.ref = ref'[u] => q.call = box'[u]
    <3>1. at[u] = "waiting" /\ ref'[u] = ref[u] /\ box'[u] = box[u] /\ mRefId' = mRefId
      BY <2>1, <2>3, <2>8
    <3> QED
      BY <2>2, <2>6, <2>8, <3>1 DEF Referred
  <2>9. ASSUME ~racedRef'
        PROVE  mRefId'[2] <= MaxWord + 1 /\ \A q \in Known' : EarlierRef(q.ref, mRefId')
    BY <2>1, <2>2, <2>6, <2>9 DEF Referred
  <2>10. mRefId' \in Refs /\ mRefId'[2] <= MaxWord
    BY <2>1 DEF Referred
  <2> QED
    BY <2>4, <2>5, <2>7, <2>8, <2>9, <2>10 DEF Referred
<1>4. ASSUME NEW t \in Threads, AdvanceRef(t)
      PROVE  Referred'
  <2> DEFINE question == [pid |-> self[box[t]], ref |-> ref[t], call |-> box[t]]
  <2>1. /\ at[t] = "referred" /\ \E r \in {mRefId, ref[t]} : mRefId' = NextRef(r)
        /\ \/ /\ asked' = asked \cup {question}
              /\ at' = [at EXCEPT ![t] = "waiting"] /\ ref' = ref
           \/ /\ asked' = asked
              /\ at' = [at EXCEPT ![t] = "idle"] /\ ref' = [ref EXCEPT ![t] = NoRef]
        /\ UNCHANGED <<inbox, box, racedRef>>
    BY <1>4 DEF AdvanceRef, mailboxes, history
  <2>2. question.ref = ref[t] /\ question.call = box[t]
    OBVIOUS
  <2> HIDE DEF question
  <2>3. \A q \in Known' : q \in Known \/ q = question
    BY <2>1 DEF Known
  <2>4. ref[t] \in Refs /\ mRefId \in Refs
    BY <2>1 DEF Referred
  <2>5. mRefId' \in Refs
    BY <2>1, <2>4, NextRefIsLater
  <2>6. ref' \in [Threads -> Refs \cup {NoRef}]
    BY <2>1 DEF Referred
  <2>7. \A u \in Threads : u # t => at'[u] = at[u] /\ ref'[u] = ref[u]
    BY <2>1 DEF Inv, TypeOK, Referred
  <2>8. /\ at'[t] \in {"waiting", "idle"}
        /\ at'[t] = "waiting" => ref'[t] = ref[t]
    BY <2>1 DEF Inv, TypeOK
  <2>9. ASSUME ~racedRef
        PROVE  /\ mRefId'[2] <= MaxWord + 1
               /\ \A u \in Threads : at'[u] # "referred"
               /\ \A q \in Known' : EarlierRef(q.ref, mRefId')
               /\ \A u \in Threads : at'[u] = "waiting" =>
                    /\ EarlierRef(ref'[u], mRefId')
                    /\ \A q \in Known' : q.ref = ref'[u] => q.call = box'[u]
    <3>1. ref[t] = mRefId /\ mRefId[2] <= MaxWord /\ mRefId' = NextRef(mRefId)
      BY <2>1, <2>9 DEF Referred
    <3>2. /\ mRefId'[2] <= MaxWord + 1
          /\ \A s \in Refs : EarlierRef(s, mRefId) \/ s = mRefId => EarlierRef(s, mRefId')
      BY <2>4, <3>1, NextRefIsLater
    <3>3. \A u \in Threads : at'[u] # "referred"
      BY <2>1, <2>7, <2>8, <2>9 DEF Referred
    <3>4. \A q \in Known : EarlierRef(q.ref, mRefId) /\ q.ref # mRefId
      <4>1. ~EarlierRef(mRefId, mRefId)
        BY <2>4, WidthsAssumption DEF EarlierRef, Refs
      <4> QED
        BY <2>9, <4>1 DEF Referred
    <3>5. \A q \in Known' : EarlierRef(q.ref, mRefId')
      BY <1>0, <2>2, <2>3, <2>4, <3>1, <3>2, <3>4
    <3>6. ASSUME NEW u \in Threads, at'[u] = "waiting"
          PROVE  /\ EarlierRef(ref'[u], mRefId')
                 /\ \A q \in Known' : q.ref = ref'[u] => q.call = box'[u]
      <4>1. CASE u = t
        BY <2>1, <2>2, <2>3, <2>4, <2>8, <3>1, <3>2, <3>4, <3>6, <4>1
      <4>2. CASE u # t
        <5>1. /\ at[u] = "waiting" /\ ref'[u] = ref[u] /\ box'[u] = box[u]
              /\ ref[u] \in Refs /\ EarlierRef(ref[u], mRefId)
              /\ \A q \in Known : q.ref = ref[u] => q.call = box[u]
          BY <2>1, <2>7, <2>9, <3>6, <4>2 DEF Referred
        <5>2. ref[u] # mRefId
          BY <2>4, <5>1, WidthsAssumption DEF EarlierRef, Refs
        <5> QED
          BY <2>2, <2>3, <3>1, <3>2, <5>1, <5>2
      <4> QED
        BY <4>1, <4>2
    <3> QED
      BY <3>2, <3>3, <3>5, <3>6
  <2>10. \A u \in Threads : at'[u] \in {"referred", "waiting"} => ref'[u] \in Refs
    BY <2>4, <2>7, <2>8 DEF Referred
  <2>11. racedRef' = racedRef /\ racedRef \in BOOLEAN
    BY <2>1 DEF Referred
  <2> QED
    BY <2>5, <2>6, <2>9, <2>10, <2>11 DEF Referred
<1>5. ASSUME NEW q \in asked, Answer(q)
      PROVE  Referred'
  <2>1. /\ asked' \subseteq asked /\ UNCHANGED <<mRefId, racedRef, ref, at, box, mMailBoxes>>
    BY <1>5 DEF Answer, counters, threads, history
  <2>2. PICK b \in GetMailBox(mMailBoxes, q.pid) :
          inbox' = IF b = NoBox THEN inbox ELSE [inbox EXCEPT ![b] = @ \cup {q}]
    BY <1>5 DEF Answer
  <2>3. \A c \in Boxes : inbox'[c] \subseteq inbox[c] \cup {q}
    BY <2>2 DEF Asked
  <2>4. Known' \subseteq Known
    BY <2>1, <2>3 DEF Known
  <2> QED
    BY <1>2, <2>1, <2>4 DEF Referred
<1>6. ASSUME NEW t \in Threads, PingEnds(t), \A c \in Boxes : inbox'[c] \subseteq inbox[c]
      PROVE  Referred'
  <2>1. /\ at' = [at EXCEPT ![t] = "idle"] /\ box' = [box EXCEPT ![t] = NoBox]
        /\ ref' = [ref EXCEPT ![t] = NoRef]
        /\ UNCHANGED <<mRefId, racedRef, asked>>
    BY <1>6 DEF PingEnds, counters, history
  <2>2. Known' \subseteq Known
    BY <1>6, <2>1, KnownShrinks
  <2>3. /\ ref' \in [Threads -> Refs \cup {NoRef}]
        /\ \A u \in Threads : /\ u = t => at'[u] = "idle"
                              /\ u # t => at'[u] = at[u] /\ ref'[u] = ref[u] /\ box'[u] = box[u]
    BY <2>1 DEF Inv, TypeOK, Referred
  <2> QED
    BY <1>2, <2>1, <2>2, <2>3
<1>7. ASSUME NEW t \in Threads, NEW b \in Boxes, Detach(t, b)
      PROVE  Referred'
  <2>1. /\ inbox' = [inbox EXCEPT ![b] = {}]
        /\ UNCHANGED <<mRefId, racedRef, asked, at, box, ref>>
    BY <1>7 DEF Detach, counters, threads, history
  <2>2. \A c \in Boxes : inbox'[c] \subseteq inbox[c]
    BY <2>1 DEF Asked
  <2>3. Known' \subseteq Known
    BY <2>1, <2>2, KnownShrinks
  <2> QED
    BY <1>2, <2>1, <2>3 DEF Referred
<1>8. ASSUME NEW t \in Threads, NEW b \in Boxes \cup {NoBox}, NEW p \in BOOLEAN,
             CreatePid(t, b, p) \/ Counting(t) \/ Porting(t) \/ AddMailBox(t)
      PROVE  Referred'
  <2>1. /\ UNCHANGED <<mRefId, racedRef, asked, inbox, ref>>
        /\ at'[t] # "referred" /\ at'[t] # "waiting"
        /\ \A u \in Threads : u # t => at'[u] = at[u] /\ box'[u] = box[u]
    <3>1. CASE CreatePid(t, b, p) \/ AddMailBox(t)
      BY <3>1 DEF CreatePid, AddMailBox, counters, mailboxes, Inv, TypeOK
    <3>2. CASE Counting(t)
      BY <3>2, CountingEffect DEF Inv, TypeOK
    <3>3. CASE Porting(t)
      BY <3>3, PortingEffect DEF Inv, TypeOK, PortStages
    <3> QED
      BY <1>8, <3>1, <3>2, <3>3
  <2>2. Known' \subseteq Known
    BY <2>1 DEF Known
  <2> QED
    BY <1>2, <2>1, <2>2 DEF Referred
<1>9. CASE UNCHANGED <<mRefId, racedRef, asked, inbox, ref, at, box>>
  BY <1>9 DEF Referred, Known
<1>10. ASSUME NEW t \in Threads, NEW b \in Boxes, NEW answer \in inbox[b], Pong(t, answer)
       PROVE  Referred'
  <2>1. box[t] \in Boxes
    BY <1>10 DEF Pong, Working, Inv, TypeOK
  <2>2. inbox' = [inbox EXCEPT ![box[t]] = @ \ {answer}] /\ PingEnds(t)
    BY <1>10 DEF Pong
  <2>3. \A c \in Boxes : inbox'[c] \subseteq inbox[c]
    BY <2>1, <2>2 DEF Asked
  <2> QED
    BY <1>6, <2>2, <2>3
<1>11. \/ NewNode
       \/ \E t \in Threads, b \in Boxes \cup {NoBox}, p \in BOOLEAN : CreatePid(t, b, p)
       \/ \E t \in Threads :
            \/ Counting(t) \/ Porting(t) \/ AddMailBox(t) \/ CreateRef(t) \/ AdvanceRef(t)
            \/ PingEnds(t) /\ inbox' = inbox
            \/ \E b \in Boxes : Detach(t, b)
            \/ \E b \in Boxes : \E answer \in inbox[b] : Pong(t, answer)
       \/ \E q \in asked : Answer(q)
       \/ UNCHANGED <<mRefId, racedRef, asked, inbox, ref, at, box>>
  BY DEF Next, vars, counters, mailboxes, threads, history, Counting, Porting, Pang
<1> QED
  BY <1>1, <1>3, <1>4, <1>5, <1>6, <1>7, <1>8, <1>9, <1>10, <1>11

LEMMA FullNext == Full /\ [Next]_vars => Full'
<1> SUFFICES ASSUME Full, [Next]_vars PROVE Full'
  OBVIOUS
<1>1. Inv' /\ Working' /\ Created'
  BY NextInv, WorkingNext, CreatedNext DEF Full
<1>2. Mapped'
  BY <1>1, MappedNext DEF Full
<1>3. Asked'
  BY AskedNext DEF Full
<1>4. Referred'
  BY <1>3, ReferredNext DEF Full
<1> QED
  BY <1>1, <1>2, <1>3, <1>4 DEF Full

LEMMA Invariance == Spec => []Full
BY FullInit, FullNext, PTL DEF Spec

-----------------------------------------------------------------------------
(* getMailBox() (EpiAutoNode.cpp:430) finds every attached mailbox under   *)
(* its pid, whatever the shape of the tree, while pids are unique and of   *)
(* one serial.                                                             *)
THEOREM MailBoxesAreFound == Spec => []EveryMailBoxIsFound
<1>1. Full => EveryMailBoxIsFound
  <2> SUFFICES ASSUME Full, ~racedPid, ~wrapped, ~mixed,
                      NEW b \in Boxes, life[b] \in {"attached", "pinged"}
               PROVE  GetMailBox(mMailBoxes, self[b]) = {b}
    BY DEF EveryMailBoxIsFound
  <2>1. PICK e \in Range(mMailBoxes) : e.box = b
    BY DEF Full, Mapped, Live
  <2>2. e.pid = self[b] /\ e.pid \in Pids
    BY <2>1, MapHasOneCreation DEF Full, Mapped
  <2> QED
    BY <2>1, <2>2, GetMailBoxEffect DEF Full, Mapped
<1> QED
  BY <1>1, Invariance, PTL

(* deattachMailBox() (EpiAutoNode.cpp:142) leaves nothing of the mailbox   *)
(* in the map while the pids are of one serial, even if threads raced.     *)
THEOREM ForgottenMailBoxes == Spec => []DetachedMailBoxesAreForgotten
<1>1. Full => DetachedMailBoxesAreForgotten
  BY DEF Full, Mapped, Live, DetachedMailBoxesAreForgotten, Range
<1> QED
  BY <1>1, Invariance, PTL

(* The pid of a mailbox of an earlier node finds no mailbox of this one    *)
(* before the two bits of the creation have come round, since each node is *)
(* given the next (LocalNode::init(), EpiLocalNode.cpp).                   *)
THEOREM StalePids == Spec => []StalePidsFindNothing
<1>1. Full => StalePidsFindNothing
  <2> SUFFICES ASSUME Full, smCreationCounter <= Creations, old # NoPid
               PROVE  GetMailBox(mMailBoxes, old) = {NoBox}
    BY DEF StalePidsFindNothing
  <2>1. mCreation \in Nat /\ mCreation < Creations
    BY WidthsAssumption DEF Full, Created, Inv, TypeOK
  <2>2. old \in Pids /\ old.creation < mCreation /\ mCreation % Creations = mCreation
    BY <2>1, WidthsAssumption DEF Full, Created
  <2>3. ASSUME NEW b \in GetMailBox(mMailBoxes, old), b # NoBox
        PROVE  FALSE
    <3>1. [pid |-> old, box |-> b] \in Range(mMailBoxes)
      BY <2>2, <2>3, GetMailBoxEffect DEF Full, Mapped
    <3>2. old.creation = mCreation
      BY <2>2, <3>1, MapHasOneCreation DEF Full
    <3> QED
      BY <2>1, <2>2, <3>2
  <2>4. GetMailBox(mMailBoxes, old) # {}
    BY <2>2, GetMailBoxEffect DEF Full, Mapped
  <2> QED
    BY <2>3, <2>4
<1> QED
  BY <1>1, Invariance, PTL

(* ping() (EpiAutoNode.cpp:256) takes for its answer only the answer to    *)
(* its own question, which either its fresh mailbox or its fresh reference *)
(* tells apart.                                                            *)
THEOREM OwnPongs == Spec => PongsAreOwn
<1> DEFINE Step == \A t \in Threads : \A b \in Boxes : \A answer \in inbox[b] :
                     Pong(t, answer) /\ ~(racedRef /\ (racedPid \/ wrapped))
                       => answer.call = box[t]
<1>1. ASSUME Full
      PROVE  Step
  <2> SUFFICES ASSUME NEW t \in Threads, NEW b \in Boxes, NEW answer \in inbox[b],
                      Pong(t, answer), ~(racedRef /\ (racedPid \/ wrapped))
               PROVE  answer.call = box[t]
    OBVIOUS
  <2>1. at[t] = "waiting" /\ answer \in inbox[box[t]] /\ answer.ref = ref[t]
    BY DEF Pong
  <2>2. box[t] \in Boxes
    BY <1>1, <2>1 DEF Full, Working, Inv, TypeOK
  <2>3. CASE ~racedRef
    BY <1>1, <2>1, <2>2, <2>3 DEF Full, Referred, Known
  <2>4. CASE ~(racedPid \/ wrapped)
    BY <1>1, <2>1, <2>2, <2>4 DEF Full, Asked
  <2> QED
    BY <2>3, <2>4
<1>2. Full /\ [Next]_vars => [Step]_vars
  BY <1>1
<1> QED
  BY <1>2, Invariance, PTL DEF Spec, PongsAreOwn
=============================================================================
