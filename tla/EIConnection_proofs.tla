------------------------- MODULE EIConnection_proofs -------------------------
(***************************************************************************)
(* Theorems about EIConnection, for any frames, any number of starts and   *)
(* both builds: its types, that the acceptor thread never receives on a    *)
(* deleted socket, and that the connection keeps ConnectionContract.       *)
(***************************************************************************)
EXTENDS EIConnection, TLAPS, SequenceTheorems

(* What the safety of the socket rests on.  The acceptor object and its    *)
(* thread come and go together, and an owner that is past the join of      *)
(* close() has no acceptor any more; the socket is deleted only there.     *)
Phases ==
  /\ mAcceptor <=> acceptor # "none"
  /\ owner.at = "joining" => mAcceptor /\ owner.then \in {"idle", "closing"}
  /\ owner.at \in {"closing", "closed"} => ~mAcceptor
  /\ mSocket = "deleted" => owner.at = "closed"

Safe == TypeOK /\ Phases

LEMMA SafeInit == Init => Safe
<1>1. ASSUME Init PROVE TypeOK
  <2>1. starts \in 0 .. MaxStarts
    BY <1>1, ConnectionAssumption DEF ConnectionAssumption, Init
  <2>2. owner \in [at : {"idle", "joining", "closing", "closed"},
                  then : {"idle", "closing", "closed"}]
    BY <1>1 DEF Init
  <2>3. mThreadExit \in BOOLEAN /\ mAcceptor \in BOOLEAN
    BY <1>1 DEF Init
  <2>4. wire \in Seq(Frames) /\ delivered \in Seq(Frames \cup {LinkError})
    BY <1>1, EmptySeq DEF Init
  <2>5. QED
    BY <1>1, <2>1, <2>2, <2>3, <2>4 DEF Init, TypeOK
<1>2. ASSUME Init PROVE Phases
  BY <1>2 DEF Init, Phases
<1>3. QED
  BY <1>1, <1>2 DEF Safe

(* Reading the head of a stream, losing a tail of it, and appending to it  *)
(* give sequences over the same set.                                       *)
LEMMA StreamTypes ==
  ASSUME NEW S, NEW s \in Seq(S)
  PROVE  /\ \A e \in S : Append(s, e) \in Seq(S)
         /\ s # <<>> => Head(s) \in S /\ Tail(s) \in Seq(S)
         /\ \A k \in 0 .. Len(s) : SubSeq(s, 1, k) \in Seq(S)
<1>1. \A e \in S : Append(s, e) \in Seq(S)
  BY AppendProperties
<1>2. s # <<>> => Head(s) \in S /\ Tail(s) \in Seq(S)
  BY HeadTailProperties
<1>3. \A k \in 0 .. Len(s) : SubSeq(s, 1, k) \in Seq(S)
  BY SubSeqProperties
<1>4. QED
  BY <1>1, <1>2, <1>3

LEMMA SafePeer ==
  ASSUME Safe, (\E f \in Frames : Send(f)) \/ Break
  PROVE  Safe'
<1>0. wire \in Seq(Frames)
  BY DEF Safe, TypeOK
<1>1. ASSUME NEW f \in Frames, Send(f) PROVE Safe'
  <2>1. Append(wire, f) \in Seq(Frames)
    BY <1>0, StreamTypes
  <2>2. QED
    BY <1>1, <2>1 DEF Safe, TypeOK, Phases, Send
<1>2. CASE Break
  <2>1. wire' \in Seq(Frames)
    BY <1>0, <1>2, StreamTypes DEF Break
  <2>2. QED
    BY <1>2, <2>1 DEF Safe, TypeOK, Phases, Break
<1>3. QED
  BY <1>1, <1>2

LEMMA SafeAcceptor ==
  ASSUME Safe, Acceptor
  PROVE  Safe'
<1> USE DEF Safe, TypeOK, Phases
<1>1. CASE Lock
  BY <1>1 DEF Lock, peerVars
<1>2. CASE Receive
  <2>1. wire # <<>> => Head(wire) \in Frames /\ Tail(wire) \in Seq(Frames)
    BY StreamTypes
  <2>2. hand' \in Frames \cup {LinkError, Nothing} /\ wire' \in Seq(Frames)
    BY <1>2, <2>1 DEF Receive
  <2>3. QED
    BY <1>2, <2>2 DEF Receive
<1>3. CASE Poll
  BY <1>3 DEF Poll, peerVars
<1>4. CASE ExitRequested
  BY <1>4 DEF ExitRequested, peerVars
<1>5. CASE LinkFailed
  BY <1>5, ConnectionAssumption DEF ConnectionAssumption, LinkFailed, peerVars
<1>6. CASE Build
  BY <1>6, ConnectionAssumption DEF ConnectionAssumption, Build, peerVars
<1>7. CASE Deliver
  <2>1. Append(delivered, hand) \in Seq(Frames \cup {LinkError})
    BY <1>7, StreamTypes DEF Deliver
  <2>2. QED
    BY <1>7, <2>1 DEF Deliver, peerVars
<1>8. QED
  BY <1>1, <1>2, <1>3, <1>4, <1>5, <1>6, <1>7 DEF Acceptor

LEMMA SafeOwner ==
  ASSUME Safe, Owner
  PROVE  Safe'
<1> USE ConnectionAssumption DEF ConnectionAssumption, Safe, TypeOK, Phases, peerVars
<1>1. CASE Start
  <2>1. mThreadExit' \in BOOLEAN /\ mAcceptor' \in BOOLEAN /\ mAcceptor'
    BY <1>1 DEF Start
  <2>2. starts' \in 0 .. MaxStarts /\ hand' \in Frames \cup {LinkError, Nothing}
    BY <1>1 DEF Start
  <2>3. acceptor' = "loop" /\ owner.at = "idle"
    BY <1>1 DEF Start
  <2>4. UNCHANGED <<wire, link, sent, owner, mSocket, delivered>>
    BY <1>1 DEF Start
  <2>5. QED
    BY <2>1, <2>2, <2>3, <2>4
<1>2. CASE Stop
  BY <1>2 DEF Stop, StopCalled
<1>3. CASE Close
  <2>1. owner' \in [at : {"idle", "joining", "closing", "closed"},
                   then : {"idle", "closing", "closed"}]
    BY <1>3 DEF Close, StopCalled
  <2>2. CASE mAcceptor
    BY <1>3, <2>1, <2>2 DEF Close, StopCalled
  <2>3. CASE ~mAcceptor
    BY <1>3, <2>1, <2>3 DEF Close, StopCalled
  <2>4. QED
    BY <2>2, <2>3
<1>4. CASE Join
  BY <1>4 DEF Join
<1>5. CASE DeleteSocket
  BY <1>5 DEF DeleteSocket
<1>6. QED
  BY <1>1, <1>2, <1>3, <1>4, <1>5 DEF Owner

LEMMA SafeAlways == Spec => []Safe
<1>1. Init => Safe
  BY SafeInit
<1>2. Safe /\ [Next]_vars => Safe'
  <2>1. CASE UNCHANGED vars
    BY <2>1 DEF Safe, TypeOK, Phases, vars
  <2>2. QED
    BY <2>1, SafePeer, SafeAcceptor, SafeOwner DEF Next
<1>3. QED
  BY <1>1, <1>2, PTL DEF Spec

(* Every variable keeps its type, and a delivering thread has a message in *)
(* hand.                                                                   *)
THEOREM ConnectionTypes == Spec => []TypeOK
<1>1. Safe => TypeOK
  BY DEF Safe
<1>2. QED
  BY <1>1, SafeAlways, PTL

(* The acceptor thread is never in a receive on the socket that close()    *)
(* has deleted, and has exited before its object is: in both builds, for   *)
(* any number of restarts and whatever the peer does.                      *)
THEOREM SocketOutlivesAcceptor == Spec => []NoUseAfterDelete
<1>1. Safe => NoUseAfterDelete
  BY DEF Safe, TypeOK, Phases, NoUseAfterDelete
<1>2. QED
  BY <1>1, SafeAlways, PTL
-----------------------------------------------------------------------------
(* The contract.  What the refinement rests on besides Safe: a thread has  *)
(* something in hand only between a receive and what it does about it; the *)
(* broken link is what is read last; and a running thread that has not     *)
(* seen mThreadExit yet was asked to stop by the owner, who waits for it,  *)
(* or has stopped itself and is about to report the broken link.           *)
HandInv ==
  /\ acceptor \notin {"received", "deliver"} => hand = Nothing
  /\ hand = LinkError => link = "down" /\ wire = <<>>
  /\ owner.at = "joining" => mThreadExit
  /\ mThreadExit /\ mAcceptor /\ owner.at # "joining" =>
       acceptor \in {"loop", "exited"} \/ (acceptor = "deliver" /\ hand = LinkError)
  /\ acceptor = "deliver" /\ hand = LinkError => mThreadExit

LEMMA HandInit == Init => HandInv
BY ConnectionAssumption DEF ConnectionAssumption, Init, HandInv

LEMMA HandNext ==
  ASSUME Safe, HandInv, [Next]_vars
  PROVE  HandInv'
<1> USE ConnectionAssumption DEF ConnectionAssumption, Safe, TypeOK, Phases, HandInv, peerVars
<1>1. ASSUME NEW f \in Frames, Send(f) PROVE HandInv'
  BY <1>1 DEF Send
<1>2. CASE Break
  <2>1. wire = <<>> => wire' = <<>>
    BY <1>2 DEF Break
  <2>2. QED
    BY <1>2, <2>1 DEF Break
<1>3. CASE Lock
  BY <1>3 DEF Lock
<1>4. CASE Receive
  <2>1. wire # <<>> => Head(wire) \in Frames
    BY StreamTypes
  <2>2. hand' = LinkError => link' = "down" /\ wire' = <<>>
    BY <1>4, <2>1 DEF Receive
  <2>3. QED
    BY <1>4, <2>2 DEF Receive
<1>5. CASE Poll
  BY <1>5 DEF Poll
<1>6. CASE ExitRequested
  BY <1>6 DEF ExitRequested
<1>7. CASE LinkFailed
  BY <1>7 DEF LinkFailed
<1>8. CASE Build
  BY <1>8 DEF Build
<1>9. CASE Deliver
  BY <1>9 DEF Deliver
<1>10. CASE Start
  BY <1>10 DEF Start
<1>11. CASE Stop
  BY <1>11 DEF Stop, StopCalled
<1>12. CASE Close
  BY <1>12 DEF Close, StopCalled
<1>13. CASE Join
  BY <1>13 DEF Join
<1>14. CASE DeleteSocket
  BY <1>14 DEF DeleteSocket
<1>15. CASE UNCHANGED vars
  BY <1>15 DEF vars
<1>16. QED
  BY <1>1, <1>2, <1>3, <1>4, <1>5, <1>6, <1>7, <1>8, <1>9, <1>10, <1>11, <1>12,
     <1>13, <1>14, <1>15 DEF Next, Acceptor, Owner

(* A frame in hand before the frames on the wire: it is the head of both,  *)
(* and they grow and are cut behind it.                                    *)
LEMMA FrameAhead ==
  ASSUME NEW S, NEW e \in S, NEW s \in Seq(S)
  PROVE  /\ <<e>> \o s # <<>>
         /\ Head(<<e>> \o s) = e
         /\ Tail(<<e>> \o s) = s
         /\ \A x \in S : <<e>> \o Append(s, x) = Append(<<e>> \o s, x)
         /\ \A k \in 0 .. Len(s) :
              /\ k + 1 \in 0 .. Len(<<e>> \o s)
              /\ <<e>> \o SubSeq(s, 1, k) = SubSeq(<<e>> \o s, 1, k + 1)
<1>1. <<e>> \in Seq(S) /\ Len(<<e>>) = 1 /\ <<e>>[1] = e
  OBVIOUS
<1> DEFINE both == <<e>> \o s
<1>2. /\ both \in Seq(S)
      /\ Len(both) = Len(s) + 1
      /\ \A i \in 1 .. Len(both) : both[i] = IF i = 1 THEN e ELSE s[i - 1]
  BY <1>1, ConcatProperties
<1>3. both # <<>> /\ Head(both) = e
  BY <1>2
<1>4. Tail(both) = s
  BY <1>2, HeadTailProperties
<1>5. ASSUME NEW x \in S PROVE <<e>> \o Append(s, x) = Append(both, x)
  BY <1>1, <1>2
<1>6. ASSUME NEW k \in 0 .. Len(s)
      PROVE  k + 1 \in 0 .. Len(both) /\ <<e>> \o SubSeq(s, 1, k) = SubSeq(both, 1, k + 1)
  BY <1>1, <1>2
<1>7. QED
  BY <1>3, <1>4, <1>5, <1>6

(* What the peer does reaches the end of the stream.                       *)
LEMMA PeerImplements ==
  ASSUME Safe, HandInv, (\E f \in Frames : Send(f)) \/ Break
  PROVE  Contract!Next
<1>0. wire \in Seq(Frames)
  BY DEF Safe, TypeOK
<1>1. ASSUME NEW f \in Frames, Send(f) PROVE Contract!Next
  <2>1. InTransit' = Append(InTransit, f)
    BY <1>0, <1>1, FrameAhead DEF Send, InTransit
  <2>2. Contract!Arrive(f)
    BY <1>1, <2>1 DEF Send, Contract!Arrive, Mode
  <2>3. QED
    BY <2>2 DEF Contract!Next
<1>2. CASE Break
  <2>1. PICK k \in 0 .. Len(wire) : wire' = SubSeq(wire, 1, k)
    BY <1>2 DEF Break
  <2>2. \E j \in 0 .. Len(InTransit) : InTransit' = SubSeq(InTransit, 1, j)
    <3>1. CASE hand \in Frames
      BY <1>0, <1>2, <2>1, <3>1, FrameAhead DEF Break, InTransit
    <3>2. CASE hand \notin Frames
      BY <1>2, <2>1, <3>2 DEF Break, InTransit
    <3>3. QED
      BY <3>1, <3>2
  <2>3. Contract!Break
    BY <1>2, <2>2 DEF Break, Contract!Break, Mode
  <2>4. QED
    BY <2>3 DEF Contract!Next
<1>3. QED
  BY <1>1, <1>2

(* The acceptor: reading and polling are invisible, a delivery is one of   *)
(* the contract's, and leaving the loop ends the connection.               *)
LEMMA AcceptorImplements ==
  ASSUME Safe, HandInv, Acceptor
  PROVE  [Contract!Next]_(Contract!vars)
<1> USE ConnectionAssumption DEF ConnectionAssumption, peerVars
<1>0. /\ wire \in Seq(Frames) /\ mThreadExit \in BOOLEAN
      /\ hand \in Frames \cup {LinkError, Nothing}
      /\ acceptor # "none" => mAcceptor
      /\ owner.at = "joining" => mThreadExit
  BY DEF Safe, TypeOK, Phases, HandInv
<1>1. CASE Lock
  <2>1. Mode' = Mode
    BY <1>0, <1>1 DEF Lock, Mode
  <2>2. QED
    BY <1>1, <2>1 DEF Lock, InTransit, Contract!vars
<1>2. CASE Receive
  <2>1. hand = Nothing /\ Mode' = Mode
    BY <1>2 DEF Receive, Mode, HandInv
  <2>2. CASE wire # <<>>
    <3>1. Head(wire) \in Frames /\ <<Head(wire)>> \o Tail(wire) = wire
      BY <1>0, <2>2, HeadTailProperties
    <3>2. hand' = Head(wire) /\ wire' = Tail(wire)
      BY <1>2, <2>2 DEF Receive
    <3>3. InTransit' = InTransit
      BY <2>1, <3>1, <3>2 DEF InTransit
    <3>4. QED
      BY <1>2, <2>1, <3>3 DEF Receive, Contract!vars
  <2>3. CASE wire = <<>>
    BY <1>2, <2>1, <2>3 DEF Receive, InTransit, Contract!vars
  <2>4. QED
    BY <2>2, <2>3
<1>3. CASE Poll
  <2>1. Mode' = Mode
    BY <1>0, <1>3 DEF Poll, Mode
  <2>2. QED
    BY <1>3, <2>1 DEF Poll, InTransit, Contract!vars
<1>4. CASE ExitRequested
  <2>1. Mode = "asked" /\ Mode' = "ended" /\ InTransit' = wire
    BY <1>0, <1>4 DEF ExitRequested, Mode, InTransit, HandInv
  <2>2. UNCHANGED <<link, delivered, wire>>
    BY <1>4 DEF ExitRequested
  <2>3. CASE hand \in Frames
    <3>1. InTransit # <<>> /\ Tail(InTransit) = wire
      BY <1>0, <2>3, FrameAhead DEF InTransit
    <3>2. Contract!LastFrame
      BY <2>1, <2>2, <3>1 DEF Contract!LastFrame
    <3>3. QED
      BY <3>2 DEF Contract!Next
  <2>4. CASE hand \notin Frames
    <3>1. Contract!End
      BY <2>1, <2>2, <2>4 DEF Contract!End, InTransit
    <3>2. QED
      BY <3>1 DEF Contract!Next
  <2>5. QED
    BY <2>3, <2>4
<1>5. CASE LinkFailed
  <2>1. UNCHANGED <<link, delivered, wire>> /\ Mode = "open" /\ InTransit' = InTransit
    BY <1>0, <1>5 DEF LinkFailed, Mode, InTransit
  <2>2. Mode' \in {"open", "ended"}
    BY <1>0, <1>5 DEF LinkFailed, Mode
  <2>3. Contract!Ask \/ UNCHANGED Contract!vars
    BY <2>1, <2>2 DEF Contract!Ask, Contract!vars
  <2>4. QED
    BY <2>3 DEF Contract!Next
<1>6. CASE Build
  <2>1. Mode' = Mode
    BY <1>0, <1>6 DEF Build, Mode
  <2>2. QED
    BY <1>6, <2>1 DEF Build, InTransit, Contract!vars
<1>7. CASE Deliver
  <2>1. /\ InTransit' = wire /\ link' = link
        /\ delivered' = Append(delivered, hand)
    BY <1>7 DEF Deliver, InTransit
  <2>2. Mode \in {"open", "asked"}
    BY <1>0, <1>7 DEF Deliver, Mode
  <2>3. hand # Nothing
    BY <1>7 DEF Deliver, Safe, TypeOK
  <2>4. CASE hand = LinkError
    <3>1. link = "down" /\ InTransit = <<>> /\ InTransit' = InTransit /\ Mode' = "ended"
      BY <1>0, <1>7, <2>1, <2>4 DEF Deliver, HandInv, InTransit, Mode
    <3>2. Contract!Report
      BY <2>1, <2>2, <2>4, <3>1 DEF Contract!Report
    <3>3. QED
      BY <3>2 DEF Contract!Next
  <2>5. CASE hand \in Frames
    <3>1. InTransit # <<>> /\ Tail(InTransit) = wire /\ Head(InTransit) = hand
      BY <1>0, <2>5, FrameAhead DEF InTransit
    <3>2. CASE mThreadExit
      <4>1. Mode = "asked" /\ Mode' = "ended"
        BY <1>0, <1>7, <2>5, <3>2 DEF Deliver, HandInv, Mode
      <4>2. Contract!LastFrame
        BY <2>1, <3>1, <4>1 DEF Contract!LastFrame
      <4>3. QED
        BY <4>2 DEF Contract!Next
    <3>3. CASE ~mThreadExit
      <4>1. Mode = "open" /\ Mode' = "open"
        BY <1>0, <1>7, <3>3 DEF Deliver, Mode
      <4>2. Contract!Deliver
        BY <2>1, <3>1, <4>1 DEF Contract!Deliver
      <4>3. QED
        BY <4>2 DEF Contract!Next
    <3>4. QED
      BY <3>2, <3>3
  <2>6. QED
    BY <1>0, <2>3, <2>4, <2>5
<1>8. QED
  BY <1>1, <1>2, <1>3, <1>4, <1>5, <1>6, <1>7 DEF Acceptor

(* The owner: start() opens, stop() and close() ask, a join shuts.         *)
LEMMA OwnerImplements ==
  ASSUME Safe, HandInv, Owner
  PROVE  [Contract!Next]_(Contract!vars)
<1> USE ConnectionAssumption DEF ConnectionAssumption, peerVars, Contract!Next, Contract!vars
<1>0. /\ mAcceptor <=> acceptor # "none"
      /\ owner.at \in {"closing", "closed"} => ~mAcceptor
      /\ acceptor \notin {"received", "deliver"} => hand = Nothing
      /\ mThreadExit \in BOOLEAN
  BY DEF Safe, TypeOK, Phases, HandInv
<1>1. CASE Start
  <2>1. UNCHANGED <<link, delivered, InTransit>> /\ Mode = "shut" /\ Mode' = "open"
    BY <1>0, <1>1 DEF Start, InTransit, Mode
  <2>2. QED
    BY <2>1 DEF Contract!Open
<1>2. ASSUME NEW then \in {"idle", "closing"}, owner.at = "idle", StopCalled(then),
             UNCHANGED <<peerVars, acceptor, hand, mAcceptor, mSocket, starts, delivered>>
      PROVE  [Contract!Next]_(Contract!vars)
  <2>1. UNCHANGED <<link, delivered, InTransit>>
    BY <1>2 DEF InTransit
  <2>2. CASE mAcceptor
    <3>1. Mode \in {"open", "ended"} /\ Mode' \in {"asked", "ended"}
      BY <1>2, <2>2 DEF StopCalled, Mode
    <3>2. Mode = "ended" => Mode' = "ended"
      BY <1>2, <2>2 DEF StopCalled, Mode
    <3>3. QED
      BY <2>1, <3>1, <3>2 DEF Contract!Ask
  <2>3. CASE ~mAcceptor
    <3>1. Mode' = Mode
      BY <1>2, <2>3 DEF Mode
    <3>2. QED
      BY <2>1, <3>1
  <2>4. QED
    BY <2>2, <2>3
<1>3. CASE Stop
  BY <1>2, <1>3 DEF Stop
<1>4. CASE Close
  BY <1>2, <1>4 DEF Close
<1>5. CASE Join
  <2>1. UNCHANGED <<link, delivered, InTransit>> /\ Mode = "ended" /\ Mode' = "shut"
    BY <1>0, <1>5 DEF Join, InTransit, Mode
  <2>2. QED
    BY <2>1 DEF Contract!Shut
<1>6. CASE DeleteSocket
  <2>1. UNCHANGED <<link, delivered, InTransit>> /\ Mode' = Mode
    BY <1>0, <1>6 DEF DeleteSocket, InTransit, Mode
  <2>2. QED
    BY <2>1
<1>7. QED
  BY <1>1, <1>3, <1>4, <1>5, <1>6 DEF Owner

(* The acceptor thread, its polling and its flag keep the promise of a     *)
(* Connection, in both builds: what the receiver is handed is what the     *)
(* peer sent, in order and each once; the broken link comes last and at    *)
(* most once; stop() costs at most one frame, and nothing follows it.      *)
THEOREM ConnectionImplementsContract == Spec => ImplementsContract
<1>1. Init => Contract!Init
  BY ConnectionAssumption DEF ConnectionAssumption, Init, Contract!Init, InTransit, Mode
<1>2. Safe /\ HandInv /\ [Next]_vars => [Contract!Next]_(Contract!vars)
  <2>1. CASE UNCHANGED vars
    BY <2>1 DEF vars, InTransit, Mode, Contract!vars
  <2>2. QED
    BY <2>1, PeerImplements, AcceptorImplements, OwnerImplements DEF Next
<1>3. Safe /\ HandInv /\ [Next]_vars => HandInv'
  BY HandNext
<1>4. QED
  BY <1>1, <1>2, <1>3, HandInit, SafeAlways, PTL DEF Spec, ImplementsContract, Contract!Spec
=============================================================================
