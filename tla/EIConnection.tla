---------------------------- MODULE EIConnection ----------------------------
(***************************************************************************)
(* One Erlang connection (src/src/EIConnection.cpp): the socket, the       *)
(* EIMessageAcceptor thread that reads it, and the owner that starts,      *)
(* stops and closes it.                                                    *)
(*                                                                         *)
(* The acceptor is at                                                      *)
(*   "none"       not running: not created, or deleted,                    *)
(*   "loop"       the tests of mThreadExit before it locks _socketMutex,   *)
(*   "receiving"  inside ei_xreceive_msg_tmo(), _socketMutex held,         *)
(*   "received"   mutex released, with the result of that call in hand,    *)
(*   "deliver"    with msgResult built, about to call deliver(),           *)
(*   "exited"     out of run().                                            *)
(*                                                                         *)
(* A frame stands for the EpiMessage it becomes, which is an ErrorMessage  *)
(* when ei cannot read the frame (any errno but EIO) or ToMessage() throws *)
(* on it: the loop treats all of them alike.  A cookie that differs only   *)
(* builds an ErrorMessage that line 191 overwrites, so it changes nothing. *)
(***************************************************************************)
EXTENDS Naturals, SequencesExt, FiniteSets

CONSTANTS Frames,      \* what the peer sends, each of them once
          Boost,       \* TRUE: USE_BOOST build, FALSE: USE_OPEN_THREADS build
          MaxStarts,   \* bound on the calls of start()
          LinkError,   \* the result of a receive on a broken link (EIO)
          Nothing      \* the result of a poll that ended after 500 ms, or a tick

ASSUME ConnectionAssumption ==
  /\ Boost \in BOOLEAN
  /\ MaxStarts \in Nat
  /\ LinkError \notin Frames
  /\ Nothing \notin Frames \cup {LinkError}

VARIABLES wire,        \* frames sent by the peer that the acceptor has not read
          link,        \* "up" until the peer or the network breaks it
          sent,        \* history: the frames the peer has sent
          acceptor,    \* where the acceptor thread is
          hand,        \* the result of its last receive
          mThreadExit, \* the flag that asks the acceptor to exit
          mAcceptor,   \* does the connection have an acceptor object?
          owner,       \* where the owner is, and where it goes after a join
          mSocket,     \* "open" or "deleted"
          starts,      \* number of acceptors created
          delivered    \* history: what mReceiver->deliver() was called with

peerVars == <<wire, link, sent>>
vars == <<wire, link, sent, acceptor, hand, mThreadExit, mAcceptor, owner,
          mSocket, starts, delivered>>

-----------------------------------------------------------------------------

Init ==
  /\ wire = <<>> /\ link = "up" /\ sent = {}
  /\ acceptor = "none" /\ hand = Nothing
  /\ mThreadExit = FALSE /\ mAcceptor = FALSE
  /\ owner = [at |-> "idle", then |-> "idle"]
  /\ mSocket = "open" /\ starts = 0
  /\ delivered = <<>>

(* The peer. *)
Send(f) ==
  /\ link = "up" /\ f \notin sent
  /\ wire' = Append(wire, f)
  /\ sent' = sent \cup {f}
  /\ UNCHANGED <<link, acceptor, hand, mThreadExit, mAcceptor, owner, mSocket,
                 starts, delivered>>

(* The connection breaks: of the frames not read yet, a tail may be lost.  *)
Break ==
  /\ link = "up"
  /\ link' = "down"
  /\ \E k \in 0 .. Len(wire) : wire' = SubSeq(wire, 1, k)
  /\ UNCHANGED <<sent, acceptor, hand, mThreadExit, mAcceptor, owner, mSocket,
                 starts, delivered>>

-----------------------------------------------------------------------------
(* The acceptor thread: EIMessageAcceptor::run(). *)

Lock ==
  /\ acceptor = "loop"
  /\ acceptor' = IF mThreadExit THEN "exited" ELSE "receiving"
  /\ UNCHANGED <<peerVars, hand, mThreadExit, mAcceptor, owner, mSocket, starts,
                 delivered>>

(* ei_xreceive_msg_tmo() with its 500 ms, then unlock.                     *)
Receive ==
  /\ acceptor = "receiving"
  /\ \/ /\ wire # <<>>
        /\ hand' = Head(wire) /\ wire' = Tail(wire)
     \/ /\ wire = <<>>
        /\ hand' = IF link = "up" THEN Nothing ELSE LinkError
        /\ UNCHANGED wire
  /\ acceptor' = "received"
  /\ UNCHANGED <<link, sent, mThreadExit, mAcceptor, owner, mSocket, starts,
                 delivered>>

(* Mutants of Poll, LinkFailed and Build: a poll that brought nothing is   *)
(* delivered; the failure is reported without stop(); the failure leaves   *)
(* the loop before it is reported; an unreadable frame ends the thread.    *)
PollDelivers ==
  /\ acceptor = "received" /\ hand = Nothing /\ ~mThreadExit
  /\ acceptor' = "deliver"
  /\ UNCHANGED <<peerVars, hand, mThreadExit, mAcceptor, owner, mSocket, starts,
                 delivered>>

FailureWithoutStop ==
  /\ acceptor = "received" /\ hand = LinkError /\ ~mThreadExit
  /\ acceptor' = "deliver"
  /\ UNCHANGED <<peerVars, hand, mThreadExit, mAcceptor, owner, mSocket, starts,
                 delivered>>

FailureWithoutReport ==
  /\ acceptor = "received" /\ hand = LinkError /\ ~mThreadExit
  /\ acceptor' = "exited" /\ hand' = Nothing
  /\ UNCHANGED <<peerVars, mThreadExit, mAcceptor, owner, mSocket, starts, delivered>>

BuildThrows ==
  /\ acceptor = "received" /\ hand \in Frames /\ ~mThreadExit
  /\ acceptor' = "exited" /\ hand' = Nothing
  /\ UNCHANGED <<peerVars, mThreadExit, mAcceptor, owner, mSocket, starts, delivered>>

(* After the receive.  A tick or a timeout goes round again.  mThreadExit  *)
(* wins over whatever was received: it is dropped.  On a broken link the   *)
(* OpenThreads build calls stop() on itself (the flag; a thread's join of  *)
(* itself returns at once) and goes on to report it; the Boost build       *)
(* leaves the loop before the error is delivered.                          *)
Poll ==
  /\ acceptor = "received" /\ hand = Nothing /\ ~mThreadExit
  /\ acceptor' = "loop"
  /\ UNCHANGED <<peerVars, hand, mThreadExit, mAcceptor, owner, mSocket, starts,
                 delivered>>

ExitRequested ==
  /\ acceptor = "received" /\ mThreadExit
  /\ acceptor' = "exited" /\ hand' = Nothing
  /\ UNCHANGED <<peerVars, mThreadExit, mAcceptor, owner, mSocket, starts, delivered>>

LinkFailed ==
  /\ acceptor = "received" /\ hand = LinkError /\ ~mThreadExit
  /\ IF Boost
       THEN acceptor' = "exited" /\ hand' = Nothing /\ UNCHANGED mThreadExit
       ELSE acceptor' = "deliver" /\ mThreadExit' = TRUE /\ UNCHANGED hand
  /\ UNCHANGED <<peerVars, mAcceptor, owner, mSocket, starts, delivered>>

Build ==
  /\ acceptor = "received" /\ hand \in Frames /\ ~mThreadExit
  /\ acceptor' = "deliver"
  /\ UNCHANGED <<peerVars, hand, mThreadExit, mAcceptor, owner, mSocket, starts,
                 delivered>>

Deliver ==
  /\ acceptor = "deliver"
  /\ delivered' = Append(delivered, hand)
  /\ acceptor' = "loop" /\ hand' = Nothing
  /\ UNCHANGED <<peerVars, mThreadExit, mAcceptor, owner, mSocket, starts>>

Acceptor == Lock \/ Receive \/ Poll \/ ExitRequested \/ LinkFailed \/ Build \/ Deliver

-----------------------------------------------------------------------------
(* The owner.  close() is the end of a connection: it is only called by    *)
(* the destructor.                                                         *)

(* start(): nothing happens when there is an acceptor already.             *)
Start ==
  /\ owner.at = "idle" /\ ~mAcceptor
  /\ starts < MaxStarts
  /\ mAcceptor' = TRUE /\ mThreadExit' = FALSE
  /\ acceptor' = "loop" /\ hand' = Nothing
  /\ starts' = starts + 1
  /\ UNCHANGED <<peerVars, owner, mSocket, delivered>>

(* Mutant of StopCalled: the join comes before the flag.                   *)
StopWithoutFlag(then) ==
  IF mAcceptor
    THEN owner' = [at |-> "joining", then |-> then] /\ UNCHANGED mThreadExit
    ELSE owner' = [at |-> then, then |-> then] /\ UNCHANGED mThreadExit

(* stop(), from its user or from close(): the flag, then the join.         *)
StopCalled(then) ==
  IF mAcceptor
    THEN mThreadExit' = TRUE /\ owner' = [at |-> "joining", then |-> then]
    ELSE owner' = [at |-> then, then |-> then] /\ UNCHANGED mThreadExit

Stop ==
  /\ owner.at = "idle" /\ mAcceptor
  /\ StopCalled("idle")
  /\ UNCHANGED <<peerVars, acceptor, hand, mAcceptor, mSocket, starts, delivered>>

Close ==
  /\ owner.at = "idle"
  /\ StopCalled("closing")
  /\ UNCHANGED <<peerVars, acceptor, hand, mAcceptor, mSocket, starts, delivered>>

(* Mutant of Join: the acceptor object is deleted without waiting for it.  *)
DeleteWithoutJoin ==
  /\ owner.at = "joining"
  /\ mAcceptor' = FALSE
  /\ owner' = [owner EXCEPT !.at = owner.then]
  /\ UNCHANGED <<peerVars, acceptor, hand, mThreadExit, mSocket, starts, delivered>>

(* join() returns when run() has; the acceptor object is deleted.          *)
Join ==
  /\ owner.at = "joining" /\ acceptor = "exited"
  /\ mAcceptor' = FALSE /\ acceptor' = "none"
  /\ owner' = [owner EXCEPT !.at = owner.then]
  /\ UNCHANGED <<peerVars, hand, mThreadExit, mSocket, starts, delivered>>

(* The rest of close(), under _socketMutex.                                *)
DeleteSocket ==
  /\ owner.at = "closing" /\ acceptor # "receiving"
  /\ mSocket' = "deleted"
  /\ owner' = [at |-> "closed", then |-> "closed"]
  /\ UNCHANGED <<peerVars, acceptor, hand, mThreadExit, mAcceptor, starts, delivered>>

Owner == Start \/ Stop \/ Close \/ Join \/ DeleteSocket

-----------------------------------------------------------------------------
Next == (\E f \in Frames : Send(f)) \/ Break \/ Acceptor \/ Owner

Spec == Init /\ [][Next]_vars

(* The acceptor thread is scheduled, and a receive ends after 500 ms even  *)
(* when the peer is silent.  So is the thread of the owner once it is      *)
(* inside stop() or close().  Nothing is assumed of the peer, nor that     *)
(* anybody ever calls start(), stop() or close().                          *)
Fairness == WF_vars(Acceptor) /\ WF_vars(Join) /\ WF_vars(DeleteSocket)

FairSpec == Spec /\ Fairness

-----------------------------------------------------------------------------
(* Types, and what ties the fields together: the socket is deleted at the  *)
(* end of close() only, and a thread delivers only what it has in hand.    *)
TypeOK ==
  /\ wire \in Seq(Frames) /\ link \in {"up", "down"} /\ sent \subseteq Frames
  /\ acceptor \in {"none", "loop", "receiving", "received", "deliver", "exited"}
  /\ hand \in Frames \cup {LinkError, Nothing}
  /\ mThreadExit \in BOOLEAN /\ mAcceptor \in BOOLEAN
  /\ owner \in [at : {"idle", "joining", "closing", "closed"},
                then : {"idle", "closing", "closed"}]
  /\ mSocket \in {"open", "deleted"}
  /\ starts \in 0 .. MaxStarts
  /\ delivered \in Seq(Frames \cup {LinkError})
  /\ acceptor = "deliver" => hand # Nothing

(* The acceptor runs only while the connection has an acceptor object, and *)
(* it is never in a receive on a socket that close() has deleted: it keeps *)
(* its own copy of the socket pointer (line 136), so only the join in      *)
(* stop() and the mutex protect it.                                        *)
NoUseAfterDelete ==
  /\ acceptor \notin {"none", "exited"} => mAcceptor
  /\ acceptor = "receiving" => mSocket = "open"

(* stop() and close() return, whatever the peer does or does not do: the   *)
(* acceptor looks at mThreadExit between two polls of 500 ms.              *)
StopReturns ==
  /\ owner.at = "joining" ~> owner.at # "joining"
  /\ owner.at = "closing" ~> owner.at = "closed"

(* Every frame that reaches the socket of a started connection is handed   *)
(* to the receiver, unless stop() is called or the link breaks first.      *)
FramesArrive ==
  \A f \in Frames :
    (mAcceptor /\ f \in ToSet(wire))
      ~> (f \in ToSet(delivered) \/ owner.at # "idle" \/ link = "down")

(* A broken link does not go unnoticed: the receiver of a started          *)
(* connection gets an ErrorMessage, from which MailBox::receive() throws   *)
(* EpiConnectionException "if there was an connection error"               *)
(* (EpiMailBox.hpp:137), unless stop() is called first.                    *)
LinkErrorReported ==
  (mAcceptor /\ link = "down") ~> (LinkError \in ToSet(delivered) \/ owner.at # "idle")

-----------------------------------------------------------------------------
(* The promise that a Connection makes to its receiver, and what of it the *)
(* acceptor thread carries out.                                            *)

(* A frame that the acceptor has read is still on its way.                 *)
InTransit == IF hand \in Frames THEN <<hand>> \o wire ELSE wire

Mode ==
  IF ~mAcceptor THEN "shut"
  ELSE IF acceptor = "exited" \/ (acceptor = "loop" /\ mThreadExit) THEN "ended"
  ELSE IF owner.at = "joining" THEN "asked"
  ELSE "open"

Contract ==
  INSTANCE ConnectionContract WITH stream <- InTransit, mode <- Mode

(* The acceptor thread, its polling and its mutex give what a Connection   *)
(* promises: order, no duplicates, at most one report of a broken link,    *)
(* at most one frame lost to stop() and nothing after it.                  *)
ImplementsContract == Contract!Spec
=============================================================================
