------------------------------ MODULE MailBox ------------------------------
(***************************************************************************)
(* A mailbox and remote procedure calls on it (src/src/EpiMailBox.cpp).    *)
(*                                                                         *)
(* The mailbox is a GenericQueue of messages; each receive is one get() on *)
(* it, with or without a guard and a timeout, followed by what the method  *)
(* makes of the message it got.  The queue behaves as QueueContract says.  *)
(* Messages are model values: the answer to a call is named by the call.   *)
(* deliver() of a control message (link, unlink, exit) changes nothing, so *)
(* there are none.                                                         *)
(***************************************************************************)
EXTENDS Naturals, SequencesExt

CONSTANTS Threads,      \* the threads that use the mailbox
          Calls,        \* remote calls, and the answers {rex, ...} to them
          Bad,          \* those answered with {rex, {badrpc, Reason}}
          Notes,        \* other messages, which can be decoded
          Garbled,      \* messages whose term cannot be decoded
          Errors,       \* ErrorMessages of a connection
          Receives,     \* the receives the users call
          Null, Pending, NoRequest, NoCall

Messages == Calls \cup Notes \cup Garbled \cup Errors

(* Mutant of Checked: errors are left to the unguarded receives.           *)
CheckedWithoutErrors(P) == P

(* MailBoxGuard::check(): what a guard for the messages P gets from the    *)
(* queue.  Errors always; never a message that cannot be decoded, because  *)
(* getMsg() throws and check() then returns false.                         *)
Checked(P) == P \cup Errors

(* Mutant of RexPattern: a variable alone, for {rex, _}.                   *)
AnyPattern == Calls \cup Notes

RexPattern == Calls

(* The receives: receive(), receiveMsg() and receiveBuf() take the head of *)
(* the queue, receive(pattern) and receive(guard) are the method "match".  *)
Request == [method : {"receive", "receiveMsg", "match"},
            accepts : {Messages} \cup {Checked(P) : P \in SUBSET (Calls \cup Notes)},
            timed : BOOLEAN]

RPCReceives ==
  [method : {"receiveRPC", "RPC"}, accepts : {Checked(RexPattern)}, timed : BOOLEAN]

Requests == Receives \cup RPCReceives

ASSUME MailBoxAssumption ==
  /\ Bad \subseteq Calls
  /\ Receives \subseteq Request
  /\ \A r \in Receives : r.method # "match" => r.accepts = Messages
  /\ NoRequest \notin Requests
  /\ Null \notin Messages /\ Pending \notin Messages \cup {Null}
  /\ NoCall \notin Calls

VARIABLES mQueue, call, late, got, delivered, \* the queue: see QueueContract
          mailbox,    \* "open", "deleted"; or the program "terminated"
          own,        \* the call whose answer a thread is to receive
          plan,       \* the receiveRPC() that follows the sendRPC() of RPC()
          asked,      \* the calls the remote node was asked
          sequential, \* history: calls came one after the other, none given up
          stolen      \* history: answers that other receives took

queueVars == <<mQueue, call, late, got, delivered>>
vars == <<queueVars, mailbox, own, plan, asked, sequential, stolen>>

-----------------------------------------------------------------------------
Queue ==
  INSTANCE QueueContract WITH Elements <- Messages, queue <- mQueue,
                              answer <- got, put <- delivered

(* What a method returns or throws for the message m.                      *)
Outcome(r, m) ==
  CASE m = Null -> "null"
    [] m \in Errors -> "EpiConnectionException"
    [] m \in Garbled /\ r.method = "receive" -> "EpiDecodeException"
    [] m \in Bad /\ r.method \in {"receiveRPC", "RPC"} -> "EpiBadRPC"
    [] r.method = "receiveMsg" -> "message"
    [] OTHER -> "term"

-----------------------------------------------------------------------------
Init ==
  /\ Queue!Init
  /\ mailbox = "open"
  /\ own = [t \in Threads |-> NoCall]
  /\ plan = [t \in Threads |-> NoRequest]
  /\ asked = {}
  /\ sequential = TRUE /\ stolen = {}

Idle(t) == call[t] = NoRequest /\ plan[t] = NoRequest

(* Mutant of Deliver: a message is dropped when nobody is receiving.       *)
DropUnawaited(m) ==
  /\ mailbox = "open"
  /\ IF \E t \in Threads : call[t] # NoRequest
       THEN Queue!Arrive(m)
       ELSE /\ m \notin delivered /\ delivered' = delivered \cup {m}
            /\ UNCHANGED <<mQueue, call, late, got>>
  /\ UNCHANGED <<mailbox, own, plan, asked, sequential, stolen>>

(* deliver(), by the thread of a connection or of a local sender.          *)
Deliver(m) ==
  /\ mailbox = "open"
  /\ Queue!Arrive(m)
  /\ UNCHANGED <<mailbox, own, plan, asked, sequential, stolen>>

(* The remote node answers its calls, in any order.                        *)
Reply(c) == c \in asked /\ Deliver(c)

(* receive(), receiveBuf(), receiveMsg(), receive(pattern), receive(guard):*)
(* into the queue.                                                         *)
Receive(t, r) ==
  /\ mailbox = "open" /\ Idle(t)
  /\ Queue!Ask(t, r)
  /\ UNCHANGED <<mailbox, own, plan, asked, sequential, stolen>>

(* sendRPC(), alone or as the first half of RPC().  A thread has one call  *)
(* open at a time.  Without a connection to the node it throws, and has    *)
(* changed nothing.                                                        *)
SendRPC(t, c, next) ==
  /\ mailbox = "open" /\ Idle(t)
  /\ own[t] = NoCall /\ c \notin asked
  /\ asked' = asked \cup {c}
  /\ own' = [own EXCEPT ![t] = c]
  /\ plan' = [plan EXCEPT ![t] = next]
  /\ sequential' = (sequential /\ \A s \in Threads : own[s] = NoCall)
  /\ UNCHANGED <<queueVars, mailbox, stolen>>

(* Mutant of ReceiveRPC: RPC() receives once more.                         *)
ReceiveTwice(t, r) ==
  /\ mailbox = "open" /\ call[t] = NoRequest
  /\ own[t] # NoCall
  /\ \/ plan[t] = r
     \/ plan[t] = NoRequest /\ r.method = "receiveRPC"
  /\ Queue!Ask(t, r)
  /\ UNCHANGED <<mailbox, own, plan, asked, sequential, stolen>>

(* receiveRPC(), alone or as the second half of RPC().                     *)
ReceiveRPC(t, r) ==
  /\ mailbox = "open" /\ call[t] = NoRequest
  /\ own[t] # NoCall
  /\ \/ plan[t] = r
     \/ plan[t] = NoRequest /\ r.method = "receiveRPC"
  /\ Queue!Ask(t, r)
  /\ plan' = [plan EXCEPT ![t] = NoRequest]
  /\ UNCHANGED <<mailbox, own, asked, sequential, stolen>>

(* A method gets m out of the queue, or null, and ends.  RPC(timeout) does *)
(* not list EpiBadRPC in its exceptions, so that one ends the program.     *)
Finish(t) ==
  /\ mailbox = "open"
  /\ Queue!Serve(t) \/ Queue!Refuse(t)
  /\ LET r == call[t]
         m == got'[t]
         rpc == r \in RPCReceives
     IN /\ own' = IF rpc THEN [own EXCEPT ![t] = NoCall] ELSE own
        /\ sequential' = (sequential /\ (rpc => m \in Messages \ Errors))
        /\ stolen' = IF rpc THEN stolen ELSE stolen \cup ({m} \cap Calls)
        /\ mailbox' = IF Outcome(r, m) = "EpiBadRPC" /\ r.method = "RPC" /\ r.timed
                        THEN "terminated" ELSE mailbox
  /\ UNCHANGED <<plan, asked>>

Deadline(t) ==
  /\ mailbox = "open"
  /\ Queue!Deadline(t)
  /\ UNCHANGED <<mailbox, own, plan, asked, sequential, stolen>>

(* ~MailBox flushes the queue; no thread is in the mailbox.                *)
Delete ==
  /\ mailbox = "open" /\ \A t \in Threads : Idle(t) /\ own[t] = NoCall
  /\ Queue!Clear
  /\ mailbox' = "deleted"
  /\ UNCHANGED <<own, plan, asked, sequential, stolen>>

Next ==
  \/ \E m \in Messages \ Calls : Deliver(m)
  \/ \E c \in Calls : Reply(c)
  \/ \E t \in Threads :
       \/ \E r \in Receives : Receive(t, r)
       \/ \E c \in Calls, r \in RPCReceives \cup {NoRequest} :
            (r # NoRequest => r.method = "RPC") /\ SendRPC(t, c, r)
       \/ \E r \in RPCReceives : ReceiveRPC(t, r)
       \/ Finish(t) \/ Deadline(t)
  \/ Delete

Spec == Init /\ [][Next]_vars

(* A thread inside a method goes on, and the remote node answers.          *)
Fairness ==
  /\ \A t \in Threads :
       /\ WF_vars(Finish(t))
       /\ WF_vars(plan[t] # NoRequest /\ \E r \in RPCReceives : ReceiveRPC(t, r))
  /\ \A c \in Calls : WF_vars(Reply(c))

FairSpec == Spec /\ Fairness

-----------------------------------------------------------------------------
(* Types; a thread receives an answer only for a call that it made, once.  *)
TypeOK ==
  /\ mQueue \in Seq(Messages) /\ delivered \subseteq Messages
  /\ call \in [Threads -> Requests \cup {NoRequest}]
  /\ late \in [Threads -> BOOLEAN]
  /\ got \in [Threads -> Messages \cup {Null, Pending}]
  /\ mailbox \in {"open", "deleted", "terminated"}
  /\ own \in [Threads -> Calls \cup {NoCall}]
  /\ plan \in [Threads -> RPCReceives \cup {NoRequest}]
  /\ asked \subseteq Calls /\ stolen \subseteq Calls
  /\ sequential \in BOOLEAN
  /\ \A t \in Threads :
       /\ call[t] \in RPCReceives => own[t] # NoCall
       /\ plan[t] # NoRequest => own[t] # NoCall /\ call[t] = NoRequest

(* receiveRPC() returns, or throws EpiBadRPC for, the answer of the call   *)
(* that its thread made: as long as the calls on the mailbox come one      *)
(* after the other and none was given up on a timeout or an error.  The    *)
(* pattern {rex, _} (EpiMailBox.cpp:338) is all that ties an answer to its *)
(* call.                                                                   *)
Answered(t) == call[t] \in RPCReceives /\ got'[t] \in Messages \ Errors /\ call'[t] = NoRequest

SequentialCallsGetTheirAnswers ==
  [][\A t \in Threads : sequential /\ Answered(t) => got'[t] = own[t]]_vars

(* A failed connection is not overlooked: every guard accepts errors       *)
(* (EpiMailBox.cpp:45), so no receive returns a message that arrived after *)
(* an error which is still in the queue.                                   *)
ArrivedBefore(e, m) ==
  \E i, j \in DOMAIN mQueue : i < j /\ mQueue[i] = e /\ mQueue[j] = m

ErrorsAreNotOvertaken ==
  [][\A t \in Threads, e \in Errors :
       got[t] = Pending => ~ArrivedBefore(e, got'[t])]_vars

(* A receiveRPC() comes to an end when the remote node answers its calls,  *)
(* however the answers of several callers are mixed up, unless another     *)
(* receive has taken an answer out of the mailbox or the program ends.     *)
RPCsReturn ==
  \A t \in Threads :
    call[t] \in RPCReceives
      ~> (call[t] = NoRequest \/ stolen # {} \/ mailbox = "terminated")
=============================================================================
