--------------------------- MODULE MailBox_proofs ---------------------------
(***************************************************************************)
(* Proofs about a mailbox and the remote calls on it, for any threads,     *)
(* calls, messages and receives.                                           *)
(***************************************************************************)
EXTENDS MailBox, SequenceLemmas

(* The queue holds messages that were delivered, each once, and of the     *)
(* answers only those to calls that were made.                             *)
QueueInv ==
  /\ ToSet(mQueue) \subseteq delivered /\ Distinct(mQueue)
  /\ delivered \cap Calls \subseteq asked

(* While the calls come one after the other one thread at most waits for   *)
(* an answer, and those of all other calls have left the queue again.      *)
SequentialInv ==
  sequential =>
    /\ \A s, t \in Threads : own[s] # NoCall /\ own[t] # NoCall => s = t
    /\ \A c \in asked : c \in delivered \ ToSet(mQueue) \/ \E t \in Threads : own[t] = c

Inv == TypeOK /\ QueueInv /\ SequentialInv

-----------------------------------------------------------------------------
(* Every receive accepts the errors; a receive for answers accepts nothing *)
(* else but answers, and no user's receive is one.                         *)
LEMMA ReceivesTakeErrors ==
  /\ \A r \in Requests : Errors \subseteq r.accepts /\ r # NoRequest
  /\ \A r \in RPCReceives : r \in Requests /\ r.accepts = Calls \cup Errors
  /\ \A r \in Receives : r \in Requests /\ r \notin RPCReceives
BY MailBoxAssumption
   DEF Requests, RPCReceives, Request, Checked, RexPattern, Messages

(* What Serve does: it takes the first message that the receive accepts.   *)
LEMMA ServeTakesFirst ==
  ASSUME TypeOK, NEW t \in Threads, Queue!Serve(t)
  PROVE  \E i \in DOMAIN mQueue :
           /\ mQueue[i] \in call[t].accepts
           /\ \A j \in DOMAIN mQueue : j < i => mQueue[j] \notin call[t].accepts
           /\ mQueue' = RemoveAt(mQueue, i)
           /\ Queue!Answer(t, mQueue[i])
           /\ delivered' = delivered
<1> DEFINE A == {i \in DOMAIN mQueue : mQueue[i] \in call[t].accepts}
<1>1. DOMAIN mQueue = 1 .. Len(mQueue) /\ Len(mQueue) \in Nat
  BY DEF TypeOK
<1>2. Queue!Accepted(t) = A
  BY DEF Queue!Accepted
<1>3. A \subseteq Nat /\ A # {}
  BY <1>1, <1>2 DEF Queue!Serve
<1> HIDE DEF A
<1>4. Min(A) \in A /\ \A j \in A : Min(A) <= j
  BY <1>3, MinIsSmallest
<1>5. Queue!Min(A) = Min(A)
  BY DEF Queue!Min, Min
<1>6. mQueue' = RemoveAt(mQueue, Min(A)) /\ Queue!Answer(t, mQueue[Min(A)])
  BY <1>2, <1>5 DEF Queue!Serve, Queue!RemoveAt, RemoveAt
<1>7. delivered' = delivered
  BY DEF Queue!Serve
<1>8. PICK i \in A : i = Min(A) /\ \A j \in A : i <= j
  BY <1>4
<1>9. i \in 1 .. Len(mQueue) /\ mQueue[i] \in call[t].accepts
  BY <1>1, <1>8 DEF A
<1>10. ASSUME NEW j \in DOMAIN mQueue, j < i
       PROVE  mQueue[j] \notin call[t].accepts
  <2>1. j \notin A
    BY <1>1, <1>8, <1>9, <1>10
  <2> QED
    BY <2>1 DEF A
<1> QED
  BY <1>1, <1>6, <1>7, <1>8, <1>9, <1>10

(* A method ends with a message out of the queue, or with null.            *)
LEMMA FinishEffect ==
  ASSUME TypeOK, QueueInv, NEW t \in Threads, Finish(t)
  PROVE  \E m \in Messages \cup {Null} :
           /\ call[t] \in Requests
           /\ Queue!Answer(t, m)
           /\ delivered' = delivered
           /\ mQueue' \in Seq(Messages) /\ Distinct(mQueue')
           /\ \/ m = Null /\ mQueue' = mQueue
              \/ /\ m \in ToSet(mQueue) \cap call[t].accepts
                 /\ ToSet(mQueue') = ToSet(mQueue) \ {m}
<1>1. CASE Queue!Serve(t)
  <2>1. PICK i \in DOMAIN mQueue :
          /\ mQueue[i] \in call[t].accepts
          /\ mQueue' = RemoveAt(mQueue, i)
          /\ Queue!Answer(t, mQueue[i])
          /\ delivered' = delivered
    BY <1>1, ServeTakesFirst
  <2>2. mQueue \in Seq(Messages) /\ Distinct(mQueue) /\ mQueue[i] \in Messages
    BY DEF TypeOK, QueueInv
  <2>3. /\ mQueue' \in Seq(Messages) /\ Distinct(mQueue')
        /\ ToSet(mQueue') = ToSet(mQueue) \ {mQueue[i]}
    BY <2>1, <2>2, RemoveAtProperties, RemoveAtToSet
  <2>4. mQueue[i] \in ToSet(mQueue) /\ call[t] \in Requests
    BY <1>1 DEF ToSet, Queue!Serve, TypeOK
  <2> QED
    BY <2>1, <2>2, <2>3, <2>4
<1>2. CASE Queue!Refuse(t)
  BY <1>2 DEF Queue!Refuse, TypeOK, QueueInv
<1> QED
  BY <1>1, <1>2 DEF Finish

(* A delivery adds a message to the queue that was not there before.       *)
LEMMA ArriveEffect ==
  ASSUME TypeOK, QueueInv, NEW m \in Messages, Queue!Arrive(m)
  PROVE  /\ m \notin delivered /\ delivered' = delivered \cup {m}
         /\ mQueue' \in Seq(Messages) /\ Distinct(mQueue')
         /\ ToSet(mQueue') = ToSet(mQueue) \cup {m}
         /\ UNCHANGED <<call, late, got>>
<1>1. m \notin ToSet(mQueue) /\ mQueue \in Seq(Messages)
  BY DEF TypeOK, QueueInv, Queue!Arrive
<1>2. mQueue' = Append(mQueue, m)
  BY DEF Queue!Arrive
<1> QED
  BY <1>1, <1>2, AppendProperties, AppendToSet DEF Queue!Arrive, QueueInv

-----------------------------------------------------------------------------
LEMMA InitInv == Init => Inv
<1> SUFFICES ASSUME Init PROVE Inv
  OBVIOUS
<1>1. TypeOK
  BY MailBoxAssumption, ReceivesTakeErrors DEF Init, Queue!Init, TypeOK
<1>2. QueueInv /\ SequentialInv
  BY DEF Init, Queue!Init, QueueInv, SequentialInv, ToSet, Distinct
<1> QED
  BY <1>1, <1>2 DEF Inv

LEMMA DeliverInv ==
  ASSUME Inv, NEW m \in Messages, m \in Calls => m \in asked, Deliver(m)
  PROVE  Inv'
<1>1. UNCHANGED <<mailbox, own, plan, asked, sequential, stolen>> /\ Queue!Arrive(m)
  BY DEF Deliver
<1>2. /\ m \notin delivered /\ delivered' = delivered \cup {m}
      /\ mQueue' \in Seq(Messages) /\ Distinct(mQueue')
      /\ ToSet(mQueue') = ToSet(mQueue) \cup {m}
      /\ UNCHANGED <<call, late, got>>
  BY <1>1, ArriveEffect DEF Inv
<1>3. TypeOK'
  BY <1>1, <1>2 DEF Inv, TypeOK
<1>4. QueueInv'
  BY <1>1, <1>2 DEF Inv, QueueInv
<1>5. SequentialInv'
  BY <1>1, <1>2 DEF Inv, SequentialInv
<1> QED
  BY <1>3, <1>4, <1>5 DEF Inv

LEMMA AskInv ==
  ASSUME Inv, NEW t \in Threads,
         (\E r \in Receives : Receive(t, r)) \/ (\E r \in RPCReceives : ReceiveRPC(t, r))
  PROVE  Inv'
<1>1. UNCHANGED <<mailbox, own, asked, sequential, stolen, mQueue, late, delivered>>
  BY DEF Receive, ReceiveRPC, Queue!Ask
<1>2. PICK r \in Requests :
        /\ call' = [call EXCEPT ![t] = r]
        /\ got' = [got EXCEPT ![t] = Pending]
        /\ plan' \in {plan, [plan EXCEPT ![t] = NoRequest]}
        /\ plan'[t] = NoRequest
        /\ r \in RPCReceives => own[t] # NoCall
  BY ReceivesTakeErrors DEF Receive, ReceiveRPC, Queue!Ask, Idle, Inv, TypeOK
<1>3. TypeOK'
  BY <1>1, <1>2 DEF Inv, TypeOK
<1>4. QueueInv' /\ SequentialInv'
  BY <1>1 DEF Inv, QueueInv, SequentialInv
<1> QED
  BY <1>3, <1>4 DEF Inv

LEMMA SendRPCInv ==
  ASSUME Inv, NEW t \in Threads, NEW c \in Calls, NEW next \in RPCReceives \cup {NoRequest},
         SendRPC(t, c, next)
  PROVE  Inv'
<1>1. /\ Idle(t) /\ own[t] = NoCall /\ c \notin asked /\ asked' = asked \cup {c}
      /\ own' = [own EXCEPT ![t] = c]
      /\ plan' = [plan EXCEPT ![t] = next]
      /\ sequential' = (sequential /\ \A s \in Threads : own[s] = NoCall)
      /\ UNCHANGED <<mQueue, call, late, got, delivered, mailbox, stolen>>
  BY DEF SendRPC, queueVars
<1>2. TypeOK'
  BY <1>1, MailBoxAssumption, ReceivesTakeErrors DEF Inv, TypeOK, Idle
<1>3. QueueInv'
  BY <1>1 DEF Inv, QueueInv
<1>4. SequentialInv'
  <2> SUFFICES ASSUME sequential'
               PROVE  /\ \A s \in Threads : own'[s] # NoCall => s = t
                      /\ own'[t] = c
                      /\ \A d \in asked : d \in delivered \ ToSet(mQueue)
    BY <1>1 DEF SequentialInv
  <2>1. sequential /\ \A s \in Threads : own[s] = NoCall
    BY <1>1
  <2>2. \A d \in asked : d # NoCall
    BY MailBoxAssumption DEF Inv, TypeOK
  <2> QED
    BY <1>1, <2>1, <2>2 DEF Inv, TypeOK, SequentialInv
<1> QED
  BY <1>2, <1>3, <1>4 DEF Inv

(* The answer of a receive for answers is the one of its thread's call.    *)
LEMMA AnswerIsOwn ==
  ASSUME Inv, sequential, NEW t \in Threads, call[t] \in RPCReceives,
         NEW m \in ToSet(mQueue) \cap call[t].accepts, m \notin Errors
  PROVE  m = own[t]
<1>1. m \in Calls
  BY ReceivesTakeErrors
<1>2. m \in asked
  BY <1>1 DEF Inv, QueueInv
<1>3. PICK s \in Threads : own[s] = m
  BY <1>2 DEF Inv, SequentialInv
<1>4. own[s] # NoCall /\ own[t] # NoCall
  BY <1>1, <1>3, MailBoxAssumption DEF Inv, TypeOK
<1> QED
  BY <1>3, <1>4 DEF Inv, SequentialInv

LEMMA FinishInv ==
  ASSUME Inv, NEW t \in Threads, Finish(t)
  PROVE  Inv'
<1>1. PICK m \in Messages \cup {Null} :
        /\ call[t] \in Requests
        /\ Queue!Answer(t, m)
        /\ delivered' = delivered
        /\ mQueue' \in Seq(Messages) /\ Distinct(mQueue')
        /\ \/ m = Null /\ mQueue' = mQueue
           \/ /\ m \in ToSet(mQueue) \cap call[t].accepts
              /\ ToSet(mQueue') = ToSet(mQueue) \ {m}
  BY FinishEffect DEF Inv
<1>2. /\ call' = [call EXCEPT ![t] = NoRequest]
      /\ late' = [late EXCEPT ![t] = FALSE]
      /\ got' = [got EXCEPT ![t] = m]
      /\ got'[t] = m
  BY <1>1 DEF Queue!Answer, Inv, TypeOK
<1> DEFINE rpc == call[t] \in RPCReceives
<1>3. /\ own' = IF rpc THEN [own EXCEPT ![t] = NoCall] ELSE own
      /\ sequential' = (sequential /\ (rpc => m \in Messages \ Errors))
      /\ stolen' = IF rpc THEN stolen ELSE stolen \cup ({m} \cap Calls)
      /\ mailbox' \in {"terminated", mailbox}
      /\ UNCHANGED <<plan, asked>>
  BY <1>2 DEF Finish
<1>4. TypeOK'
  BY <1>1, <1>2, <1>3, ReceivesTakeErrors, MailBoxAssumption DEF Inv, TypeOK
<1>5. QueueInv'
  BY <1>1, <1>3 DEF Inv, QueueInv
<1>6. ASSUME sequential' PROVE SequentialInv'
  <2>0. sequential
    BY <1>3, <1>6
  <2>1. CASE ~rpc
    BY <1>1, <1>3, <2>0, <2>1 DEF Inv, SequentialInv
  <2>2. CASE rpc
    <3>1. m \in Messages \ Errors /\ m # Null
      BY <1>3, <1>6, <2>2, MailBoxAssumption
    <3>2. m = own[t]
      BY <1>1, <2>0, <2>2, <3>1, AnswerIsOwn
    <3>3. ToSet(mQueue') = ToSet(mQueue) \ {m} /\ m \in delivered
      BY <1>1, <3>1 DEF Inv, QueueInv
    <3>4. \A s \in Threads : own'[s] = IF s = t THEN NoCall ELSE own[s]
      BY <1>3, <2>2 DEF Inv, TypeOK
    <3>5. \A d \in asked : d \in delivered' \ ToSet(mQueue') \/ \E s \in Threads : own'[s] = d
      BY <1>1, <2>0, <3>2, <3>3, <3>4 DEF Inv, SequentialInv
    <3> QED
      BY <1>3, <2>0, <3>4, <3>5 DEF Inv, SequentialInv
  <2> QED
    BY <2>1, <2>2
<1>7. SequentialInv'
  BY <1>6 DEF SequentialInv
<1> QED
  BY <1>4, <1>5, <1>7 DEF Inv

LEMMA NextInv == Inv /\ [Next]_vars => Inv'
<1> SUFFICES ASSUME Inv, [Next]_vars PROVE Inv'
  OBVIOUS
<1>1. ASSUME NEW m \in Messages \ Calls, Deliver(m) PROVE Inv'
  BY <1>1, DeliverInv
<1>2. ASSUME NEW c \in Calls, Reply(c) PROVE Inv'
  <2>1. c \in Messages /\ c \in asked /\ Deliver(c)
    BY <1>2 DEF Reply, Messages
  <2> QED
    BY <2>1, DeliverInv
<1>3. ASSUME NEW t \in Threads, NEW c \in Calls, NEW r \in RPCReceives \cup {NoRequest},
             SendRPC(t, c, r)
      PROVE  Inv'
  BY <1>3, SendRPCInv
<1>4. ASSUME NEW t \in Threads,
             (\E r \in Receives : Receive(t, r)) \/ (\E r \in RPCReceives : ReceiveRPC(t, r))
      PROVE  Inv'
  BY <1>4, AskInv
<1>5. ASSUME NEW t \in Threads, Finish(t) PROVE Inv'
  BY <1>5, FinishInv
<1>6. ASSUME NEW t \in Threads, Deadline(t) PROVE Inv'
  BY <1>6 DEF Deadline, Queue!Deadline, Inv, TypeOK, QueueInv, SequentialInv
<1>7. CASE Delete
  <2>1. /\ mQueue' = <<>> /\ mailbox' = "deleted" /\ \A t \in Threads : own[t] = NoCall
        /\ UNCHANGED <<call, late, got, delivered, own, plan, asked, sequential, stolen>>
    BY <1>7 DEF Delete, Queue!Clear
  <2>2. TypeOK'
    BY <2>1 DEF Inv, TypeOK
  <2>3. ToSet(mQueue') = {} /\ Distinct(mQueue')
    BY <2>1 DEF ToSet, Distinct
  <2> QED
    BY <2>1, <2>2, <2>3 DEF Inv, QueueInv, SequentialInv
<1>8. CASE UNCHANGED vars
  BY <1>8 DEF vars, queueVars, Inv, TypeOK, QueueInv, SequentialInv
<1> QED
  BY <1>1, <1>2, <1>3, <1>4, <1>5, <1>6, <1>7, <1>8 DEF Next

LEMMA Invariance == Spec => []Inv
BY InitInv, NextInv, PTL DEF Spec

-----------------------------------------------------------------------------
(* The fields of a mailbox and of its callers keep their types, and        *)
(* receiveRPC() (EpiMailBox.cpp:329) is only ever entered by a thread with *)
(* a call of its own.                                                      *)
THEOREM MailBoxTypes == Spec => []TypeOK
<1>1. Inv => TypeOK
  BY DEF Inv
<1> QED
  BY <1>1, Invariance, PTL

(* Only the end of a method puts a message into a thread's hands.          *)
LEMMA MessagesComeFromFinish ==
  ASSUME TypeOK, [Next]_vars, NEW t \in Threads, got'[t] \in Messages, got'[t] # got[t]
  PROVE  Finish(t)
<1>1. PICK s \in Threads :
        \/ \E r \in Receives : Receive(s, r)
        \/ \E r \in RPCReceives : ReceiveRPC(s, r)
        \/ Finish(s)
  BY DEF Next, vars, queueVars, Deliver, Reply, SendRPC, Deadline, Delete,
         Queue!Arrive, Queue!Deadline, Queue!Clear
<1>2. \A u \in Threads : u # s => got'[u] = got[u]
  BY <1>1 DEF Receive, ReceiveRPC, Finish, Queue!Ask, Queue!Serve, Queue!Refuse,
              Queue!Answer, TypeOK
<1>3. s = t
  BY <1>2
<1>4. got'[t] # Pending
  BY MailBoxAssumption
<1> QED
  BY <1>1, <1>3, <1>4 DEF Receive, ReceiveRPC, Queue!Ask, TypeOK

(* While calls come one after the other, receiveRPC() (EpiMailBox.cpp:329) *)
(* gives each thread the answer to its own call, although the pattern      *)
(* {rex, _} fits every answer.                                             *)
THEOREM SequentialAnswers == Spec => SequentialCallsGetTheirAnswers
<1> DEFINE Step == \A t \in Threads : sequential /\ Answered(t) => got'[t] = own[t]
<1>1. ASSUME Inv, [Next]_vars
      PROVE  Step
  <2> SUFFICES ASSUME NEW t \in Threads, sequential, Answered(t)
               PROVE  got'[t] = own[t]
    OBVIOUS
  <2>1. call[t] \in RPCReceives /\ got'[t] \in Messages \ Errors /\ call'[t] = NoRequest
    BY DEF Answered
  <2>2. Finish(t)
    <3>1. call'[t] # call[t]
      BY <2>1, ReceivesTakeErrors
    <3>2. PICK s \in Threads :
            \/ \E r \in Receives : Receive(s, r)
            \/ \E r \in RPCReceives : ReceiveRPC(s, r)
            \/ Finish(s)
      BY <1>1, <3>1 DEF Next, vars, queueVars, Deliver, Reply, SendRPC, Deadline, Delete,
             Queue!Arrive, Queue!Deadline, Queue!Clear
    <3>3. \A u \in Threads : u # s => call'[u] = call[u]
      BY <1>1, <3>2 DEF Receive, ReceiveRPC, Finish, Queue!Ask, Queue!Serve, Queue!Refuse,
                  Queue!Answer, Inv, TypeOK
    <3>4. s = t
      BY <3>1, <3>3
    <3> QED
      BY <2>1, <3>2, <3>4, ReceivesTakeErrors DEF Receive, ReceiveRPC, Queue!Ask, Idle
  <2>3. PICK m \in Messages \cup {Null} :
          /\ Queue!Answer(t, m)
          /\ m = Null \/ m \in ToSet(mQueue) \cap call[t].accepts
    BY <1>1, <2>2, FinishEffect DEF Inv
  <2>4. got'[t] = m
    BY <1>1, <2>3 DEF Queue!Answer, Inv, TypeOK
  <2>5. m \in ToSet(mQueue) \cap call[t].accepts /\ m \notin Errors
    BY <2>1, <2>3, <2>4, MailBoxAssumption
  <2> QED
    BY <1>1, <2>1, <2>4, <2>5, AnswerIsOwn
<1>2. Inv /\ [Next]_vars => [Step]_vars
  BY <1>1
<1> QED
  BY <1>2, Invariance, PTL DEF Spec, SequentialCallsGetTheirAnswers

(* No receive, guarded or not, returns a message that came after an error  *)
(* which is still in the queue (MailBoxGuard::check, EpiMailBox.cpp:45).   *)
THEOREM ErrorsComeFirst == Spec => ErrorsAreNotOvertaken
<1> DEFINE Step == \A t \in Threads, e \in Errors :
                     got[t] = Pending => ~ArrivedBefore(e, got'[t])
<1>1. ASSUME Inv, [Next]_vars
      PROVE  Step
  <2> SUFFICES ASSUME NEW t \in Threads, NEW e \in Errors,
                      got[t] = Pending, ArrivedBefore(e, got'[t])
               PROVE  FALSE
    OBVIOUS
  <2>0. mQueue \in Seq(Messages) /\ DOMAIN mQueue = 1 .. Len(mQueue) /\ Len(mQueue) \in Nat
    BY <1>1 DEF Inv, TypeOK
  <2>1. PICK k, j \in DOMAIN mQueue : k < j /\ mQueue[k] = e /\ mQueue[j] = got'[t]
    BY DEF ArrivedBefore
  <2>2. got'[t] \in Messages /\ got'[t] # got[t] /\ got'[t] # Null
    BY <2>0, <2>1, MailBoxAssumption
  <2>3. Finish(t)
    BY <1>1, <2>2, MessagesComeFromFinish DEF Inv
  <2>4. Queue!Serve(t)
    BY <1>1, <2>2, <2>3 DEF Finish, Queue!Refuse, Queue!Answer, Inv, TypeOK
  <2>5. PICK i \in DOMAIN mQueue :
          /\ \A h \in DOMAIN mQueue : h < i => mQueue[h] \notin call[t].accepts
          /\ Queue!Answer(t, mQueue[i])
    BY <1>1, <2>4, ServeTakesFirst DEF Inv
  <2>6. mQueue[i] = mQueue[j]
    BY <1>1, <2>1, <2>5 DEF Queue!Answer, Inv, TypeOK
  <2>7. i = j
    BY <1>1, <2>6 DEF Inv, QueueInv, Distinct
  <2>8. call[t] \in Requests
    BY <1>1, <2>4 DEF Queue!Serve, Inv, TypeOK
  <2>9. e \in call[t].accepts
    BY <2>8, ReceivesTakeErrors
  <2> QED
    BY <2>1, <2>5, <2>7, <2>9
<1>2. Inv /\ [Next]_vars => [Step]_vars
  BY <1>1
<1> QED
  BY <1>2, Invariance, PTL DEF Spec, ErrorsAreNotOvertaken
=============================================================================
