---------------------------- MODULE QueueContract ----------------------------
(***************************************************************************)
(* What GenericQueue promises to its users, without mutex, condition       *)
(* variable or signals: the comments of GenericQueue.hpp lines 76-123.     *)
(* A call that has not returned is outstanding; it ends with the oldest    *)
(* queued element that its predicate accepts, or, when it has a timeout    *)
(* and that has passed, with null.                                         *)
(***************************************************************************)
EXTENDS Naturals, SequencesExt

CONSTANTS Threads, Elements, Requests, Null, Pending, NoRequest

VARIABLES queue,     \* elements put and not yet taken, oldest first
          call,      \* the outstanding call of each thread
          late,      \* has the timeout of the call passed?
          answer,    \* what the last call of each thread returned
          put        \* every element that was put

vars == <<queue, call, late, answer, put>>

Init ==
  /\ queue = <<>>
  /\ call = [t \in Threads |-> NoRequest]
  /\ late = [t \in Threads |-> FALSE]
  /\ answer = [t \in Threads |-> Null]
  /\ put = {}

Arrive(e) ==
  /\ e \notin put
  /\ queue' = Append(queue, e)
  /\ put' = put \cup {e}
  /\ UNCHANGED <<call, late, answer>>

Ask(t, r) ==
  /\ call[t] = NoRequest
  /\ call' = [call EXCEPT ![t] = r]
  /\ answer' = [answer EXCEPT ![t] = Pending]
  /\ UNCHANGED <<queue, late, put>>

Accepted(t) == {i \in DOMAIN queue : queue[i] \in call[t].accepts}

Answer(t, v) ==
  /\ call' = [call EXCEPT ![t] = NoRequest]
  /\ late' = [late EXCEPT ![t] = FALSE]
  /\ answer' = [answer EXCEPT ![t] = v]

Serve(t) ==
  /\ call[t] # NoRequest
  /\ Accepted(t) # {}
  /\ LET i == Min(Accepted(t))
     IN queue' = RemoveAt(queue, i) /\ Answer(t, queue[i])
  /\ UNCHANGED put

Deadline(t) ==
  /\ call[t] # NoRequest
  /\ call[t].timed /\ ~late[t]
  /\ late' = [late EXCEPT ![t] = TRUE]
  /\ UNCHANGED <<queue, call, answer, put>>

Refuse(t) ==
  /\ call[t] # NoRequest
  /\ late[t]
  /\ Answer(t, Null)
  /\ UNCHANGED <<queue, put>>

Clear ==
  /\ \A t \in Threads : call[t] = NoRequest
  /\ queue' = <<>>
  /\ UNCHANGED <<call, late, answer, put>>

Next ==
  \/ \E e \in Elements : Arrive(e)
  \/ \E t \in Threads, r \in Requests : Ask(t, r)
  \/ \E t \in Threads : Serve(t) \/ Deadline(t) \/ Refuse(t)
  \/ Clear

Spec == Init /\ [][Next]_vars
=============================================================================
