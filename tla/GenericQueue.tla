---------------------------- MODULE GenericQueue ----------------------------
(***************************************************************************)
(* The thread queue of src/src/GenericQueue.hpp: a std::list of pointers,  *)
(* one mutex and one condition variable, on which every MailBox is built.  *)
(*                                                                         *)
(* Each method body runs under the mutex from its first line to its return *)
(* or to its wait(), so one critical section is one action.  A caller is   *)
(*   "idle"      outside the queue,                                        *)
(*   "entering"  inside get(), about to take the mutex,                    *)
(*   "waiting"   asleep in the condition variable,                         *)
(*   "woken"     released by a signal, about to take the mutex again,      *)
(*   "timedOut"  out of a wait that reported its timeout, about to take    *)
(*               the mutex again.                                          *)
(* A timed wait may report its timeout to a thread that a signal released: *)
(* pthread_cond_timedwait() does not say whether it used up a signal.      *)
(*                                                                         *)
(* The clock is abstracted to one bit per caller: expired[t] says that the *)
(* stopTime of t has passed.                                               *)
(***************************************************************************)
EXTENDS Naturals, SequencesExt

CONSTANTS Threads,           \* callers of get()
          Elements,          \* the pointers that are ever put, each of them once
          Requests,          \* the calls of get() that are made
          Boost,             \* TRUE: USE_BOOST build, FALSE: USE_OPEN_THREADS build
          SpuriousWakeups,   \* TRUE: wait() may return although nobody signalled
          Null,              \* the null pointer get(timeout) may return
          Pending,           \* "the call has not returned yet"
          NoRequest          \* "the thread is not in a call"

(* A request is one of the four overloads of get(): guarded or not, timed  *)
(* or not, and the elements its guard's check() accepts.  An unguarded     *)
(* get() takes whatever is at the head.                                    *)
Request == [accepts : SUBSET Elements, guarded : BOOLEAN, timed : BOOLEAN]

ASSUME RequestsAssumption ==
  /\ Requests \subseteq Request
  /\ \A r \in Requests : ~r.guarded => r.accepts = Elements

ASSUME ModeAssumption == Boost \in BOOLEAN /\ SpuriousWakeups \in BOOLEAN

ASSUME ValuesAssumption ==
  /\ NoRequest \notin Requests
  /\ Null \notin Elements
  /\ Pending \notin Elements \cup {Null}

VARIABLES mList,     \* the list of queued pointers
          pc,        \* where each caller is
          req,       \* the request each caller is in
          expired,   \* has the stopTime of the caller passed?
          result,    \* what the last call of each thread returned
          sent,      \* history: every pointer that was put
          handed,    \* history: every pointer that was returned
          deleted,   \* history: every pointer that flush() deleted
          swallowed  \* history: since the list was last empty, has a wait that
                     \* reported its timeout used up a signal?

vars == <<mList, pc, req, expired, result, sent, handed, deleted, swallowed>>

-----------------------------------------------------------------------------

Init ==
  /\ mList = <<>>
  /\ pc = [t \in Threads |-> "idle"]
  /\ req = [t \in Threads |-> NoRequest]
  /\ expired = [t \in Threads |-> FALSE]
  /\ result = [t \in Threads |-> Null]
  /\ sent = {} /\ handed = {} /\ deleted = {}
  /\ swallowed = FALSE

(* signal() / notify_one(): releases one of the threads asleep in the      *)
(* condition variable, nothing when nobody sleeps.  The value is the set   *)
(* of program-counter functions p can turn into.                           *)
Sleeping(p) == {t \in Threads : p[t] = "waiting"}

Signal(p) ==
  IF Sleeping(p) = {} THEN {p}
                      ELSE {[p EXCEPT ![s] = "woken"] : s \in Sleeping(p)}

(* Mutant of Return: the deadline of the call outlives it.                 *)
ReturnKeepsDeadline(t, v) ==
  /\ result' = [result EXCEPT ![t] = v]
  /\ req' = [req EXCEPT ![t] = NoRequest]
  /\ UNCHANGED expired

(* With the last element goes everything a lost signal could be about.     *)
ForgetWhenEmpty == swallowed' = (swallowed /\ mList' # <<>>)

(* The caller leaves get() with the value v.                               *)
Return(t, v) ==
  /\ result' = [result EXCEPT ![t] = v]
  /\ req' = [req EXCEPT ![t] = NoRequest]
  /\ expired' = [expired EXCEPT ![t] = FALSE]

(* Mutant of Put: push_front() for push_back().                            *)
PutFront(e) ==
  /\ e \notin sent
  /\ mList' = <<e>> \o mList
  /\ sent' = sent \cup {e}
  /\ pc' \in Signal(pc)
  /\ UNCHANGED <<req, expired, result, handed, deleted, swallowed>>

(* put(): append, then signal one.                                         *)
Put(e) ==
  /\ e \notin sent
  /\ mList' = Append(mList, e)
  /\ sent' = sent \cup {e}
  /\ pc' \in Signal(pc)
  /\ UNCHANGED <<req, expired, result, handed, deleted, swallowed>>

(* A thread calls one of the overloads of get().                           *)
Call(t, r) ==
  /\ pc[t] = "idle"
  /\ pc' = [pc EXCEPT ![t] = "entering"]
  /\ req' = [req EXCEPT ![t] = r]
  /\ result' = [result EXCEPT ![t] = Pending]
  /\ UNCHANGED <<mList, expired, sent, handed, deleted, swallowed>>

(* The scan of the list stops at the first element the request accepts:    *)
(* tryGet() for the unguarded overloads, the guard loop for the others.    *)
FirstMatch(t, i) ==
  /\ i \in DOMAIN mList
  /\ mList[i] \in req[t].accepts
  /\ \A j \in 1 .. i - 1 : mList[j] \notin req[t].accepts

NothingFor(t) == \A i \in DOMAIN mList : mList[i] \notin req[t].accepts

(* Mutant of Take: the element is returned but not erased.                 *)
TakeWithoutErase(t) ==
  \E i \in DOMAIN mList :
    /\ FirstMatch(t, i)
    /\ handed' = handed \cup {mList[i]}
    /\ pc' = [pc EXCEPT ![t] = "idle"]
    /\ Return(t, mList[i])
    /\ UNCHANGED <<mList, sent, deleted, swallowed>>

(* ... and that element leaves the list and is returned.                   *)
Take(t) ==
  \E i \in DOMAIN mList :
    /\ FirstMatch(t, i)
    /\ mList' = RemoveAt(mList, i)
    /\ handed' = handed \cup {mList[i]}
    /\ pc' = [pc EXCEPT ![t] = "idle"]
    /\ Return(t, mList[i])
    /\ ForgetWhenEmpty
    /\ UNCHANGED <<sent, deleted>>

(* Mutant of AfterReject: a guarded get() keeps the signal to itself.      *)
RejectQuietly(t) == {[pc EXCEPT ![t] = "entering"]}

(* A scan that accepts nothing.  A guarded get() first signals ("Give      *)
(* oportunity to other"); then a timed one past its stopTime returns null  *)
(* and every other one goes to sleep.                                      *)
AfterReject(t) ==
  IF req[t].guarded THEN Signal([pc EXCEPT ![t] = "entering"])
                    ELSE {[pc EXCEPT ![t] = "entering"]}

GiveUp(t) ==
  /\ NothingFor(t)
  /\ req[t].timed /\ expired[t]
  /\ \E p \in AfterReject(t) : pc' = [p EXCEPT ![t] = "idle"]
  /\ Return(t, Null)
  /\ UNCHANGED <<mList, sent, handed, deleted, swallowed>>

Sleep(t) ==
  /\ NothingFor(t)
  /\ ~(req[t].timed /\ expired[t])
  /\ \E p \in AfterReject(t) : pc' = [p EXCEPT ![t] = "waiting"]
  /\ UNCHANGED <<mList, req, expired, result, sent, handed, deleted, swallowed>>

Scan(t) == Take(t) \/ GiveUp(t) \/ Sleep(t)

(* Mutant of WaitFailed: the wait's value is read as Boost returns it.     *)
WaitFailedInverted(t) == req[t].timed /\ pc[t] = "woken"

(* The value of the timed wait is tested against 0 and null is returned    *)
(* when it is not 0.  OpenThreads' wait(mutex, ms) is non-zero when it     *)
(* timed out; Boost's timed_wait(lock, time) is true when it did NOT.      *)
WaitFailed(t) == req[t].timed /\ (pc[t] = "woken" <=> Boost)

ReturnNull(t) ==
  /\ pc' = [pc EXCEPT ![t] = "idle"]
  /\ Return(t, Null)
  /\ UNCHANGED <<mList, sent, handed, deleted, swallowed>>

(* The two ways to get the mutex: for the first time, or out of wait().    *)
Enter(t) == pc[t] = "entering" /\ Scan(t)

Resume(t) ==
  /\ pc[t] \in {"woken", "timedOut"}
  /\ IF WaitFailed(t) THEN ReturnNull(t) ELSE Scan(t)

(* Time passes the stopTime of a timed call.  A caller that is still       *)
(* "entering" may find itself late at its first test: the scan took longer *)
(* than the timeout.                                                       *)
Expire(t) ==
  /\ pc[t] \in {"entering", "waiting", "woken"}
  /\ req[t].timed /\ ~expired[t]
  /\ expired' = [expired EXCEPT ![t] = TRUE]
  /\ UNCHANGED <<mList, pc, req, result, sent, handed, deleted, swallowed>>

(* The timed wait reports its timeout.  The thread may be asleep, or just  *)
(* released by a signal: then the signal is used up, and the test after    *)
(* the wait returns null without passing it on.                            *)
TimeOut(t) ==
  /\ pc[t] \in {"waiting", "woken"} /\ expired[t]
  /\ pc' = [pc EXCEPT ![t] = "timedOut"]
  /\ swallowed' = (swallowed \/ (pc[t] = "woken" /\ mList # <<>>))
  /\ UNCHANGED <<mList, req, expired, result, sent, handed, deleted>>

SpuriousWake(t) ==
  /\ SpuriousWakeups
  /\ pc[t] = "waiting"
  /\ pc' = [pc EXCEPT ![t] = "woken"]
  /\ UNCHANGED <<mList, req, expired, result, sent, handed, deleted, swallowed>>

(* flush() takes no lock.  Its one caller is ~MailBox, so it runs when no  *)
(* thread is inside the queue; it deletes what it finds.                   *)
Flush ==
  /\ \A t \in Threads : pc[t] = "idle"
  /\ mList # <<>>
  /\ deleted' = deleted \cup ToSet(mList)
  /\ mList' = <<>>
  /\ ForgetWhenEmpty
  /\ UNCHANGED <<pc, req, expired, result, sent, handed>>

Next ==
  \/ \E e \in Elements : Put(e)
  \/ \E t \in Threads, r \in Requests : Call(t, r)
  \/ \E t \in Threads : Enter(t) \/ Resume(t)
  \/ \E t \in Threads : Expire(t) \/ TimeOut(t) \/ SpuriousWake(t)
  \/ Flush

Spec == Init /\ [][Next]_vars

-----------------------------------------------------------------------------
(* Fairness.  A runnable thread gets the mutex and the processor, and the  *)
(* clock runs: weak fairness.  A condition variable whose signals are      *)
(* answered again and again does not pass over the same sleeper for ever:  *)
(* strong fairness of being the one released.                              *)
Released(t) == Next /\ pc[t] = "waiting" /\ pc'[t] = "woken"

ThreadFairness ==
  \A t \in Threads : /\ WF_vars(Enter(t)) /\ WF_vars(Resume(t))
                     /\ WF_vars(Expire(t)) /\ WF_vars(TimeOut(t))

SignalFairness == \A t \in Threads : SF_vars(Released(t))

FairSpec == Spec /\ ThreadFairness /\ SignalFairness
-----------------------------------------------------------------------------
(* Types, and the few facts that tie a caller's fields together: a thread  *)
(* outside get() has no request, one inside has not returned, and only a   *)
(* timed call can expire or time out.                                      *)
TypeOK ==
  /\ mList \in Seq(Elements)
  /\ pc \in [Threads -> {"idle", "entering", "waiting", "woken", "timedOut"}]
  /\ req \in [Threads -> Requests \cup {NoRequest}]
  /\ expired \in [Threads -> BOOLEAN]
  /\ result \in [Threads -> Elements \cup {Null, Pending}]
  /\ sent \subseteq Elements /\ handed \subseteq Elements /\ deleted \subseteq Elements
  /\ swallowed \in BOOLEAN
  /\ \A t \in Threads :
       /\ pc[t] = "idle" <=> req[t] = NoRequest
       /\ pc[t] = "idle" <=> result[t] # Pending
       /\ expired[t] => pc[t] # "idle" /\ req[t].timed
       /\ pc[t] = "timedOut" => expired[t]

(* Every pointer that was put is in exactly one place: once in the list,   *)
(* or with the one caller get() returned it to, or deleted by flush().     *)
(* Two concurrent receivers never get the same message, and a message is   *)
(* never dropped or returned after it was deleted.                         *)
ElementsConserved ==
  /\ sent = ToSet(mList) \cup handed \cup deleted
  /\ ToSet(mList) \cap (handed \cup deleted) = {}
  /\ handed \cap deleted = {}
  /\ \A i, j \in DOMAIN mList : mList[i] = mList[j] => i = j

(* While a receiver sleeps and an element it accepts is queued, a signal   *)
(* is still on its way: some released thread has not run yet, and will     *)
(* take an element or pass the signal on.  Otherwise the message would     *)
(* stay in the list until the next put(), with its receiver asleep.  This  *)
(* is what the signal() in the guarded get() is for ("Give oportunity to   *)
(* other", GenericQueue.hpp:231), over any number of receivers that hand   *)
(* one signal on.  The one way to lose it: a timed wait that reports its   *)
(* timeout has used it up (GenericQueue.hpp:199, 282 return null at once,  *)
(* with no signal() for another), which `swallowed` remembers for as long  *)
(* as the list is not empty.                                               *)
NoLostWakeup ==
  \A t \in Threads :
    pc[t] = "waiting" /\ ~NothingFor(t)
      => swallowed \/ \E s \in Threads : pc[s] = "woken"

(* get(timeout) returns null only after its stopTime ("or null if none     *)
(* arrived in time", GenericQueue.hpp:87): a null never reports a message  *)
(* that arrived as one that did not.                                       *)
NullOnlyWhenLate ==
  [][\A t \in Threads :
       result[t] = Pending /\ result'[t] = Null => expired[t]]_vars

(* A sleeping receiver for which an accepted element is queued leaves the  *)
(* queue with some element, or another receiver takes the elements it      *)
(* accepts: the round of signals among guarded receivers does reach it.    *)
Delivery ==
  \A t \in Threads :
    (pc[t] = "waiting" /\ ~NothingFor(t)) ~> (pc[t] = "idle" \/ NothingFor(t))

Contract ==
  INSTANCE QueueContract WITH queue <- mList, call <- req, late <- expired,
                              answer <- result, put <- sent

(* Every behaviour of the queue, seen without pc, is one of the contract:  *)
(* messages leave in the order of arrival among those a receiver accepts,  *)
(* one receiver each, and null only answers a call whose time is up.       *)
ImplementsContract == Contract!Spec
=============================================================================
