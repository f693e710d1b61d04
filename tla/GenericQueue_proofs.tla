------------------------ MODULE GenericQueue_proofs ------------------------
(***************************************************************************)
(* Theorems about GenericQueue, for any sets of threads, elements and      *)
(* requests and for both builds.                                           *)
(***************************************************************************)
EXTENDS GenericQueue, SequenceLemmas

-----------------------------------------------------------------------------
(* A signal releases at most one sleeper and changes nobody else.          *)
LEMMA SignalReleasesASleeper ==
  ASSUME NEW p, NEW q \in Signal(p)
  PROVE  \/ q = p /\ Sleeping(p) = {}
         \/ \E s \in Threads : p[s] = "waiting" /\ q = [p EXCEPT ![s] = "woken"]
BY DEF Signal, Sleeping

PCs == {"idle", "entering", "waiting", "woken", "timedOut"}

(* ... and a caller whose scan found nothing is left for the next step.    *)
LEMMA AfterRejectEffect ==
  ASSUME TypeOK, NEW t \in Threads, NEW p \in AfterReject(t), pc[t] # "waiting"
  PROVE  /\ p \in [Threads -> PCs]
         /\ \A s \in Threads \ {t} : \/ p[s] = pc[s]
                                     \/ pc[s] = "waiting" /\ p[s] = "woken"
<1> DEFINE q == [pc EXCEPT ![t] = "entering"]
<1>1. q \in [Threads -> PCs] /\ \A s \in Threads \ {t} : q[s] = pc[s]
  BY DEF TypeOK, PCs
<1>2. p = q \/ p \in Signal(q)
  BY DEF AfterReject
<1>3. p = q \/ \E s \in Threads : q[s] = "waiting" /\ p = [q EXCEPT ![s] = "woken"]
  BY <1>2, SignalReleasesASleeper
<1>4. q[t] = "entering"
  BY DEF TypeOK
<1> HIDE DEF q
<1>. QED  BY <1>1, <1>3, <1>4 DEF PCs

(* The types and the ties between a caller's fields hold for ever.         *)
THEOREM TypeCorrect == Spec => []TypeOK
<1> USE RequestsAssumption, ModeAssumption, ValuesAssumption
<1>1. Init => TypeOK
  <2> SUFFICES ASSUME Init PROVE TypeOK
    OBVIOUS
  <2>1. mList \in Seq(Elements)
    BY DEF Init
  <2>2. swallowed \in BOOLEAN
    BY Zenon DEF Init
  <2>. QED  BY <2>1, <2>2 DEF Init, TypeOK
<1>2. ASSUME TypeOK, [Next]_vars
      PROVE  TypeOK'
  <2> USE TypeOK
  <2>1. ASSUME NEW e \in Elements, Put(e)
        PROVE  TypeOK'
    <3>1. mList' \in Seq(Elements) /\ sent' \subseteq Elements
      BY <2>1 DEF Put, TypeOK
    <3>2. \/ pc' = pc
          \/ \E s \in Threads : pc[s] = "waiting" /\ pc' = [pc EXCEPT ![s] = "woken"]
      BY <2>1, SignalReleasesASleeper DEF Put
    <3>. QED  BY <2>1, <3>1, <3>2 DEF Put, TypeOK
  <2>2. ASSUME NEW t \in Threads, NEW r \in Requests, Call(t, r)
        PROVE  TypeOK'
    BY <2>2 DEF Call, TypeOK
  <2>3. ASSUME NEW t \in Threads, pc[t] \in {"entering", "woken", "timedOut"}, Scan(t)
        PROVE  TypeOK'
    <3>0. req[t] \in Requests /\ req[t] \in Request
      BY <2>3 DEF TypeOK
    <3>1. CASE Take(t)
      <4>1. PICK i \in DOMAIN mList :
              /\ mList' = RemoveAt(mList, i)
              /\ handed' = handed \cup {mList[i]}
              /\ pc' = [pc EXCEPT ![t] = "idle"]
              /\ Return(t, mList[i])
              /\ ForgetWhenEmpty
              /\ UNCHANGED <<sent, deleted>>
        BY <3>1 DEF Take
      <4>2. mList' \in Seq(Elements) /\ mList[i] \in Elements
        BY <4>1, RemoveAtProperties DEF TypeOK
      <4>. QED  BY <2>3, <4>1, <4>2 DEF TypeOK, Return, ForgetWhenEmpty
    <3>2. CASE GiveUp(t)
      <4>1. PICK p \in AfterReject(t) : pc' = [p EXCEPT ![t] = "idle"]
        BY <3>2 DEF GiveUp
      <4>2. /\ p \in [Threads -> PCs]
            /\ \A s \in Threads \ {t} : \/ p[s] = pc[s]
                                        \/ pc[s] = "waiting" /\ p[s] = "woken"
        BY <2>3, AfterRejectEffect
      <4>. QED  BY <2>3, <3>2, <4>1, <4>2 DEF GiveUp, TypeOK, Return, PCs
    <3>3. CASE Sleep(t)
      <4>1. PICK p \in AfterReject(t) : pc' = [p EXCEPT ![t] = "waiting"]
        BY <3>3 DEF Sleep
      <4>2. /\ p \in [Threads -> PCs]
            /\ \A s \in Threads \ {t} : \/ p[s] = pc[s]
                                        \/ pc[s] = "waiting" /\ p[s] = "woken"
        BY <2>3, AfterRejectEffect
      <4>. QED  BY <2>3, <3>3, <4>1, <4>2 DEF Sleep, TypeOK, PCs
    <3>. QED  BY <2>3, <3>1, <3>2, <3>3 DEF Scan
  <2>4. ASSUME NEW t \in Threads, Enter(t)
        PROVE  TypeOK'
    BY <2>3, <2>4 DEF Enter
  <2>5. ASSUME NEW t \in Threads, Resume(t)
        PROVE  TypeOK'
    <3>1. CASE WaitFailed(t) /\ ReturnNull(t)
      BY <2>5, <3>1 DEF Resume, ReturnNull, Return, TypeOK
    <3>2. CASE Scan(t)
      BY <2>3, <2>5, <3>2 DEF Resume
    <3>. QED  BY <2>5, <3>1, <3>2 DEF Resume
  <2>6. ASSUME NEW t \in Threads, Expire(t)
        PROVE  TypeOK'
    BY <2>6 DEF Expire, TypeOK
  <2>7. ASSUME NEW t \in Threads, TimeOut(t)
        PROVE  TypeOK'
    BY <2>7 DEF TimeOut, TypeOK
  <2>8. ASSUME NEW t \in Threads, SpuriousWake(t)
        PROVE  TypeOK'
    BY <2>8 DEF SpuriousWake, TypeOK
  <2>9. ASSUME Flush
        PROVE  TypeOK'
    <3>1. ToSet(mList) \subseteq Elements
      BY DEF ToSet, TypeOK
    <3>. QED  BY <2>9, <3>1 DEF Flush, TypeOK, ForgetWhenEmpty
  <2>10. CASE UNCHANGED vars
    BY <2>10 DEF vars, TypeOK
  <2>. QED
    BY <1>2, <2>1, <2>2, <2>4, <2>5, <2>6, <2>7, <2>8, <2>9, <2>10 DEF Next
<1>. QED  BY <1>1, <1>2, PTL DEF Spec
-----------------------------------------------------------------------------
(* Only Take, Put and Flush touch the list and the three histories.        *)
LEMMA ScanTouches ==
  ASSUME NEW t \in Threads, Scan(t) \/ ReturnNull(t)
  PROVE  Take(t) \/ UNCHANGED <<mList, sent, handed, deleted>>
BY DEF Scan, GiveUp, Sleep, ReturnNull

LEMMA ConservedStep ==
  ASSUME TypeOK, ElementsConserved, [Next]_vars
  PROVE  ElementsConserved'
<1>0. mList \in Seq(Elements) /\ Distinct(mList)
  BY DEF TypeOK, ElementsConserved, Distinct
<1>1. ASSUME NEW e \in Elements, Put(e)
      PROVE  ElementsConserved'
  <2>1. e \notin ToSet(mList)
    BY <1>1 DEF Put, ElementsConserved
  <2>2. ToSet(mList') = ToSet(mList) \cup {e} /\ Distinct(mList')
    BY <1>0, <1>1, <2>1, AppendToSet DEF Put
  <2>. QED  BY <1>1, <2>1, <2>2 DEF Put, ElementsConserved, Distinct
<1>2. ASSUME NEW t \in Threads, Take(t)
      PROVE  ElementsConserved'
  <2>1. PICK i \in DOMAIN mList :
          /\ mList' = RemoveAt(mList, i)
          /\ handed' = handed \cup {mList[i]}
          /\ UNCHANGED <<sent, deleted>>
    BY <1>2 DEF Take
  <2>2. ToSet(mList') = ToSet(mList) \ {mList[i]} /\ Distinct(mList')
    BY <1>0, <2>1, RemoveAtToSet
  <2>3. mList[i] \in ToSet(mList)
    BY DEF ToSet
  <2>. QED  BY <2>1, <2>2, <2>3 DEF ElementsConserved, Distinct
<1>3. ASSUME Flush
      PROVE  ElementsConserved'
  <2>1. ToSet(<<>>) = {}
    BY DEF ToSet
  <2>. QED  BY <1>3, <2>1 DEF Flush, ElementsConserved
<1>4. ASSUME UNCHANGED <<mList, sent, handed, deleted>>
      PROVE  ElementsConserved'
  BY <1>4 DEF ElementsConserved
<1>5. ASSUME NEW t \in Threads, Enter(t) \/ Resume(t)
      PROVE  ElementsConserved'
  BY <1>2, <1>4, <1>5, ScanTouches DEF Enter, Resume
<1>6. ASSUME NEW t \in Threads, NEW r \in Requests,
             Call(t, r) \/ Expire(t) \/ TimeOut(t) \/ SpuriousWake(t)
      PROVE  ElementsConserved'
  BY <1>4, <1>6 DEF Call, Expire, TimeOut, SpuriousWake
<1>7. ASSUME NEW t \in Threads, Expire(t) \/ TimeOut(t) \/ SpuriousWake(t)
      PROVE  ElementsConserved'
  BY <1>4, <1>7 DEF Expire, TimeOut, SpuriousWake
<1>8. CASE UNCHANGED vars
  BY <1>4, <1>8 DEF vars
<1>. QED  BY <1>1, <1>3, <1>5, <1>6, <1>7, <1>8 DEF Next

(* No message is lost, duplicated or returned after flush() deleted it,    *)
(* for any number of receivers and messages and in both builds.            *)
THEOREM Conservation == Spec => []ElementsConserved
<1>1. Init => ElementsConserved
  BY DEF Init, ElementsConserved, ToSet
<1>. QED  BY <1>1, ConservedStep, TypeCorrect, PTL DEF Spec

-----------------------------------------------------------------------------
(* The Boost build reads the value of a timed wait the wrong way round     *)
(* (GenericQueue.hpp:203): what follows is of the OpenThreads build, and   *)
(* of the Boost build as long as no call has a timeout.                    *)
NoBoostTimeouts == Boost => \A r \in Requests : ~r.timed

(* A call that returns null is one whose stopTime has passed: a woken      *)
(* receiver always looks at the list again.                                *)
THEOREM NullIsLate ==
  ASSUME NoBoostTimeouts
  PROVE  Spec => NullOnlyWhenLate
<1> DEFINE Step == \A t \in Threads :
                     result[t] = Pending /\ result'[t] = Null => expired[t]
<1>1. ASSUME TypeOK, [Next]_vars
      PROVE  [Step]_vars
  <2> SUFFICES ASSUME NEW u \in Threads, result[u] = Pending, result'[u] = Null
               PROVE  expired[u]
    OBVIOUS
  <2> USE <1>1, ValuesAssumption, ModeAssumption
  <2>1. Null # Pending
    OBVIOUS
  <2>2. result' # result
    BY <2>1
  <2>3. PICK t \in Threads :
          \/ Enter(t) \/ Resume(t)
          \/ \E r \in Requests : Call(t, r)
    BY <2>2 DEF Next, vars, Put, Flush, Expire, TimeOut, SpuriousWake
  <2>4. ASSUME Take(t)
        PROVE  FALSE
    <3>1. \E i \in DOMAIN mList : result' = [result EXCEPT ![t] = mList[i]]
      BY <2>4 DEF Take, Return
    <3>. QED  BY <2>1, <3>1 DEF TypeOK
  <2>5. ASSUME GiveUp(t) \/ ReturnNull(t)
        PROVE  u = t
    BY <2>1, <2>5 DEF GiveUp, ReturnNull, Return, TypeOK
  <2>6. CASE GiveUp(t)
    BY <2>5, <2>6 DEF GiveUp
  <2>7. CASE Resume(t) /\ ReturnNull(t) /\ WaitFailed(t)
    <3>1. req[t] \in Requests /\ req[t].timed
      BY <2>7 DEF Resume, WaitFailed, TypeOK
    <3>. QED  BY <2>5, <2>7, <3>1, NoBoostTimeouts DEF NoBoostTimeouts, Resume, WaitFailed, TypeOK
  <2>8. ~Sleep(t)
    BY <2>2 DEF Sleep
  <2>9. ~\E r \in Requests : Call(t, r)
    BY <2>1 DEF Call, TypeOK
  <2>. QED  BY <2>3, <2>4, <2>6, <2>7, <2>8, <2>9 DEF Enter, Resume, Scan
<1>. QED  BY <1>1, TypeCorrect, PTL DEF Spec, NullOnlyWhenLate

-----------------------------------------------------------------------------
(* The queue implements its contract.  The first match of a scan is the    *)
(* oldest element that the contract hands out.                             *)
LEMMA FirstMatchIsOldest ==
  ASSUME TypeOK, NEW t \in Threads, NEW i \in DOMAIN mList, FirstMatch(t, i)
  PROVE  i \in Contract!Accepted(t) /\ i = Contract!Min(Contract!Accepted(t))
<1> DEFINE A == Contract!Accepted(t)
<1>1. DOMAIN mList = 1 .. Len(mList) /\ Len(mList) \in Nat
  BY DEF TypeOK
<1>2. A = {j \in DOMAIN mList : mList[j] \in req[t].accepts}
  BY DEF Contract!Accepted
<1> HIDE DEF A
<1>3. i \in A /\ \A j \in A : i <= j
  BY <1>1, <1>2 DEF FirstMatch
<1>4. A \subseteq Nat
  BY <1>1, <1>2
<1>5. \A k \in A : (\A j \in A : k <= j) => k = i
  BY <1>3, <1>4
<1>6. Contract!Min(A) = i
  BY <1>3, <1>5 DEF Contract!Min
<1>. QED  BY <1>3, <1>6 DEF A

LEMMA TakeServes ==
  ASSUME TypeOK, NEW t \in Threads, pc[t] # "idle", Take(t)
  PROVE  Contract!Serve(t)
<1>1. PICK i \in DOMAIN mList :
        /\ FirstMatch(t, i)
        /\ mList' = RemoveAt(mList, i)
        /\ Return(t, mList[i])
        /\ UNCHANGED sent
  BY DEF Take
<1>2. i = Contract!Min(Contract!Accepted(t)) /\ Contract!Accepted(t) # {}
  BY <1>1, FirstMatchIsOldest
<1>3. Contract!RemoveAt(mList, i) = RemoveAt(mList, i)
  BY DEF Contract!RemoveAt, RemoveAt
<1>4. Contract!Answer(t, mList[i])
  BY <1>1 DEF Return, Contract!Answer
<1>5. req[t] # NoRequest
  BY DEF TypeOK
<1>. QED  BY <1>1, <1>2, <1>3, <1>4, <1>5 DEF Contract!Serve

LEMMA ScanImplements ==
  ASSUME TypeOK, NEW t \in Threads, pc[t] # "idle", Scan(t)
  PROVE  Contract!Serve(t) \/ Contract!Refuse(t) \/ UNCHANGED Contract!vars
<1>1. CASE Take(t)
  BY <1>1, TakeServes
<1>2. CASE GiveUp(t)
  BY <1>2 DEF GiveUp, Return, TypeOK, Contract!Refuse, Contract!Answer
<1>3. CASE Sleep(t)
  BY <1>3 DEF Sleep, Contract!vars
<1>. QED  BY <1>1, <1>2, <1>3 DEF Scan

(* Every step of the queue is a step of the contract or changes nothing    *)
(* the contract speaks of.                                                 *)
LEMMA StepImplements ==
  ASSUME NoBoostTimeouts, TypeOK, [Next]_vars
  PROVE  [Contract!Next]_(Contract!vars)
<1>1. ASSUME NEW e \in Elements, Put(e) PROVE Contract!Next
  BY <1>1 DEF Put, Contract!Next, Contract!Arrive
<1>2. ASSUME NEW t \in Threads, NEW r \in Requests, Call(t, r) PROVE Contract!Next
  BY <1>2 DEF Call, TypeOK, Contract!Next, Contract!Ask
<1>3. ASSUME NEW t \in Threads, Enter(t) PROVE [Contract!Next]_(Contract!vars)
  BY <1>3, ScanImplements DEF Enter, Contract!Next
<1>4. ASSUME NEW t \in Threads, Resume(t) PROVE [Contract!Next]_(Contract!vars)
  <2>1. CASE WaitFailed(t) /\ ReturnNull(t)
    <3>0. req[t] \in Requests /\ req[t].timed
      BY <1>4, <2>1 DEF Resume, WaitFailed, TypeOK
    <3>1. expired[t] /\ req[t] # NoRequest
      BY <1>4, <2>1, <3>0, ModeAssumption DEF NoBoostTimeouts, Resume, WaitFailed, TypeOK
    <3>2. Contract!Refuse(t)
      BY <2>1, <3>1 DEF ReturnNull, Return, Contract!Refuse, Contract!Answer
    <3>. QED  BY <3>2 DEF Contract!Next
  <2>2. CASE Scan(t)
    BY <1>4, <2>2, ScanImplements DEF Resume, Contract!Next
  <2>. QED  BY <1>4, <2>1, <2>2 DEF Resume
<1>5. ASSUME NEW t \in Threads, Expire(t) PROVE Contract!Next
  BY <1>5 DEF Expire, TypeOK, Contract!Next, Contract!Deadline
<1>6. ASSUME NEW t \in Threads, TimeOut(t) \/ SpuriousWake(t) PROVE UNCHANGED Contract!vars
  BY <1>6 DEF TimeOut, SpuriousWake, Contract!vars
<1>7. ASSUME Flush PROVE Contract!Next
  BY <1>7 DEF Flush, TypeOK, Contract!Next, Contract!Clear
<1>8. CASE UNCHANGED vars
  BY <1>8 DEF vars, Contract!vars
<1>. QED  BY <1>1, <1>2, <1>3, <1>4, <1>5, <1>6, <1>7, <1>8 DEF Next

(* Every behaviour of put() and get(), with their signals and spurious     *)
(* wakeups, is one that the comments of GenericQueue.hpp (lines 76 to 123) *)
(* promise.                                                                *)
THEOREM QueueImplementsContract ==
  ASSUME NoBoostTimeouts
  PROVE  Spec => ImplementsContract
<1>1. Init => Contract!Init
  BY DEF Init, Contract!Init
<1>2. TypeOK /\ [Next]_vars => [Contract!Next]_(Contract!vars)
  BY StepImplements
<1>. QED  BY <1>1, <1>2, TypeCorrect, PTL DEF Spec, ImplementsContract, Contract!Spec

-----------------------------------------------------------------------------
(***************************************************************************)
(* No wakeup of the queue is lost but to a timed wait that reports its     *)
(* timeout, for any number of receivers, guards and messages, in the       *)
(* OpenThreads build, and in the Boost build when no receiver uses a       *)
(* timeout.                                                                *)
(*                                                                         *)
(* NoLostWakeup is not inductive: a released thread may take an element    *)
(* and use up the last signal while another element waits for a sleeper.   *)
(* It never does, because put() signals once per element.  The inductive   *)
(* invariant counts.  Let seen[w] be what the sleeper w had found in the   *)
(* list and refused.  However many of the elements of seen[w] the released *)
(* threads can take, one each, the released threads are at least as many   *)
(* as those elements and the elements that came after them together.       *)
(* "At least as many" is stated with injections, so that nothing need be   *)
(* finite.  The count is out when a signal was swallowed, and right again  *)
(* when the list is empty.                                                 *)
(***************************************************************************)

Queued == ToSet(mList)
Woken(p) == {t \in Threads : p[t] = "woken"}

OneToOne(f, X) == \A x, y \in X : f[x] = f[y] => x = y

(* W has room for the elements of X, one each.                             *)
Fits(X, W) == \E f \in [X -> W] : OneToOne(f, X)

(* The threads of W can take the elements of A, one each.                  *)
Matches(A, W, q) ==
  \E f \in [A -> W] : OneToOne(f, A) /\ \A e \in A : e \in q[f[e]].accepts

(* The parts of the invariant, for a list holding the elements Q, program  *)
(* counters p, requests q and the sets of refused elements.                *)
Refused(Q, p, q, seen) ==
  \A w \in Sleeping(p) : \A e \in Q \cap seen[w] : e \notin q[w].accepts

Nested(Q, p, seen) ==
  \A v, w \in Sleeping(p) : \/ Q \cap seen[v] \subseteq seen[w]
                            \/ Q \cap seen[w] \subseteq seen[v]

Covered(Q, W, q, S) ==
  \A A \in SUBSET (Q \cap S) : Matches(A, W, q) => Fits(A \cup (Q \ S), W)

Credit(Q, p, q, seen) ==
  /\ Refused(Q, p, q, seen)
  /\ Nested(Q, p, seen)
  /\ \A w \in Sleeping(p) : Covered(Q, Woken(p), q, seen[w])

SignalsCover ==
  \E seen \in [Threads -> SUBSET sent] : Credit(Queued, pc, req, seen)

-----------------------------------------------------------------------------
(* Facts about Fits and Matches.                                           *)
LEMMA FitsMonotone ==
  ASSUME NEW X, NEW W, NEW Y \in SUBSET X, NEW V, W \subseteq V, Fits(X, W)
  PROVE  Fits(Y, V)
<1>1. PICK f \in [X -> W] : OneToOne(f, X)
  BY DEF Fits
<1>2. [y \in Y |-> f[y]] \in [Y -> V]
  BY <1>1
<1>3. OneToOne([y \in Y |-> f[y]], Y)
  BY <1>1 DEF OneToOne
<1>. QED  BY <1>2, <1>3 DEF Fits

(* Room for one more.                                                      *)
LEMMA FitsAdd ==
  ASSUME NEW X, NEW W, NEW e, NEW x, x \notin W, Fits(X, W)
  PROVE  Fits(X \cup {e}, W \cup {x})
<1>1. PICK f \in [X -> W] : OneToOne(f, X)
  BY DEF Fits
<1> DEFINE g == [y \in X \cup {e} |-> IF y \in X THEN f[y] ELSE x]
<1>2. g \in [X \cup {e} -> W \cup {x}]
  BY <1>1
<1>3. OneToOne(g, X \cup {e})
  BY <1>1 DEF OneToOne
<1>. QED  BY <1>2, <1>3 DEF Fits

(* Without one element, one thread fewer is enough, whichever it is.       *)
LEMMA FitsRemove ==
  ASSUME NEW X, NEW W, NEW e \in X, NEW x \in W, Fits(X, W)
  PROVE  Fits(X \ {e}, W \ {x})
<1>1. PICK f \in [X -> W] : OneToOne(f, X)
  BY DEF Fits
<1> DEFINE g == [y \in X \ {e} |-> IF f[y] = x THEN f[e] ELSE f[y]]
<1>2. ASSUME NEW y \in X \ {e}
      PROVE  g[y] \in W \ {x}
  BY <1>1, <1>2 DEF OneToOne
<1>3. g \in [X \ {e} -> W \ {x}]
  BY <1>2
<1>4. OneToOne(g, X \ {e})
  BY <1>1 DEF OneToOne
<1>. QED  BY <1>3, <1>4 DEF Fits

(* One thread is as good as another.                                       *)
LEMMA FitsSwap ==
  ASSUME NEW X, NEW W, NEW g \in W, NEW x, x \notin W, Fits(X, W)
  PROVE  Fits(X, (W \ {g}) \cup {x})
<1>1. PICK f \in [X -> W] : OneToOne(f, X)
  BY DEF Fits
<1> DEFINE h == [y \in X |-> IF f[y] = g THEN x ELSE f[y]]
<1>2. h \in [X -> (W \ {g}) \cup {x}]
  BY <1>1
<1>3. OneToOne(h, X)
  BY <1>1 DEF OneToOne
<1>. QED  BY <1>2, <1>3 DEF Fits

LEMMA MatchesFits ==
  ASSUME NEW A, NEW W, NEW q, Matches(A, W, q)
  PROVE  Fits(A, W)
BY DEF Matches, Fits

(* Fewer elements, and threads that can take none of them, do not matter.  *)
LEMMA MatchesRestrict ==
  ASSUME NEW A, NEW W, NEW q, NEW r, NEW B \in SUBSET A, NEW V,
         Matches(A, W, q),
         \A t \in W : t \in V \/ \A e \in B : e \notin q[t].accepts,
         \A t \in W \cap V : r[t] = q[t]
  PROVE  Matches(B, V, r)
<1>1. PICK f \in [A -> W] : OneToOne(f, A) /\ \A e \in A : e \in q[f[e]].accepts
  BY DEF Matches
<1> DEFINE g == [e \in B |-> f[e]]
<1>2. \A e \in B : f[e] \in W \cap V
  BY <1>1
<1>3. g \in [B -> V]
  BY <1>2
<1>4. OneToOne(g, B)
  BY <1>1 DEF OneToOne
<1>5. \A e \in B : e \in r[g[e]].accepts
  BY <1>1, <1>2
<1>. QED  BY <1>3, <1>4, <1>5 DEF Matches

(* One more element with one more thread that accepts it.                  *)
LEMMA MatchesAdd ==
  ASSUME NEW A, NEW W, NEW q, NEW e, NEW t, t \notin W, e \in q[t].accepts,
         Matches(A, W, q)
  PROVE  Matches(A \cup {e}, W \cup {t}, q)
<1>1. PICK f \in [A -> W] : OneToOne(f, A) /\ \A d \in A : d \in q[f[d]].accepts
  BY DEF Matches
<1> DEFINE g == [d \in A \cup {e} |-> IF d \in A THEN f[d] ELSE t]
<1>2. g \in [A \cup {e} -> W \cup {t}]
  BY <1>1
<1>3. OneToOne(g, A \cup {e})
  BY <1>1 DEF OneToOne
<1>4. \A d \in A \cup {e} : d \in q[g[d]].accepts
  BY <1>1
<1>. QED  BY <1>2, <1>3, <1>4 DEF Matches
-----------------------------------------------------------------------------
(* How the steps of the queue change the invariant.  p and r are program   *)
(* counters before and after, q and u requests.                            *)

(* Nobody sleeps, or nothing is queued: there is nothing to cover.         *)
LEMMA CreditTrivial ==
  ASSUME NEW Q, NEW p, NEW q, NEW seen, Q = {} \/ Sleeping(p) = {}
  PROVE  Credit(Q, p, q, seen)
<1>1. CASE Sleeping(p) = {}
  BY <1>1 DEF Credit, Refused, Nested
<1>2. CASE Q = {}
  <2>1. ASSUME NEW W, NEW S
        PROVE  Covered(Q, W, q, S)
    <3> SUFFICES ASSUME NEW A \in SUBSET (Q \cap S)
                 PROVE  Fits(A \cup (Q \ S), W)
      BY DEF Covered
    <3>1. A \cup (Q \ S) = {}
      BY <1>2
    <3>2. [y \in {} |-> y] \in [{} -> W] /\ OneToOne([y \in {} |-> y], {})
      BY DEF OneToOne
    <3>. QED  BY <3>1, <3>2 DEF Fits
  <2>. QED  BY <1>2, <2>1 DEF Credit, Refused, Nested
<1>. QED  BY <1>1, <1>2

(* Sleepers may leave and elements be taken by threads that are not        *)
(* released: every sleeper that stays has as much room as before.          *)
LEMMA CreditShrinks ==
  ASSUME NEW Q, NEW R \in SUBSET Q, NEW p, NEW r, NEW q, NEW u, NEW seen,
         Credit(Q, p, q, seen),
         Sleeping(r) \subseteq Sleeping(p),
         Woken(r) = Woken(p),
         \A t \in Sleeping(r) \cup Woken(r) : u[t] = q[t]
  PROVE  Credit(R, r, u, seen)
<1>1. Refused(R, r, u, seen) /\ Nested(R, r, seen)
  BY DEF Credit, Refused, Nested
<1>2. ASSUME NEW w \in Sleeping(r), NEW A \in SUBSET (R \cap seen[w]),
             Matches(A, Woken(r), u)
      PROVE  Fits(A \cup (R \ seen[w]), Woken(r))
  <2>1. Matches(A, Woken(p), q)
    BY <1>2, MatchesRestrict
  <2>2. Fits(A \cup (Q \ seen[w]), Woken(p))
    BY <2>1 DEF Credit, Covered
  <2>3. A \cup (R \ seen[w]) \in SUBSET (A \cup (Q \ seen[w]))
    OBVIOUS
  <2>. QED  BY <2>2, <2>3, FitsMonotone
<1>. QED  BY <1>1, <1>2 DEF Credit, Covered

(* What the released threads can take when x is released as well leaves    *)
(* room for all that w has not refused, even without x.                    *)
LEMMA WakeCovers ==
  ASSUME NEW Q, NEW p, NEW q, NEW seen, Credit(Q, p, q, seen),
         NEW x \in Sleeping(p), NEW w \in Sleeping(p),
         NEW A \in SUBSET (Q \cap seen[w]),
         Matches(A, Woken(p) \cup {x}, q)
  PROVE  Fits(A \cup (Q \ seen[w]), Woken(p))
<1>1. \A e \in Q \cap seen[x] : e \notin q[x].accepts
  BY DEF Credit, Refused
<1>2. CASE Q \cap seen[x] \subseteq seen[w]
  <2> DEFINE B == A \cap seen[x]
  <2>1. \A t \in Woken(p) \cup {x} :
          t \in Woken(p) \/ \A e \in B : e \notin q[t].accepts
    BY <1>1
  <2>2. Matches(B, Woken(p), q)
    BY <2>1, MatchesRestrict
  <2>3. B \in SUBSET (Q \cap seen[x])
    OBVIOUS
  <2>4. Fits(B \cup (Q \ seen[x]), Woken(p))
    BY <2>2, <2>3 DEF Credit, Covered
  <2>5. A \cup (Q \ seen[w]) \in SUBSET (B \cup (Q \ seen[x]))
    BY <1>2
  <2>. QED  BY <2>4, <2>5, FitsMonotone
<1>3. CASE Q \cap seen[w] \subseteq seen[x]
  <2>1. \A t \in Woken(p) \cup {x} :
          t \in Woken(p) \/ \A e \in A : e \notin q[t].accepts
    BY <1>1, <1>3
  <2>2. Matches(A, Woken(p), q)
    BY <2>1, MatchesRestrict
  <2>. QED  BY <2>2 DEF Credit, Covered
<1>. QED  BY <1>2, <1>3 DEF Credit, Nested

(* Releasing a sleeper, with or without a new element behind the list.     *)
LEMMA CreditRelease ==
  ASSUME NEW Q, NEW p, NEW q, NEW seen, Credit(Q, p, q, seen),
         NEW x \in Sleeping(p), NEW r,
         Sleeping(r) = Sleeping(p) \ {x}, Woken(r) = Woken(p) \cup {x},
         NEW e, \A t \in Sleeping(p) : e \notin seen[t]
  PROVE  Credit(Q, r, q, seen) /\ Credit(Q \cup {e}, r, q, seen)
<1>1. x \notin Woken(p)
  BY DEF Sleeping, Woken
<1>2. ASSUME NEW w \in Sleeping(r), NEW A \in SUBSET (Q \cap seen[w]),
             Matches(A, Woken(r), q)
      PROVE  /\ Fits(A \cup (Q \ seen[w]), Woken(r))
             /\ Fits(A \cup ((Q \cup {e}) \ seen[w]), Woken(r))
  <2>0. w \in Sleeping(p) /\ Matches(A, Woken(p) \cup {x}, q)
    BY <1>2
  <2>1. Fits(A \cup (Q \ seen[w]), Woken(p))
    BY <2>0, WakeCovers
  <2>2. Fits((A \cup (Q \ seen[w])) \cup {e}, Woken(p) \cup {x})
    BY <1>1, <2>1, FitsAdd
  <2>3. /\ A \cup (Q \ seen[w]) \in SUBSET ((A \cup (Q \ seen[w])) \cup {e})
        /\ A \cup ((Q \cup {e}) \ seen[w]) \in SUBSET ((A \cup (Q \ seen[w])) \cup {e})
    OBVIOUS
  <2>. QED  BY <2>2, <2>3, FitsMonotone
<1>3. \A w \in Sleeping(r) : (Q \cup {e}) \cap seen[w] = Q \cap seen[w]
  OBVIOUS
<1>4. \A w \in Sleeping(r) : /\ Covered(Q, Woken(r), q, seen[w])
                             /\ Covered(Q \cup {e}, Woken(r), q, seen[w])
  BY <1>2, <1>3 DEF Covered
<1>5. Refused(Q, r, q, seen) /\ Refused(Q \cup {e}, r, q, seen)
  BY <1>3 DEF Credit, Refused
<1>6. Nested(Q, r, seen) /\ Nested(Q \cup {e}, r, seen)
  BY <1>3 DEF Credit, Nested
<1>. QED  BY <1>4, <1>5, <1>6 DEF Credit

(* A released thread takes an element: one signal less for one element     *)
(* less, and an element it took from what w had refused was counted.       *)
LEMMA CreditTake ==
  ASSUME NEW Q, NEW p, NEW q, NEW seen, Credit(Q, p, q, seen),
         NEW g \in Woken(p), NEW m \in Q, m \in q[g].accepts,
         NEW r, NEW u,
         Sleeping(r) = Sleeping(p), Woken(r) = Woken(p) \ {g},
         \A t \in Sleeping(r) \cup Woken(r) : u[t] = q[t]
  PROVE  Credit(Q \ {m}, r, u, seen)
<1>1. Refused(Q \ {m}, r, u, seen) /\ Nested(Q \ {m}, r, seen)
  BY DEF Credit, Refused, Nested
<1>2. ASSUME NEW w \in Sleeping(r), NEW A \in SUBSET ((Q \ {m}) \cap seen[w]),
             Matches(A, Woken(r), u)
      PROVE  Fits(A \cup ((Q \ {m}) \ seen[w]), Woken(r))
  <2>1. Matches(A, Woken(r), q)
    BY <1>2, MatchesRestrict
  <2> DEFINE B == IF m \in seen[w] THEN A \cup {m} ELSE A
  <2>2. Matches(B, Woken(p), q)
    <3>1. CASE m \in seen[w]
      <4>1. Matches(A \cup {m}, Woken(r) \cup {g}, q)
        BY <2>1, MatchesAdd
      <4>2. Woken(r) \cup {g} = Woken(p)
        OBVIOUS
      <4>. QED  BY <3>1, <4>1, <4>2
    <3>2. CASE m \notin seen[w]
      BY <2>1, <3>2, MatchesRestrict
    <3>. QED  BY <3>1, <3>2
  <2>3. B \in SUBSET (Q \cap seen[w])
    OBVIOUS
  <2>4. Fits(B \cup (Q \ seen[w]), Woken(p))
    BY <2>2, <2>3 DEF Credit, Covered
  <2>5. m \in B \cup (Q \ seen[w])
    OBVIOUS
  <2>6. Fits((B \cup (Q \ seen[w])) \ {m}, Woken(r))
    BY <2>4, <2>5, FitsRemove
  <2>7. A \cup ((Q \ {m}) \ seen[w]) \in SUBSET ((B \cup (Q \ seen[w])) \ {m})
    OBVIOUS
  <2>. QED  BY <2>6, <2>7, FitsMonotone
<1>. QED  BY <1>1, <1>2 DEF Credit, Covered

(* A released thread that can take nothing hands its signal to a sleeper.  *)
LEMMA CreditPassOn ==
  ASSUME NEW Q, NEW p, NEW q, NEW seen, Credit(Q, p, q, seen),
         NEW g \in Woken(p), NEW x \in Sleeping(p), NEW r,
         Sleeping(r) = Sleeping(p) \ {x}, Woken(r) = (Woken(p) \ {g}) \cup {x}
  PROVE  Credit(Q, r, q, seen)
<1>1. x \notin Woken(p)
  BY DEF Sleeping, Woken
<1>2. ASSUME NEW w \in Sleeping(r), NEW A \in SUBSET (Q \cap seen[w]),
             Matches(A, Woken(r), q)
      PROVE  Fits(A \cup (Q \ seen[w]), Woken(r))
  <2>1. Matches(A, Woken(p) \cup {x}, q)
    BY <1>2, MatchesRestrict
  <2>2. Fits(A \cup (Q \ seen[w]), Woken(p))
    BY <2>1, WakeCovers
  <2>. QED  BY <1>1, <2>2, FitsSwap
<1>3. Refused(Q, r, q, seen) /\ Nested(Q, r, seen)
  BY DEF Credit, Refused, Nested
<1>. QED  BY <1>2, <1>3 DEF Credit, Covered

(* A thread that refused the whole list goes to sleep.                     *)
LEMMA CreditSleep ==
  ASSUME NEW Q, NEW p, NEW q, NEW seen, Credit(Q, p, q, seen),
         NEW g, \A e \in Q : e \notin q[g].accepts,
         NEW r, NEW now,
         Sleeping(r) = Sleeping(p) \cup {g}, Woken(r) = Woken(p),
         now[g] = Q, \A t \in Sleeping(p) \ {g} : now[t] = seen[t]
  PROVE  Credit(Q, r, q, now)
<1>1. Refused(Q, r, q, now)
  BY DEF Credit, Refused
<1>2. Nested(Q, r, now)
  BY DEF Credit, Nested
<1>3. Covered(Q, Woken(r), q, now[g])
  <2> SUFFICES ASSUME NEW A \in SUBSET Q, Matches(A, Woken(r), q)
               PROVE  Fits(A \cup (Q \ now[g]), Woken(r))
    BY DEF Covered
  <2>1. A \cup (Q \ now[g]) = A
    OBVIOUS
  <2>. QED  BY <2>1, MatchesFits
<1>4. \A w \in Sleeping(r) \ {g} : Covered(Q, Woken(r), q, now[w])
  BY DEF Credit
<1>. QED  BY <1>1, <1>2, <1>3, <1>4 DEF Credit
-----------------------------------------------------------------------------
(* The invariant holds at the start and every step of the queue keeps it.  *)
Inv == TypeOK /\ ElementsConserved /\ SignalsCover

LEMMA CoverInitially == Init => SignalsCover
<1> SUFFICES ASSUME Init
             PROVE  SignalsCover
  OBVIOUS
<1>1. Sleeping(pc) = {}
  BY DEF Init, Sleeping
<1>2. Credit(Queued, pc, req, [t \in Threads |-> {}])
  BY <1>1, CreditTrivial
<1>3. [t \in Threads |-> {}] \in [Threads -> SUBSET sent]
  OBVIOUS
<1>. QED  BY <1>2, <1>3 DEF SignalsCover

(* put(): a signal for the new element, if anybody sleeps.                 *)
LEMMA CoverPut ==
  ASSUME Inv, NEW e \in Elements, Put(e)
  PROVE  SignalsCover'
<1>1. PICK seen \in [Threads -> SUBSET sent] : Credit(Queued, pc, req, seen)
  BY DEF Inv, SignalsCover
<1>2. Queued' = Queued \cup {e} /\ seen \in [Threads -> SUBSET sent'] /\ req' = req
  BY AppendToSet DEF Put, Queued, Inv, TypeOK
<1>3. CASE Sleeping(pc) = {} /\ pc' = pc
  BY <1>2, <1>3, CreditTrivial DEF SignalsCover
<1>4. ASSUME NEW x \in Threads, pc[x] = "waiting", pc' = [pc EXCEPT ![x] = "woken"]
      PROVE  SignalsCover'
  <2>1. x \in Sleeping(pc)
    BY <1>4 DEF Sleeping
  <2>2. Sleeping(pc') = Sleeping(pc) \ {x} /\ Woken(pc') = Woken(pc) \cup {x}
    BY <1>4 DEF Sleeping, Woken, Inv, TypeOK
  <2>3. \A t \in Sleeping(pc) : e \notin seen[t]
    BY DEF Sleeping, Put
  <2>4. Credit(Queued \cup {e}, pc', req, seen)
    BY <1>1, <2>1, <2>2, <2>3, CreditRelease
  <2>. QED  BY <1>2, <2>4 DEF SignalsCover
<1>. QED  BY <1>3, <1>4, SignalReleasesASleeper DEF Put

(* A step that neither queues nor releases nor puts to sleep.              *)
LEMMA CoverQuietStep ==
  ASSUME Inv, Queued' \subseteq Queued, sent' = sent,
         Sleeping(pc') \subseteq Sleeping(pc), Woken(pc') = Woken(pc),
         \A t \in Sleeping(pc') \cup Woken(pc') : req'[t] = req[t]
  PROVE  SignalsCover'
<1>1. PICK seen \in [Threads -> SUBSET sent] : Credit(Queued, pc, req, seen)
  BY DEF Inv, SignalsCover
<1>2. Credit(Queued', pc', req', seen)
  BY <1>1, CreditShrinks
<1>. QED  BY <1>1, <1>2 DEF SignalsCover

(* Take, by a thread that was released and by one that just called get().  *)
LEMMA CoverTake ==
  ASSUME Inv, NEW t \in Threads, pc[t] \in {"entering", "woken", "timedOut"}, Take(t)
  PROVE  SignalsCover'
<1>1. PICK i \in DOMAIN mList :
        /\ mList[i] \in req[t].accepts
        /\ mList' = RemoveAt(mList, i)
        /\ pc' = [pc EXCEPT ![t] = "idle"]
        /\ Return(t, mList[i])
        /\ UNCHANGED sent
  BY DEF Take, FirstMatch
<1>2. Queued' = Queued \ {mList[i]} /\ mList[i] \in Queued
  <2>1. mList \in Seq(Elements) /\ Distinct(mList)
    BY DEF Inv, TypeOK, ElementsConserved, Distinct
  <2>. QED  BY <1>1, <2>1, RemoveAtToSet DEF Queued, ToSet
<1>3. /\ Sleeping(pc') = Sleeping(pc)
      /\ Woken(pc') = Woken(pc) \ {t}
      /\ \A s \in Sleeping(pc') \cup Woken(pc') : req'[s] = req[s]
  BY <1>1 DEF Sleeping, Woken, Return, Inv, TypeOK
<1>4. CASE pc[t] = "woken"
  <2>1. t \in Woken(pc)
    BY <1>4 DEF Woken
  <2>2. PICK seen \in [Threads -> SUBSET sent] : Credit(Queued, pc, req, seen)
    BY DEF Inv, SignalsCover
  <2>3. Credit(Queued \ {mList[i]}, pc', req', seen)
    BY <1>1, <1>2, <1>3, <2>1, <2>2, CreditTake
  <2>. QED  BY <1>1, <1>2, <2>2, <2>3 DEF SignalsCover
<1>5. CASE pc[t] # "woken"
  <2>1. Woken(pc') = Woken(pc)
    BY <1>3, <1>5 DEF Woken
  <2>. QED  BY <1>1, <1>2, <1>3, <2>1, CoverQuietStep
<1>. QED  BY <1>4, <1>5
(* A scan that found nothing: first the signal of a guarded get(), then t  *)
(* is outside the condition variable with program counters p.              *)
LEMMA CoverReject ==
  ASSUME Inv, NEW t \in Threads, pc[t] \in {"entering", "woken"},
         NothingFor(t), NEW p \in AfterReject(t),
         NEW seen, Credit(Queued, pc, req, seen),
         seen \in [Threads -> SUBSET sent]
  PROVE  Credit(Queued, p, req, seen) /\ p \in [Threads -> PCs] /\ p[t] = "entering"
<1> DEFINE q == [pc EXCEPT ![t] = "entering"]
<1>1. TypeOK /\ pc[t] # "waiting"
  BY DEF Inv
<1>2. p \in [Threads -> PCs]
  BY <1>1, AfterRejectEffect
<1>3. /\ q \in [Threads -> PCs] /\ q[t] = "entering"
      /\ Sleeping(q) = Sleeping(pc) /\ Woken(q) = Woken(pc) \ {t}
  BY <1>1 DEF TypeOK, PCs, Sleeping, Woken
<1>4. CASE ~req[t].guarded
  <2>1. p = q
    BY <1>4 DEF AfterReject
  <2>2. req[t].accepts = Elements
    BY <1>1, <1>4, RequestsAssumption DEF TypeOK
  <2>3. Queued = {}
    BY <1>1, <2>2 DEF NothingFor, TypeOK, Queued, ToSet
  <2>. QED  BY <1>2, <1>3, <2>1, <2>3, CreditTrivial
<1>5. CASE req[t].guarded
  <2>0. p \in Signal(q)
    BY <1>5 DEF AfterReject
  <2>1. CASE p = q /\ Sleeping(q) = {}
    BY <1>2, <1>3, <2>1, CreditTrivial
  <2>2. ASSUME NEW x \in Threads, q[x] = "waiting", p = [q EXCEPT ![x] = "woken"]
        PROVE  Credit(Queued, p, req, seen) /\ p[t] = "entering"
    <3>1. x \in Sleeping(pc) /\ x # t
      BY <1>1, <1>3, <2>2 DEF Sleeping
    <3>2. /\ p[t] = "entering"
          /\ Sleeping(p) = Sleeping(q) \ {x}
          /\ Woken(p) = Woken(q) \cup {x}
      BY <1>3, <2>2, <3>1 DEF Sleeping, Woken
    <3>3. CASE t \in Woken(pc)
      BY <1>3, <3>1, <3>2, <3>3, CreditPassOn
    <3>4. CASE t \notin Woken(pc)
      <4>1. Sleeping(p) = Sleeping(pc) \ {x} /\ Woken(p) = Woken(pc) \cup {x}
        BY <1>3, <3>2, <3>4
      <4>2. PICK e : e \notin sent
        BY NoSetContainsEverything
      <4>3. \A s \in Sleeping(pc) : e \notin seen[s]
        BY <4>2 DEF Sleeping
      <4>. QED  BY <3>1, <3>2, <4>1, <4>3, CreditRelease
    <3>. QED  BY <3>2, <3>3, <3>4
  <2>. QED  BY <1>2, <1>3, <2>0, <2>1, <2>2, SignalReleasesASleeper
<1>. QED  BY <1>4, <1>5
(* A whole scan, by a thread that did not come out of a timed-out wait.    *)
LEMMA CoverScan ==
  ASSUME Inv, NEW t \in Threads, pc[t] \in {"entering", "woken"}, Scan(t)
  PROVE  SignalsCover'
<1>1. CASE Take(t)
  BY <1>1, CoverTake
<1>2. CASE GiveUp(t) \/ Sleep(t)
  <2>1. NothingFor(t) /\ sent' = sent /\ mList' = mList
    BY <1>2 DEF GiveUp, Sleep
  <2>2. PICK seen \in [Threads -> SUBSET sent] : Credit(Queued, pc, req, seen)
    BY DEF Inv, SignalsCover
  <2>3. Queued' = Queued
    BY <2>1 DEF Queued
  <2>4. CASE GiveUp(t)
    <3>1. PICK p \in AfterReject(t) : pc' = [p EXCEPT ![t] = "idle"]
      BY <2>4 DEF GiveUp
    <3>2. /\ Credit(Queued, p, req, seen)
          /\ p \in [Threads -> PCs] /\ p[t] = "entering"
      BY <2>1, <2>2, CoverReject
    <3>3. /\ Sleeping(pc') = Sleeping(p) /\ Woken(pc') = Woken(p)
          /\ \A s \in Sleeping(pc') \cup Woken(pc') : req'[s] = req[s]
      BY <2>4, <3>1, <3>2 DEF Sleeping, Woken, GiveUp, Return, Inv, TypeOK
    <3>4. Credit(Queued, pc', req', seen)
      BY <3>2, <3>3, CreditShrinks
    <3>. QED  BY <2>1, <2>2, <2>3, <3>4 DEF SignalsCover
  <2>5. CASE Sleep(t)
    <3>1. PICK p \in AfterReject(t) : pc' = [p EXCEPT ![t] = "waiting"]
      BY <2>5 DEF Sleep
    <3>2. /\ Credit(Queued, p, req, seen)
          /\ p \in [Threads -> PCs] /\ p[t] = "entering"
      BY <2>1, <2>2, CoverReject
    <3> DEFINE now == [seen EXCEPT ![t] = Queued]
    <3>3. Sleeping(pc') = Sleeping(p) \cup {t} /\ Woken(pc') = Woken(p)
      BY <3>1, <3>2 DEF Sleeping, Woken
    <3>4. \A e \in Queued : e \notin req[t].accepts
      BY <2>1 DEF NothingFor, Queued, ToSet
    <3>5. now[t] = Queued /\ \A s \in Threads \ {t} : now[s] = seen[s]
      OBVIOUS
    <3>6. now \in [Threads -> SUBSET sent]
      BY DEF Inv, ElementsConserved, Queued
    <3>7. \A s \in Sleeping(p) \ {t} : now[s] = seen[s]
      BY <3>5 DEF Sleeping
    <3> HIDE DEF now
    <3>8. Credit(Queued, pc', req, now)
      BY <3>2, <3>3, <3>4, <3>5, <3>7, CreditSleep
    <3>9. req' = req
      BY <2>5 DEF Sleep
    <3>. QED  BY <2>1, <2>3, <3>6, <3>8, <3>9 DEF SignalsCover
  <2>. QED  BY <1>2, <2>4, <2>5
<1>. QED  BY <1>1, <1>2 DEF Scan

(* A spurious wakeup releases a sleeper without a new element.             *)
LEMMA CoverSpuriousWake ==
  ASSUME Inv, NEW t \in Threads, SpuriousWake(t)
  PROVE  SignalsCover'
<1>1. PICK seen \in [Threads -> SUBSET sent] : Credit(Queued, pc, req, seen)
  BY DEF Inv, SignalsCover
<1>2. /\ t \in Sleeping(pc)
      /\ Sleeping(pc') = Sleeping(pc) \ {t} /\ Woken(pc') = Woken(pc) \cup {t}
  BY DEF SpuriousWake, Sleeping, Woken, Inv, TypeOK
<1>3. PICK e : e \notin sent
  BY NoSetContainsEverything
<1>4. \A s \in Sleeping(pc) : e \notin seen[s]
  BY <1>3 DEF Sleeping
<1>5. Credit(Queued, pc', req, seen)
  BY <1>1, <1>2, <1>4, CreditRelease
<1>6. Queued' = Queued /\ req' = req /\ sent' = sent
  BY DEF SpuriousWake, Queued
<1>. QED  BY <1>1, <1>5, <1>6 DEF SignalsCover

(* A signal that a reported timeout used up stays lost while the list has  *)
(* an element.                                                             *)
LEMMA SwallowedStays ==
  ASSUME swallowed, mList' # <<>>, [Next]_vars
  PROVE  swallowed'
<1>1. ASSUME NEW t \in Threads, Enter(t) \/ Resume(t)
      PROVE  swallowed'
  BY <1>1 DEF Enter, Resume, Scan, Take, GiveUp, Sleep, ReturnNull, ForgetWhenEmpty
<1>2. ASSUME NEW t \in Threads, Expire(t) \/ TimeOut(t) \/ SpuriousWake(t)
      PROVE  swallowed'
  BY <1>2 DEF Expire, TimeOut, SpuriousWake
<1>. QED  BY <1>1, <1>2 DEF Next, vars, Put, Call, Flush, ForgetWhenEmpty

(* With an empty list there is nothing to cover.                           *)
LEMMA CoverEmpty ==
  ASSUME mList' = <<>>
  PROVE  SignalsCover'
<1>1. Queued' = {}
  BY DEF Queued, ToSet
<1>2. Credit(Queued', pc', req', [t \in Threads |-> {}])
  BY <1>1, CreditTrivial
<1>. QED  BY <1>2 DEF SignalsCover

LEMMA CoverStep ==
  ASSUME NoBoostTimeouts, TypeOK, ElementsConserved, swallowed \/ SignalsCover, [Next]_vars
  PROVE  (swallowed \/ SignalsCover)'
<1> SUFFICES ASSUME ~swallowed', mList' # <<>>
             PROVE  SignalsCover'
  BY CoverEmpty
<1>0. Inv
  BY SwallowedStays DEF Inv
<1> USE <1>0
<1>1. ASSUME NEW t \in Threads, Enter(t)
      PROVE  SignalsCover'
  BY <1>1, CoverScan DEF Enter
<1>2. ASSUME NEW t \in Threads, Resume(t)
      PROVE  SignalsCover'
  <2>1. CASE pc[t] = "woken"
    <3>1. req[t] \in Requests
      BY <2>1 DEF Inv, TypeOK
    <3>2. ~WaitFailed(t)
      BY <2>1, <3>1, ModeAssumption DEF WaitFailed, NoBoostTimeouts
    <3>. QED  BY <1>2, <2>1, <3>2, CoverScan DEF Resume
  <2>2. CASE pc[t] = "timedOut"
    <3>1. req[t] \in Requests /\ req[t].timed
      BY <2>2 DEF Inv, TypeOK
    <3>2. WaitFailed(t)
      BY <2>2, <3>1, ModeAssumption DEF WaitFailed, NoBoostTimeouts
    <3>3. ReturnNull(t)
      BY <1>2, <3>2 DEF Resume
    <3>. QED
      BY <2>2, <3>3, CoverQuietStep
         DEF ReturnNull, Return, Queued, Sleeping, Woken, Inv, TypeOK
  <2>. QED  BY <1>2, <2>1, <2>2 DEF Resume
<1>3. ASSUME NEW t \in Threads, NEW r \in Requests, Call(t, r)
      PROVE  SignalsCover'
  BY <1>3, CoverQuietStep DEF Call, Queued, Sleeping, Woken, Inv, TypeOK
<1>4. ASSUME NEW t \in Threads, Expire(t)
      PROVE  SignalsCover'
  BY <1>4, CoverQuietStep DEF Expire, Queued, Sleeping, Woken
<1>5. ASSUME NEW t \in Threads, TimeOut(t)
      PROVE  SignalsCover'
  <2>1. pc[t] = "waiting"
    BY <1>5 DEF TimeOut
  <2>. QED
    BY <1>5, <2>1, CoverQuietStep DEF TimeOut, Queued, Sleeping, Woken, Inv, TypeOK
<1>6. ~Flush
  BY DEF Flush
<1>7. CASE UNCHANGED vars
  BY <1>7, CoverQuietStep DEF vars, Queued, Sleeping, Woken
<1>. QED
  BY <1>1, <1>2, <1>3, <1>4, <1>5, <1>6, <1>7, CoverPut, CoverSpuriousWake DEF Next

(* What the invariant is for: a sleeper with an element to take has not    *)
(* refused it, so there is room for it, so somebody is released.           *)
LEMMA CoverMeansNoLostWakeup == Inv => NoLostWakeup
<1> SUFFICES ASSUME Inv, NEW t \in Threads, pc[t] = "waiting", ~NothingFor(t)
             PROVE  \E s \in Threads : pc[s] = "woken"
  BY DEF NoLostWakeup
<1>1. PICK seen \in [Threads -> SUBSET sent] : Credit(Queued, pc, req, seen)
  BY DEF Inv, SignalsCover
<1>2. t \in Sleeping(pc)
  BY DEF Sleeping
<1>3. PICK e \in Queued : e \in req[t].accepts
  BY DEF NothingFor, Queued, ToSet
<1>4. e \in Queued \ seen[t]
  BY <1>1, <1>2, <1>3 DEF Credit, Refused
<1>5. Matches({}, Woken(pc), req)
  <2>1. [y \in {} |-> y] \in [{} -> Woken(pc)] /\ OneToOne([y \in {} |-> y], {})
    BY DEF OneToOne
  <2>. QED  BY <2>1 DEF Matches
<1>6. Fits({} \cup (Queued \ seen[t]), Woken(pc))
  BY <1>1, <1>2, <1>5 DEF Credit, Covered
<1>7. Woken(pc) # {}
  BY <1>4, <1>6 DEF Fits
<1>. QED  BY <1>7 DEF Woken

(* No wakeup is lost unless a timed wait that reports its timeout uses up  *)
(* the signal: in the OpenThreads build whatever the receivers ask for, in *)
(* the Boost build as long as none of them uses a timeout.                 *)
THEOREM NoWakeupIsLost ==
  ASSUME NoBoostTimeouts
  PROVE  Spec => []NoLostWakeup
<1> DEFINE Cover == swallowed \/ SignalsCover
<1>1. Init => Cover
  BY CoverInitially
<1>2. TypeOK /\ ElementsConserved /\ Cover /\ [Next]_vars => Cover'
  BY CoverStep
<1>3. TypeOK /\ ElementsConserved /\ Cover => NoLostWakeup
  BY CoverMeansNoLostWakeup DEF Inv, NoLostWakeup
<1> HIDE DEF Cover
<1>. QED  BY <1>1, <1>2, <1>3, TypeCorrect, Conservation, PTL DEF Spec
=============================================================================
