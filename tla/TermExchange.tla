---------------------------- MODULE TermExchange ----------------------------
(***************************************************************************)
(* Terms on their way from one user to another: a term is parsed or built  *)
(* element by element, written to an output buffer, sent to a mailbox of   *)
(* the same node, to one of a remote node, or through a connection without *)
(* a node, and there read, or matched by guards (src/src/EpiMailBox.cpp,   *)
(* EpiAutoNode.cpp, EpiMessage.hpp and the guards).                        *)
(*                                                                         *)
(* Which thread does a step, and the queue of the mailbox, are left to     *)
(* AutoNode and GenericQueue; here a step is a whole call, and one message *)
(* at a time is written, sent and received.                                *)
(***************************************************************************)
EXTENDS TermFormat, Buffers

CONSTANTS Texts,      \* what the user parses: [text, args] records
          Elements,   \* the terms the user builds others from
          Bindings,   \* the bindings the user writes a term with
          PeerTerms,  \* encodings a foreign node sends: sequences of tags
          ExitReasons, \* those it gives for the exit of a process
          Guards,     \* the guards of the receiver: [kind, patterns] records
          Received,   \* the bindings the receiver has when a message comes
          MaxElements, MaxTerms \* bounds: of a term, and of a message

VARIABLES program,  \* "running", or "terminated" by a fault or an exception
          work,     \* the term the user is building
          way,      \* the way the user's buffer, or the message, goes
          buffer,   \* the contents of the output buffer
          failed,   \* history: a write that failed left part of a term in it
          asked,    \* history: what the user wrote to it
          careful,  \* history: nothing improper was written or sent
          inbox,    \* the message at the other end
          binding   \* the binding the receiver keeps

vars == <<program, work, way, buffer, failed, asked, careful, inbox, binding>>

(* To a mailbox of the same node, to a mailbox of a remote node, or to one *)
(* through a connection without a node: PlainBuffers the first two write.  *)
Ways == {"local", "remote", "direct"}
Plain(w) == w \in {"local", "remote"}

NoMessage == [buffer |-> <<>>, index |-> 0, payload |-> NullTerm,
              content |-> <<>>, full |-> FALSE, error |-> FALSE]
ErrorMessage == [NoMessage EXCEPT !.full = TRUE, !.error = TRUE]

-----------------------------------------------------------------------------
(* What the user means by a term and a binding: every variable replaced.   *)
RECURSIVE Instance(_, _)
Instance(t, b) ==
  IF InstanceOf(t, "ERL_VARIABLE") THEN IF t.name \in DOMAIN b THEN b[t.name] ELSE t
  ELSE IF Compound(t) THEN
    [t EXCEPT !.elems = [i \in DOMAIN @ |-> Instance(@[i], b)]]
  ELSE t

RECURSIVE Variables(_)
Variables(t) ==
  IF InstanceOf(t, "ERL_VARIABLE") THEN {t.name}
  ELSE IF Compound(t) THEN UNION {Variables(e) : e \in Range(t.elems)}
  ELSE {}

(* A term that is complete and holds no list the code cannot handle: one   *)
(* of a tail alone, as format("[ ]") makes it; one all of whose elements   *)
(* and tail change, which subst() returns as it is; or one whose tail is a *)
(* list, as a variable may be bound to it.                                 *)
RECURSIVE Proper(_)
Proper(t) ==
  /\ IsValid(t)
  /\ InstanceOf(t, "ERL_CONS_LIST") =>
       /\ Arity(t) > 0 /\ ~InstanceOf(Last(t.elems), "ERL_CONS_LIST")
       /\ \E e \in Range(t.elems) : ~Compound(e) /\ ~InstanceOf(e, "ERL_VARIABLE")
  /\ Compound(t) => \A e \in Range(t.elems) : Proper(e)

-----------------------------------------------------------------------------
Init ==
  /\ program = "running" /\ work = NullTerm
  /\ way \in Ways /\ buffer = <<>> /\ failed = FALSE /\ asked = <<>>
  /\ careful = TRUE /\ inbox = NoMessage /\ binding = <<>>

(* An outcome the caller does not survive.                                 *)
RunOn(ret) ==
  program' = IF ret \in {"terminate", "undefined"} THEN "terminated" ELSE "running"

(* Bound: an exchange begins when the one before it is over.               *)
Between == ~inbox.full /\ binding = <<>>
Building == Between /\ ~failed /\ Len(asked) < MaxTerms

exchange == <<way, buffer, failed, asked, inbox, binding>>
receiver == <<inbox, binding>>

(* ErlTerm::format(): a term, or EpiParseError.                            *)
Parse(f) ==
  LET parsed == Format(f.text, f.args)
  IN /\ Building /\ work = NullTerm
     /\ work' = parsed.term /\ RunOn(parsed.ret)
     /\ careful' = (careful /\ parsed.ret # "undefined" /\ NullTerm \notin Range(f.args))
     /\ UNCHANGED exchange

(* A tuple of a known arity, or a list, without its elements.              *)
New == /\ Building /\ work = NullTerm
       /\ \/ \E n \in 1..MaxElements : work' = ErlTuple(n, <<>>)
          \/ work' = ErlConsList(<<>>, FALSE)
       /\ UNCHANGED <<program, careful, exchange>>

(* initElement(), addElement() and close(); an exception is reported and   *)
(* leaves the term as it is, but for the elements close() added.           *)
Extend(e) ==
  /\ Building /\ Compound(work) /\ Len(work.elems) < MaxElements
  /\ \E r \in IF InstanceOf(work, "ERL_TUPLE") THEN {InitElement(work, e)}
              ELSE {AddElement(work, e), Close(work, e)} :
       work' = IF r.term = NullTerm THEN work ELSE r.term
  /\ UNCHANGED <<program, careful, exchange>>

(* writeTerm(): into the PlainBuffer newOutputBuffer() of a node gives, or *)
(* into the EIOutputBuffer of a connection.                                *)
WriteTo(w, data, t, b) ==
  IF Plain(w) THEN PlainWriteTerm(data, t, b) ELSE EncodeTerm(data, t, b)

Write(b) ==
  LET written == WriteTo(way, buffer, work, b)
  IN /\ Building /\ work # NullTerm
     /\ buffer' = written.data /\ RunOn(written.ret)
     /\ failed' = (written.ret # "ok" /\ written.data # buffer)
     /\ asked' = IF written.ret = "ok" THEN Append(asked, Instance(work, b)) ELSE asked
     /\ careful' = (careful /\ Proper(work) /\ Proper(Instance(work, b)))
     /\ work' = NullTerm
     /\ UNCHANGED <<way, receiver>>

(* reset(), or another buffer: what a user does before the next message,   *)
(* and when a write that threw left part of a term.                        *)
Reset(w) ==
  /\ Between /\ way' = w /\ failed' = FALSE /\ asked' = <<>>
  /\ buffer' = <<>>
  /\ UNCHANGED <<program, work, careful, receiver>>

-----------------------------------------------------------------------------
(* An ErlangMessage of the buffer.  Its constructor reads the first term;  *)
(* what that throws is dropped.  Then the index goes back to the start: of *)
(* a plain buffer the index of readTerm(), but of an EI buffer the one of  *)
(* writing, so that readTerm() goes on after the first term.               *)
Message(data, content, first, index) ==
  [buffer |-> data, index |-> index, payload |-> first.term,
   content |-> content, full |-> TRUE, error |-> FALSE]

PlainMessage(terms, content) ==
  {Message(terms, content, PlainReadTerm(terms, 0), 0)}

(* Mutant of EIMessage: the index is advanced once more.                   *)
EIMessagePastTerm(data, content) ==
  {Message(data, content, first, first.index + 1) : first \in EIReadTerm(data, 0)}

EIMessage(data, content) ==
  {Message(data, content, first, first.index) : first \in EIReadTerm(data, 0)}

(* AutoNode::sendBuf() to another host: the terms of the buffer one by one *)
(* into the buffer of the connection, without a binding.                   *)
Encoded(terms) ==
  FoldLeft(LAMBDA w, t : IF w.ret = "ok" THEN EncodeTerm(w.data, t, <<>>) ELSE w,
           Written("ok", <<>>), terms)

(* sendBuf(): the same node gets a copy of the buffer, a peer an encoding. *)
(* What the writeTerm() inside it throws, it may not throw.                *)
Transmit(data, content) ==
  LET sent == IF way = "remote" THEN Encoded(data) ELSE Written("ok", data)
  IN IF sent.ret # "ok" THEN program' = "terminated" /\ UNCHANGED receiver
     ELSE /\ program' = "running" /\ binding' \in Received
          /\ inbox' \in IF way = "local" THEN PlainMessage(data, content)
                       ELSE EIMessage(sent.data, content)

SendBuf ==
  /\ Between /\ ~failed
  /\ Transmit(buffer, asked)
  /\ buffer' = <<>> /\ asked' = <<>>
  /\ careful' = (careful /\ asked # <<>>)
  /\ UNCHANGED <<work, way, failed>>

(* MailBox::send(): the term alone in a new buffer.  It may not throw      *)
(* EpiVariableUnbound.                                                     *)
Send ==
  LET written == WriteTo(way, <<>>, work, <<>>)
  IN /\ Building /\ asked = <<>> /\ work # NullTerm
     /\ IF written.ret = "ok" THEN Transmit(written.data, <<work>>)
        ELSE /\ program' = IF written.ret = "EpiInvalidTerm" THEN "running" ELSE "terminated"
             /\ UNCHANGED receiver
     /\ careful' = (careful /\ Proper(work) /\ Variables(work) = {})
     /\ work' = NullTerm
     /\ UNCHANGED <<way, buffer, failed, asked>>

(* A message of a node that does not use this library, whose content       *)
(* nobody here wrote.                                                      *)
PeerSends(data) ==
  /\ Between /\ way # "local" /\ asked = <<>>
  /\ inbox' \in EIMessage(data, <<>>) /\ binding' \in Received
  /\ UNCHANGED <<program, work, way, buffer, failed, asked, careful>>

(* ToMessage() of an exit signal, whose reason must be an atom.            *)
ToMessage(reason) ==
  IF reason = Read("ok", NullTerm, 0) THEN "undefined"
  ELSE IF reason.ret = "ok" /\ InstanceOf(reason.term, "ERL_ATOM") THEN "control"
  ELSE "EpiUnknownMessageException"

(* A process of the peer exits.  Nobody keeps control messages.  What was  *)
(* not understood becomes an ErrorMessage, which a node keeps to itself.   *)
PeerExits(data) ==
  /\ Between /\ way # "local" /\ asked = <<>>
  /\ \E reason \in EIReadTerm(data, 0) :
       LET message == ToMessage(reason)
       IN /\ RunOn(message)
          /\ inbox' = IF message = "EpiUnknownMessageException" /\ way = "direct"
                       THEN ErrorMessage ELSE inbox
  /\ careful' = (careful /\ data # <<>>)
  /\ UNCHANGED <<work, way, buffer, failed, asked, binding>>

-----------------------------------------------------------------------------
(* readTerm() of the buffer of the message.                                *)
ReadTerm(m) ==
  IF way = "local" THEN {PlainReadTerm(m.buffer, m.index)} ELSE EIReadTerm(m.buffer, m.index)

(* getMsg(): the term of the message; if it has none yet, its buffer is    *)
(* read again, and the index reset as above.                               *)
GetMsg(m) ==
  IF m.payload # NullTerm THEN {[ret |-> "ok", message |-> m]}
  ELSE {[ret |-> r.ret,
         message |-> [m EXCEPT !.payload = r.term,
                               !.index = IF way = "local" THEN 0 ELSE r.index]]
          : r \in ReadTerm(m)}

(* PatternMatchingGuard::match(), MatchingCommandGuard::match(), which has *)
(* a binding of its own for its command, and ComposedGuard::match(): the   *)
(* first of its guards that matches.                                       *)
PatternGuard(pattern, t) == Match(pattern, t, binding)

CommandGuard(pattern, t) == [Match(pattern, t, <<>>) EXCEPT !.binding = binding]

ComposedGuard(patterns, t) ==
  FoldLeft(LAMBDA r, pattern : IF r.ret = "false" THEN PatternGuard(pattern, t) ELSE r,
           MatchResult("false", binding), patterns)

GuardMatch(guard, t) ==
  CASE guard.kind = "pattern" -> PatternGuard(guard.patterns[1], t)
    [] guard.kind = "command" -> CommandGuard(guard.patterns[1], t)
    [] guard.kind = "composed" -> ComposedGuard(guard.patterns, t)

(* MailBoxGuard::check(): an error passes every guard, and an EpiException *)
(* is no match.  A message that matches leaves the mailbox, another stays. *)
Check(guard) ==
  /\ inbox.full
  /\ \E got \in GetMsg(inbox) :
       LET r == IF inbox.error THEN MatchResult("true", binding)
                ELSE IF got.ret = "ok" THEN GuardMatch(guard, got.message.payload)
                ELSE MatchResult("false", binding)
       IN /\ RunOn(r.ret)
          /\ binding' = r.binding
          /\ inbox' = IF r.ret = "true" THEN NoMessage ELSE got.message
  /\ UNCHANGED <<work, way, buffer, failed, asked, careful>>

(* receive() without a guard.                                              *)
Receive ==
  /\ inbox.full /\ inbox' = NoMessage
  /\ UNCHANGED <<program, work, way, buffer, failed, asked, careful, binding>>

(* reset() of the receiver's binding.                                      *)
ResetBinding ==
  /\ ~inbox.full /\ binding # <<>> /\ binding' = <<>>
  /\ UNCHANGED <<program, work, way, buffer, failed, asked, careful, inbox>>

Next ==
  /\ program = "running"
  /\ \/ \E f \in Texts : Parse(f)
     \/ New
     \/ \E e \in Elements : Extend(e)
     \/ \E b \in Bindings : Write(b)
     \/ \E w \in Ways : Reset(w)
     \/ SendBuf
     \/ Send
     \/ \E data \in PeerTerms : PeerSends(data)
     \/ \E data \in ExitReasons : PeerExits(data)
     \/ \E guard \in Guards : Check(guard)
     \/ Receive
     \/ ResetBinding

Spec == Init /\ [][Next]_vars

-----------------------------------------------------------------------------
(* The variables have the kinds of values the code gives them.             *)
TypeOK ==
  /\ program \in {"running", "terminated"} /\ way \in Ways
  /\ {failed, careful, inbox.full, inbox.error} \subseteq BOOLEAN /\ Len(asked) <= MaxTerms
  /\ inbox.index \in 0..Len(inbox.buffer)
  /\ NullTerm \notin Range(binding)

(* What a receiver makes of a term: through a connection an empty string   *)
(* becomes an empty list, for which ei has the same encoding.              *)
RECURSIVE Arrived(_)
Arrived(t) ==
  IF way = "local" THEN t
  ELSE IF t = EmptyString THEN ErlEmptyList
  ELSE IF Compound(t) THEN [t EXCEPT !.elems = [i \in DOMAIN @ |-> Arrived(@[i])]]
  ELSE t

(* Whichever way it went, a message holds the terms its sender wrote, with *)
(* the sender's variables replaced: the first is the payload its guards    *)
(* see, and readTerm() of its buffer yields them one after the other, from *)
(* the first in a mailbox of the same node and from the second out of a    *)
(* connection (see BuffersStartOver), however often guards looked at it.   *)
MessagesCarryWhatWasWritten ==
  LET m == inbox
      next == IF way = "local" THEN 1 ELSE 2
      reads[k \in next..Len(m.content)] ==
        LET index == IF k = next THEN m.index ELSE reads[k - 1].index
        IN IF way = "local" THEN PlainReadTerm(m.buffer, index) ELSE Decode(m.buffer, index)
  IN m.content # <<>> /\ careful =>
       /\ m.payload = Arrived(m.content[1])
       /\ \A k \in DOMAIN reads : reads[k].term = Arrived(m.content[k])

(* A program ends only by an improper use: an incomplete term, a list the  *)
(* code cannot handle, an empty message, a null argument, or by an exit    *)
(* signal of a peer without a reason.                                      *)
ProperUseIsSafe == careful => program = "running"

(* What toString() prints of a complete term of atoms, numbers, variables, *)
(* tuples and proper lists, format() reads as the same term.               *)
RECURSIVE Printable(_)
Printable(t) ==
  /\ t.type \in {"ERL_ATOM", "ERL_LONG", "ERL_DOUBLE", "ERL_VARIABLE",
                 "ERL_TUPLE", "ERL_EMPTY_LIST", "ERL_CONS_LIST"}
  /\ Compound(t) => IsValid(t) /\ \A e \in Range(t.elems) : Printable(e)
  /\ InstanceOf(t, "ERL_CONS_LIST") => Arity(t) > 0 /\ Last(t.elems) = ErlEmptyList

FormatReadsWhatToStringPrints ==
  Printable(work) => Format(TermToString(work, <<>>), <<>>) = Returned(work)

(* The definition of matching: the values of the variables, those that are *)
(* bound already included, for which pattern and term are equal.           *)
RECURSIVE Fits(_, _, _), SubTerms(_)
Fits(pattern, t, values) ==
  IF InstanceOf(pattern, "ERL_VARIABLE")
    THEN pattern.name = "_" \/ values[pattern.name] = t
  ELSE IF Compound(pattern)
    THEN /\ pattern.type = t.type /\ Len(pattern.elems) = Len(t.elems)
         /\ \A i \in DOMAIN t.elems : Fits(pattern.elems[i], t.elems[i], values)
  ELSE pattern = t

SubTerms(t) ==
  {t} \cup (IF Compound(t) THEN UNION {SubTerms(e) : e \in Range(t.elems)} ELSE {})

Matches(pattern, t, b) ==
  {b @@ values : values \in
     {v \in [Variables(pattern) \ {"_"} -> SubTerms(t) \cup Range(b)] :
        Fits(pattern, t, b @@ v)}}

(* Guards take exactly the messages their patterns match, under what the   *)
(* receiver's variables are bound to, and bind the rest of them to the     *)
(* values that make the two equal; but for a command, whose binding is its *)
(* own.                                                                    *)
GuardsAreExact ==
  [][\A guard \in Guards :
       Check(guard) /\ careful /\ inbox.payload # NullTerm
       => LET found == [i \in DOMAIN guard.patterns |->
                          Matches(guard.patterns[i], inbox.payload,
                                  IF guard.kind = "command" THEN <<>> ELSE binding)]
          IN /\ (inbox' = NoMessage) <=> (\E i \in DOMAIN found : found[i] # {})
             /\ inbox' = NoMessage /\ guard.kind # "command" =>
                  \E i \in DOMAIN found : binding' \in found[i]]_vars

(* A guard that rejects a message binds nothing, however much of it        *)
(* matched, and no check ever gives a bound variable another value.        *)
RejectedMessagesBindNothing ==
  [][(\E guard \in Guards : Check(guard))
     => /\ inbox' # NoMessage => binding' = binding
        /\ \A x \in DOMAIN binding : x \in DOMAIN binding' /\ binding'[x] = binding[x]]_vars

(* receiveBuf() returns "the still-encoded body of the next message"       *)
(* (EpiMailBox.hpp:159), so that its first term is still to be read: the   *)
(* index of the buffer is at its start, as EpiMessage.hpp:163 says.        *)
BuffersStartOver == inbox.full /\ inbox.payload # NullTerm => inbox.index = 0
=============================================================================
