-------------------------------- MODULE Terms --------------------------------
(***************************************************************************)
(* Erlang terms as values: how they are built, matched against each other  *)
(* and freed of their variables (src/src/Erl*.cpp, VariableBinding.hpp).   *)
(*                                                                         *)
(* A simple term (atom, long, double, string, binary, pid, port, ref) is   *)
(* its type and an opaque value.  A tuple has the arity it was given and   *)
(* the elements it got so far; a cons list holds its tail as the last of   *)
(* its elements once it is closed.  A variable has a name, and a binding   *)
(* is a function from names to terms.  A method returns a record with what *)
(* it returned or threw: "terminate" is an exception that leaves a method  *)
(* through a throw specification that does not name it, which ends the     *)
(* program, and "undefined" a read outside an array or through null.       *)
(***************************************************************************)
EXTENDS Integers, SequencesExt

Simple(type, value) == [type |-> type, value |-> value]
ErlVariable(name) == [type |-> "ERL_VARIABLE", name |-> name]
ErlEmptyList == [type |-> "ERL_EMPTY_LIST", value |-> "[]"]
ErlTuple(arity, elems) == [type |-> "ERL_TUPLE", arity |-> arity, elems |-> elems]
ErlConsList(elems, closed) ==
  [type |-> "ERL_CONS_LIST", elems |-> elems, closed |-> closed]

(* The null pointer.                                                       *)
NullTerm == [type |-> "NULL", value |-> "null"]

InstanceOf(t, type) == t.type = type
Compound(t) == t.type \in {"ERL_TUPLE", "ERL_CONS_LIST"}

IsValid(t) ==
  CASE InstanceOf(t, "NULL") -> FALSE
    [] InstanceOf(t, "ERL_TUPLE") -> Len(t.elems) = t.arity
    [] InstanceOf(t, "ERL_CONS_LIST") -> t.closed
    [] OTHER -> TRUE

(* arity() of a list; an unclosed list without elements has none (-1).     *)
Arity(list) == Len(list.elems) - 1

Returned(t) == [ret |-> "ok", term |-> t]
Thrown(e) == [ret |-> e, term |-> NullTerm]

-----------------------------------------------------------------------------
(* ErlTuple::initElement() and ErlConsList::addElement(): the next element.*)
InitElement(tuple, elem) ==
  IF IsValid(tuple) THEN Thrown("EpiAlreadyInitialized")
  ELSE IF ~IsValid(elem) THEN Thrown("EpiBadArgument")
  ELSE Returned([tuple EXCEPT !.elems = Append(@, elem)])

AddElement(list, elem) ==
  IF ~IsValid(elem) THEN Thrown("EpiBadArgument")
  ELSE IF IsValid(list) THEN Thrown("EpiAlreadyInitialized")
  ELSE Returned([list EXCEPT !.elems = Append(@, elem)])

(* Mutant of TailAt: the last tail is out of range.                        *)
TailAtOffByOne(list, i) ==
  IF ~IsValid(list) THEN Thrown("EpiInvalidTerm")
  ELSE IF i < 0 \/ i >= Arity(list) - 1 THEN Thrown("EpiBadArgument")
  ELSE Returned(ErlConsList(SubSeq(list.elems, i + 2, Len(list.elems)), TRUE))

(* tail(i) of a closed list: the elements after i, or the last of them.    *)
TailAt(list, i) ==
  IF ~IsValid(list) THEN Thrown("EpiInvalidTerm")
  ELSE IF i < 0 \/ i >= Arity(list) THEN Thrown("EpiBadArgument")
  ELSE IF i < Arity(list) - 1 THEN
         Returned(ErlConsList(SubSeq(list.elems, i + 2, Len(list.elems)), TRUE))
  ELSE Returned(Last(list.elems))

(* close(elem).  A list as the tail has its elements added and then close()*)
(* asks it for a tail it does not have: it throws, and the list stays open.*)
Close(list, elem) ==
  IF ~IsValid(elem) THEN Thrown("EpiBadArgument")
  ELSE IF IsValid(list) /\ (InstanceOf(elem, "ERL_CONS_LIST") => Arity(elem) > 0) THEN
         Thrown("EpiAlreadyInitialized")
  ELSE IF InstanceOf(elem, "ERL_CONS_LIST") THEN
         [TailAt(elem, Arity(elem)) EXCEPT
            !.term = [list EXCEPT !.elems = @ \o Front(elem.elems)]]
  ELSE Returned([list EXCEPT !.elems = Append(@, elem), !.closed = TRUE])

(* elementAt(i) of a tuple.  The next element that is not initialized is   *)
(* read all the same.                                                      *)
ElementAt(tuple, i) ==
  IF i > tuple.arity THEN Thrown("EpiBadArgument")
  ELSE IF i > Len(tuple.elems) THEN Thrown("EpiInvalidTerm")
  ELSE IF i = Len(tuple.elems) THEN Thrown("undefined")
  ELSE Returned(tuple.elems[i + 1])

ListElementAt(list, i) ==
  IF ~IsValid(list) THEN Thrown("EpiInvalidTerm")
  ELSE IF i < 0 \/ i >= Arity(list) THEN Thrown("EpiBadArgument")
  ELSE Returned(list.elems[i + 1])

(* init(elems, arity): the constructors from an array of elements.         *)
NewTuple(elems) ==
  IF \A i \in DOMAIN elems : IsValid(elems[i])
    THEN Returned(ErlTuple(Len(elems), elems))
    ELSE Thrown("EpiBadArgument")

NewList(elems) ==
  IF \A i \in DOMAIN elems : IsValid(elems[i])
    THEN Returned(ErlConsList(Append(elems, ErlEmptyList), TRUE))
    ELSE Thrown("EpiBadArgument")

-----------------------------------------------------------------------------
(* equals().  A variable equals nothing, itself included.                  *)
RECURSIVE Equals(_, _)
Equals(t, u) ==
  IF InstanceOf(t, "ERL_VARIABLE") THEN FALSE
  ELSE IF Compound(t) THEN
         /\ InstanceOf(u, t.type) /\ IsValid(t) /\ IsValid(u)
         /\ Len(t.elems) = Len(u.elems)
         /\ \A i \in DOMAIN t.elems : Equals(t.elems[i], u.elems[i])
  ELSE t = u

-----------------------------------------------------------------------------
(* subst(binding): the term without its variables, which may be the term   *)
(* itself ("same").                                                        *)
Substituted(t, same) == [ret |-> "ok", term |-> t, same |-> same]
NotSubstituted(e) == [ret |-> e, term |-> NullTerm, same |-> FALSE]

(* The change flag of ErlConsList::subst() is inverted: the new list is    *)
(* returned if an element did NOT change, else the list itself.            *)
ListSubst(list, new) ==
  IF \E i \in DOMAIN new : new[i].same
    THEN Substituted(ErlConsList([i \in DOMAIN new |-> new[i].term], TRUE), FALSE)
    ELSE Substituted(list, TRUE)

TupleSubst(tuple, new) ==
  IF \A i \in DOMAIN new : new[i].same
    THEN Substituted(tuple, TRUE)
    ELSE Substituted(ErlTuple(tuple.arity, [i \in DOMAIN new |-> new[i].term]), FALSE)

VariableSubst(v, binding) ==
  IF v.name # "_" /\ v.name \in DOMAIN binding
    THEN Substituted(binding[v.name], FALSE)
    ELSE NotSubstituted("EpiVariableUnbound")

(* The first element that cannot be substituted ends the loop.  The new    *)
(* tuple or list takes no invalid element, and no list as its tail: both   *)
(* throw EpiBadArgument, which subst() may not throw.                      *)
RECURSIVE Subst(_, _)
Subst(t, binding) ==
  IF InstanceOf(t, "ERL_VARIABLE") THEN VariableSubst(t, binding)
  ELSE IF ~Compound(t) THEN Substituted(t, TRUE)
  ELSE LET raw == [i \in DOMAIN t.elems |-> Subst(t.elems[i], binding)]
           taken(i) == /\ IsValid(raw[i].term)
                       /\ ~ /\ InstanceOf(t, "ERL_CONS_LIST") /\ i = Len(t.elems)
                            /\ InstanceOf(raw[i].term, "ERL_CONS_LIST")
           fails == {i \in DOMAIN raw : raw[i].ret # "ok" \/ ~taken(i)}
           first == CHOOSE i \in fails : \A j \in fails : i <= j
       IN IF fails # {} THEN
            NotSubstituted(IF raw[first].ret # "ok" THEN raw[first].ret ELSE "terminate")
          ELSE IF InstanceOf(t, "ERL_TUPLE") THEN TupleSubst(t, raw)
          ELSE ListSubst(t, raw)

(* searchUnbound().  ErlTuple declares it const, so that it overrides      *)
(* nothing: inside another term a tuple has no unbound variable.           *)
RECURSIVE SearchUnbound(_, _)
SearchUnbound(t, binding) ==
  \/ InstanceOf(t, "ERL_VARIABLE") /\ t.name # "_" /\ t.name \notin DOMAIN binding
  \/ /\ Compound(t)
     /\ \E e \in Range(t.elems) :
          ~InstanceOf(e, "ERL_TUPLE") /\ SearchUnbound(e, binding)

-----------------------------------------------------------------------------
(* match(): the result and the binding it leaves.                          *)
MatchResult(ret, binding) == [ret |-> ret, binding |-> binding]

(* internalMatch(binding, pattern).  A variable on either side takes the   *)
(* other; elements are matched in order, each with the binding the ones    *)
(* before it left.  Lists of different arity never match, whatever their   *)
(* tails; a list that is a tail alone ends the program.                    *)
RECURSIVE InternalMatch(_, _, _), VariableMatch(_, _, _), MatchElements(_, _, _)
InternalMatch(t, pattern, binding) ==
  IF InstanceOf(t, "ERL_VARIABLE") THEN VariableMatch(t, pattern, binding)
  ELSE IF InstanceOf(pattern, "NULL") THEN MatchResult("undefined", binding)
  ELSE IF InstanceOf(pattern, "ERL_VARIABLE") THEN VariableMatch(pattern, t, binding)
  ELSE IF ~Compound(t) THEN
         MatchResult(IF Equals(t, pattern) THEN "true" ELSE "false", binding)
  ELSE IF \/ ~InstanceOf(pattern, t.type) \/ ~IsValid(t) \/ ~IsValid(pattern)
       \/ Len(t.elems) # Len(pattern.elems) THEN MatchResult("false", binding)
  ELSE IF InstanceOf(t, "ERL_CONS_LIST") /\ Arity(t) = 0 THEN
         MatchResult("terminate", binding)
  ELSE MatchElements(t.elems, pattern.elems, binding)

(* Mutant of VariableMatch: a bound variable matches whatever comes.       *)
VariableMatchAnything(v, pattern, binding) ==
  LET value == Subst(pattern, binding)
  IN IF v.name = "_" \/ v.name \in DOMAIN binding THEN MatchResult("true", binding)
     ELSE IF value.ret = "ok" THEN MatchResult("true", binding @@ (v.name :> value.term))
     ELSE MatchResult(value.ret, binding)

VariableMatch(v, pattern, binding) ==
  LET value == Subst(pattern, binding)
  IN IF v.name = "_" THEN MatchResult("true", binding)
     ELSE IF v.name \in DOMAIN binding THEN
            InternalMatch(binding[v.name], pattern, binding)
     ELSE IF InstanceOf(pattern, "NULL") THEN MatchResult("undefined", binding)
     ELSE IF value.ret = "ok" THEN MatchResult("true", binding @@ (v.name :> value.term))
     ELSE MatchResult(value.ret, binding)

MatchElements(ts, ps, binding) ==
  IF ts = <<>> THEN MatchResult("true", binding)
  ELSE LET first == InternalMatch(Head(ts), Head(ps), binding)
       IN IF first.ret = "true"
            THEN MatchElements(Tail(ts), Tail(ps), first.binding)
            ELSE first

(* Mutant of Match: the binding is not protected from a failed match.      *)
MatchUnprotected(t, pattern, binding) == InternalMatch(t, pattern, binding)

(* match() works on a copy of the binding and merges it if it succeeds.    *)
Match(t, pattern, binding) ==
  LET dirty == InternalMatch(t, pattern, binding)
  IN IF dirty.ret = "true"
       THEN MatchResult("true", binding @@ dirty.binding)
       ELSE MatchResult(dirty.ret, binding)
=============================================================================
