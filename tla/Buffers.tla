------------------------------- MODULE Buffers -------------------------------
(***************************************************************************)
(* The buffers that carry terms: PlainBuffer, which holds the terms that   *)
(* were written, and the EI buffers, which hold their encoding             *)
(* (src/src/PlainBuffer.cpp, EIBuffer.cpp, EIOutputBuffer.cpp,             *)
(* EIInputBuffer.cpp, the conversions of EpiUtil.cpp).                     *)
(*                                                                         *)
(* An encoding is a sequence of the tags of the external term format, each *)
(* with the arity or the value that follows it; the version byte, with     *)
(* which every EI buffer here starts, is left out.  Positions count from   *)
(* 0, as the indexes of the code do.                                       *)
(***************************************************************************)
EXTENDS Terms

(* What a read or a write of a buffer did: the result, the term read, and  *)
(* the contents or the position afterwards.                                *)
Written(ret, data) == [ret |-> ret, data |-> data]
Read(ret, t, index) == [ret |-> ret, term |-> t, index |-> index]

-----------------------------------------------------------------------------
(* PlainBuffer::writeTerm(): the term is stored without its variables.     *)
PlainWriteTerm(terms, t, binding) ==
  LET value == Subst(t, binding)
  IN IF t = NullTerm THEN Written("EpiInvalidTerm", terms)
     ELSE IF value.ret = "ok" THEN Written("ok", Append(terms, value.term))
     ELSE Written(value.ret, terms)

(* PlainBuffer::readTerm(): null when all terms have been read.            *)
PlainReadTerm(terms, index) ==
  IF index = Len(terms) THEN Read("ok", NullTerm, index)
  ELSE Read("ok", terms[index + 1], index + 1)

-----------------------------------------------------------------------------
Tag(tag, arity, t) == [tag |-> tag, arity |-> arity, term |-> t]

(* ei_x_encode_*() of the EI library: simple terms, and the headers.  The  *)
(* empty string has the encoding of the empty list.                        *)
EmptyString == Simple("ERL_STRING", "")
EncodeSimple(t) ==
  IF t \in {EmptyString, ErlEmptyList} THEN Tag("ERL_NIL_EXT", 0, NullTerm)
  ELSE Tag(t.type, 0, t)
EncodeTupleHeader(arity) == Tag("ERL_TUPLE_EXT", arity, NullTerm)
EncodeListHeader(arity) ==
  IF arity = 0 THEN Tag("ERL_NIL_EXT", 0, NullTerm) ELSE Tag("ERL_LIST_EXT", arity, NullTerm)

(* EIOutputBuffer::writeTerm(): the header, then the elements up to the    *)
(* first that cannot be written; what was encoded before it stays in the   *)
(* buffer.  Variables are replaced as they are met.  An unclosed list      *)
(* without elements has no header.                                         *)
RECURSIVE EncodeTerm(_, _, _), EncodeElements(_, _, _)
EncodeTerm(data, t, binding) ==
  IF InstanceOf(t, "NULL") THEN Written("EpiInvalidTerm", data)
  ELSE IF InstanceOf(t, "ERL_TUPLE") THEN
    EncodeElements(Append(data, EncodeTupleHeader(t.arity)),
                   [i \in 1..t.arity |-> ElementAt(t, i - 1)], binding)
  ELSE IF InstanceOf(t, "ERL_CONS_LIST") THEN
    EncodeElements(IF t.elems = <<>> THEN data
                   ELSE Append(data, EncodeListHeader(Arity(t))),
                   [i \in 1..Max({1, Len(t.elems)}) |->
                      IF i < Len(t.elems) THEN ListElementAt(t, i - 1)
                      ELSE TailAt(t, Arity(t) - 1)], binding)
  ELSE IF ~InstanceOf(t, "ERL_VARIABLE") THEN Written("ok", Append(data, EncodeSimple(t)))
  ELSE IF t.name = "_" THEN Written("EpiInvalidTerm", data)
  ELSE IF t.name \in DOMAIN binding THEN EncodeTerm(data, binding[t.name], binding)
  ELSE Written("EpiVariableUnbound", data)

EncodeElements(data, elems, binding) ==
  IF elems = <<>> THEN Written("ok", data)
  ELSE IF Head(elems).ret = "EpiBadArgument" THEN Written("terminate", data)
  ELSE IF Head(elems).ret # "ok" THEN Written(Head(elems).ret, data)
  ELSE LET first == EncodeTerm(data, Head(elems).term, binding)
       IN IF first.ret # "ok" THEN first
          ELSE EncodeElements(first.data, Tail(elems), binding)

(* Mutant of DecodeList: the tail is taken for one more element.           *)
DecodeListProper(elems, arity) == NewList(elems)

(* The list of the elements and the tail, added one by one and closed with *)
(* the last; what addElement() and close() throw becomes EpiDecodeException*)
DecodeList(elems, arity) == Close(ErlConsList(Front(elems), FALSE), Last(elems))

(* EIInputBuffer::readTerm() of a well-formed encoding, at an index before *)
(* its end.  A type it does not know is not skipped.  The elements read    *)
(* before an exception stay read.                                          *)
RECURSIVE Decode(_, _), DecodeElements(_, _, _, _)
Decode(data, index) ==
  LET item == data[index + 1]
      arity == item.arity
      size == IF item.tag = "ERL_LIST_EXT" THEN arity + 1 ELSE arity
      elems == DecodeElements(data, index + 1, size, <<>>)
      new == IF item.tag = "ERL_LIST_EXT" THEN DecodeList(elems.term, arity)
             ELSE NewTuple(elems.term)
  IN IF item.tag = "ERL_NIL_EXT" THEN Read("ok", ErlEmptyList, index + 1)
     ELSE IF item.tag = "UNKNOWN_EXT" THEN Read("EpiDecodeException", NullTerm, index)
     ELSE IF item.tag \notin {"ERL_TUPLE_EXT", "ERL_LIST_EXT"} THEN
       Read("ok", item.term, index + 1)
     ELSE IF elems.ret # "ok" THEN Read(elems.ret, NullTerm, elems.index)
     ELSE IF new.ret # "ok" THEN Read("EpiDecodeException", NullTerm, elems.index)
     ELSE Read("ok", new.term, elems.index)

DecodeElements(data, index, count, elems) ==
  IF count = 0 THEN Read("ok", elems, index)
  ELSE LET first == Decode(data, index)
       IN IF first.ret # "ok" THEN Read(first.ret, NullTerm, first.index)
          ELSE DecodeElements(data, first.index, count - 1, Append(elems, first.term))

(* A term that leftover bytes happen to decode to.                         *)
Garbage == Simple("ERL_ATOM", "garbage")

(* readTerm() at any index.  The end of the data is only noticed if it is  *)
(* the end of the memory of the buffer too; else what follows is decoded.  *)
EIReadTerm(data, index) ==
  IF index < Len(data) THEN {Decode(data, index)}
  ELSE {Read("ok", NullTerm, index), Read("ok", Garbage, index),
        Read("EpiDecodeException", NullTerm, index)}
=============================================================================
