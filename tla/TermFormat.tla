----------------------------- MODULE TermFormat -----------------------------
(***************************************************************************)
(* The text of terms: toString(), and the parser ErlTerm::format() of      *)
(* src/src/ErlTermFormat.cpp.                                              *)
(*                                                                         *)
(* A text is a sequence of lexemes.  A punctuation mark is a lexeme of its *)
(* own kind, "space" any run of blanks; the other kinds say with which     *)
(* branch of eformat() a word begins and what that branch makes of it: a   *)
(* "lower" word is an atom, an "upper" one (or "_") a variable, "digits" a *)
(* long or a double, a "quoted" one a string or an atom.  Quotes close:    *)
(* the parser has no escapes and reads past the end of a text whose quotes *)
(* do not.  A directive "~w" takes the next of the arguments.              *)
(***************************************************************************)
EXTENDS Terms

Mark(kind) == [kind |-> kind, term |-> NullTerm]
Word(kind, t) == [kind |-> kind, term |-> t]

(* The lexeme at which the text ends: the NUL after it.                    *)
At(text, i) == IF i \in DOMAIN text THEN text[i] ELSE Mark("end")

-----------------------------------------------------------------------------
(* What the texts of an atom, a number and a variable start with; the text *)
(* of a string has no quotes, so its words are read as something else.     *)
WordKind(type) ==
  CASE type = "ERL_ATOM" -> "lower"
    [] type \in {"ERL_LONG", "ERL_DOUBLE"} -> "digits"
    [] type = "ERL_VARIABLE" -> "upper"
    [] OTHER -> "other"

Separated(texts) ==
  FoldLeft(LAMBDA all, text :
             IF all = <<>> THEN text ELSE all \o <<Mark(",")>> \o text,
           <<>>, texts)

(* toString(binding); a bound variable prints its value, without binding.  *)
RECURSIVE TermToString(_, _)
TermToString(t, binding) ==
  LET texts == IF Compound(t)
                 THEN [i \in DOMAIN t.elems |-> TermToString(t.elems[i], binding)]
                 ELSE <<>>
  IN IF ~IsValid(t) THEN <<Mark("other")>>
     ELSE IF InstanceOf(t, "ERL_TUPLE") THEN
       <<Mark("{")>> \o Separated(texts) \o <<Mark("}")>>
     ELSE IF InstanceOf(t, "ERL_EMPTY_LIST") THEN <<Mark("["), Mark("]")>>
     ELSE IF InstanceOf(t, "ERL_CONS_LIST") THEN
       <<Mark("[")>> \o Separated(Front(texts))
         \o (IF Last(t.elems) = ErlEmptyList THEN <<>> ELSE <<Mark("|")>> \o Last(texts))
         \o <<Mark("]")>>
     ELSE IF InstanceOf(t, "ERL_VARIABLE") /\ t.name # "_" /\ t.name \in DOMAIN binding THEN
       TermToString(binding[t.name], <<>>)
     ELSE <<Word(WordKind(t.type), t)>>

-----------------------------------------------------------------------------
(* A step of the parser: what it returned, the lexeme it stopped at, and   *)
(* the arguments that are left.                                            *)
Parsed(ret, value, at, args) == [ret |-> ret, value |-> value, at |-> at, args |-> args]
ParseError(at, args) == Parsed("EpiParseError", NullTerm, at, args)

RECURSIVE SkipNullChars(_, _)
SkipNullChars(text, i) ==
  IF At(text, i).kind = "space" THEN SkipNullChars(text, i + 1) ELSE i

(* pformat(): a directive has the type of its argument, "w" any.           *)
Directives == {"~w", "~a", "~s", "~i", "~f"}

PFormat(text, i, args) ==
  IF args = <<>> THEN Parsed("undefined", NullTerm, i + 1, args)
  ELSE Parsed("ok", Head(args), i + 1, Tail(args))

(* What the constructor of a tuple or a list makes of the elements read.   *)
(* It may throw EpiBadArgument, which format() may not.                    *)
Built(new, at, args) ==
  IF new.ret = "ok" THEN Parsed("ok", new.term, at, args)
  ELSE Parsed("terminate", NullTerm, at, args)

(* Mutant of PSequence: the mark after an element is consumed unread.       *)
RECURSIVE PSequence(_, _, _, _, _), PSequenceStrict(_, _, _, _, _), EFormat(_, _, _)
PSequenceStrict(text, at, args, close, elems) ==
  LET i == SkipNullChars(text, at)
      next == EFormat(text, i, args)
  IN IF At(text, i).kind = close THEN Parsed("ok", elems, i + 1, args)
     ELSE IF next.ret # "ok" THEN next
     ELSE PSequence(text, next.at + 1, next.args, close, Append(elems, next.value))

(* ptuple() and plist(), which differ in the mark that ends them: elements *)
(* up to it, with any number of commas before, between and after them.  A  *)
(* null argument is an element that could not be read.                     *)
PSequence(text, at, args, close, elems) ==
  LET i == SkipNullChars(text, at)
      next == EFormat(text, i, args)
  IN IF At(text, i).kind = close THEN Parsed("ok", elems, i + 1, args)
     ELSE IF At(text, i).kind = "," THEN PSequence(text, i + 1, args, close, elems)
     ELSE IF next.ret # "ok" THEN next
     ELSE IF next.value = NullTerm THEN ParseError(next.at, next.args)
     ELSE PSequence(text, next.at, next.args, close, Append(elems, next.value))

(* eformat(): one term.  "[]" is the empty list, but a blank between the   *)
(* brackets makes a list of a tail alone.  Nothing begins with "|".        *)
EFormat(text, at, args) ==
  LET i == SkipNullChars(text, at)
      kind == At(text, i).kind
      elems == PSequence(text, i + 1, args, IF kind = "{" THEN "}" ELSE "]", <<>>)
  IN IF kind = "[" /\ At(text, i + 1).kind = "]" THEN
       Parsed("ok", ErlEmptyList, i + 2, args)
     ELSE IF kind \in {"{", "["} THEN
       IF elems.ret # "ok" THEN elems
       ELSE Built(IF kind = "{" THEN NewTuple(elems.value) ELSE NewList(elems.value),
                  elems.at, elems.args)
     ELSE IF kind \in Directives THEN PFormat(text, i, args)
     ELSE IF kind \in {"lower", "upper", "digits", "quoted", "$"} THEN
       Parsed("ok", text[i].term, i + 1, args)
     ELSE ParseError(i + 1, args)

(* ErlTerm::format(): the first term of the text, whatever follows it.     *)
Format(text, args) ==
  LET parsed == EFormat(text, 1, args)
  IN IF parsed.ret # "ok" THEN Thrown(parsed.ret)
     ELSE IF parsed.value = NullTerm THEN Thrown("EpiParseError")
     ELSE Returned(parsed.value)
=============================================================================
