--------------------------- MODULE MCTermExchange ---------------------------
(***************************************************************************)
(* Instances of TermExchange for TLC.                                      *)
(***************************************************************************)
EXTENDS TermExchange

a == Simple("ERL_ATOM", "a")
one == Simple("ERL_LONG", "1")
Pair(t, u) == ErlTuple(2, <<t, u>>)
List(elems, tail) == ErlConsList(Append(elems, tail), TRUE)
S == ErlVariable("S")
X == ErlVariable("X")
Y == ErlVariable("Y")
Anon == ErlVariable("_")

(* "{a, S}", "[ ]", "[a,~w]" with a string, with an empty one, with null   *)
(* and with nothing.                                                       *)
Opened == <<Mark("["), Word("lower", a), Mark(","), Mark("~w"), Mark("]")>>
TheTexts ==
  {[text |-> <<Mark("{"), Word("lower", a), Mark("space"), Word("upper", S), Mark("}")>>,
    args |-> <<>>],
   [text |-> <<Mark("["), Mark("space"), Mark("]")>>, args |-> <<>>],
   [text |-> Opened, args |-> <<Simple("ERL_STRING", "s")>>],
   [text |-> Opened, args |-> <<EmptyString>>],
   [text |-> Opened, args |-> <<NullTerm>>],
   [text |-> Opened, args |-> <<>>],
   [text |-> <<Mark("|")>>, args |-> <<>>]}

TheElements == {a, S, Pair(S, one), List(<<a>>, ErlEmptyList)}
TheBindings ==
  {<<>>, "S" :> one, "S" :> EmptyString, "S" :> List(<<one>>, ErlEmptyList)}

TheReceived == {<<>>, "X" :> a}

(* {a, <fun>}, and [a|1].                                                  *)
ThePeerTerms ==
  {<<EncodeTupleHeader(2), Tag("ERL_ATOM", 0, a), Tag("UNKNOWN_EXT", 0, NullTerm)>>,
   <<EncodeListHeader(1), Tag("ERL_ATOM", 0, a), Tag("ERL_LONG", 0, one)>>}

TheExitReasons == ThePeerTerms \cup {<<>>, <<Tag("ERL_ATOM", 0, a)>>}

TheGuards ==
  {[kind |-> "pattern", patterns |-> <<Pair(X, X)>>],
   [kind |-> "pattern", patterns |-> <<Pair(Y, X)>>],
   [kind |-> "command", patterns |-> <<Pair(X, one)>>],
   [kind |-> "pattern", patterns |-> <<List(<<X>>, Anon)>>],
   [kind |-> "composed", patterns |-> <<Pair(X, a), List(<<X>>, ErlEmptyList), Pair(Pair(X, one), Anon)>>]}
=============================================================================
