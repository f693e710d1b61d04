----------------------------- MODULE MCMailBox -----------------------------
(***************************************************************************)
(* Instances of MailBox for TLC.                                           *)
(***************************************************************************)
EXTENDS MailBox

(* Besides the calls, users take whatever comes, or match a note.          *)
AnyMessage == [method |-> "receive", accepts |-> Messages, timed |-> TRUE]
NoteOnly == [method |-> "match", accepts |-> Checked(Notes), timed |-> FALSE]

UserReceives == {AnyMessage, NoteOnly}
=============================================================================
