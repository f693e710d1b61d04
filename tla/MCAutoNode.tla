----------------------------- MODULE MCAutoNode -----------------------------
(***************************************************************************)
(* Instances of AutoNode for TLC: a message for the first mailbox's pid,   *)
(* and one for a registered name.                                          *)
(***************************************************************************)
EXTENDS AutoNode

CONSTANTS b1, aName, pidMessage, nameMessage

MCMessages == {pidMessage, nameMessage}
OneMessage == {pidMessage}
MCDest == [m \in Messages |-> IF m = pidMessage THEN b1 ELSE aName]
=============================================================================
