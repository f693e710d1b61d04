--------------------------- MODULE MCEIConnection ---------------------------
(***************************************************************************)
(* Instances of EIConnection for TLC: the constants are model values.      *)
(***************************************************************************)
EXTENDS EIConnection
=============================================================================
