----------------------------- MODULE MCLocalNode -----------------------------
(***************************************************************************)
(* Instances of LocalNode for TLC, with counters of a bit or two.          *)
(***************************************************************************)
EXTENDS LocalNode, TLC

Symmetry == Permutations(Threads) \cup Permutations(Boxes)
=============================================================================
