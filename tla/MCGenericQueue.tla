--------------------------- MODULE MCGenericQueue ---------------------------
(***************************************************************************)
(* Instances of GenericQueue for TLC.  There are two kinds of messages,    *)
(* those a guard A accepts and those a guard B accepts.                    *)
(***************************************************************************)
EXTENDS GenericQueue, TLC

CONSTANTS a1, a2, b1

MCElements == {a1, a2, b1}
TwoElements == {a1, b1}

Plain      == [accepts |-> Elements, guarded |-> FALSE, timed |-> FALSE]
PlainTimed == [Plain EXCEPT !.timed = TRUE]
ForA       == [accepts |-> Elements \cap {a1, a2}, guarded |-> TRUE, timed |-> FALSE]
ForATimed  == [ForA EXCEPT !.timed = TRUE]
ForB       == [accepts |-> Elements \cap {b1}, guarded |-> TRUE, timed |-> FALSE]

AllRequests     == {Plain, PlainTimed, ForA, ForATimed, ForB}
UntimedRequests == {Plain, ForA, ForB}
PlainRequests   == {Plain, PlainTimed}

Symmetry == Permutations(Threads)
=============================================================================
