------------------------- MODULE ConnectionContract -------------------------
(***************************************************************************)
(* What a Connection promises to its receiver, without threads, mutex or   *)
(* polling (EpiConnection.hpp, EIConnection.cpp lines 66-69): between      *)
(* start() and stop() the frames of the peer are handed over in the order  *)
(* they were sent, each once; a broken link is reported once, after the    *)
(* frames that were still readable; stop() may cost at most one frame, and *)
(* after it nothing is handed over.                                        *)
(***************************************************************************)
EXTENDS Naturals, SequencesExt

CONSTANTS Frames, LinkError

VARIABLES stream,     \* frames sent and not yet handed over or lost
          link,       \* "up" or "down"
          mode,       \* "shut", "open", "asked" to stop, "ended"
          delivered   \* what the receiver was handed, in order

vars == <<stream, link, mode, delivered>>

Init == stream = <<>> /\ link = "up" /\ mode = "shut" /\ delivered = <<>>

Arrive(f) ==
  /\ link = "up"
  /\ stream' = Append(stream, f)
  /\ UNCHANGED <<link, mode, delivered>>

(* The link breaks; what was not yet read may be lost from some point on.  *)
Break ==
  /\ link = "up"
  /\ link' = "down"
  /\ \E k \in 0 .. Len(stream) : stream' = SubSeq(stream, 1, k)
  /\ UNCHANGED <<mode, delivered>>

Open == mode = "shut" /\ mode' = "open" /\ UNCHANGED <<stream, link, delivered>>

Deliver ==
  /\ mode = "open" /\ stream # <<>>
  /\ delivered' = Append(delivered, Head(stream))
  /\ stream' = Tail(stream)
  /\ UNCHANGED <<link, mode>>

(* The broken link is reported, and that is the last thing reported.       *)
Report ==
  /\ mode \in {"open", "asked"}
  /\ stream = <<>> /\ link = "down"
  /\ delivered' = Append(delivered, LinkError)
  /\ mode' = "ended"
  /\ UNCHANGED <<stream, link>>

(* stop(): at most one frame already read is still handed over, or lost.   *)
Ask == mode = "open" /\ mode' \in {"asked", "ended"} /\ UNCHANGED <<stream, link, delivered>>

LastFrame ==
  /\ mode = "asked" /\ stream # <<>>
  /\ delivered' \in {delivered, Append(delivered, Head(stream))}
  /\ stream' = Tail(stream)
  /\ mode' = "ended"
  /\ UNCHANGED link

End == mode = "asked" /\ mode' = "ended" /\ UNCHANGED <<stream, link, delivered>>

Shut == mode = "ended" /\ mode' = "shut" /\ UNCHANGED <<stream, link, delivered>>

Next ==
  \/ \E f \in Frames : Arrive(f)
  \/ Break
  \/ Open \/ Deliver \/ Report \/ Ask \/ LastFrame \/ End \/ Shut

Spec == Init /\ [][Next]_vars
=============================================================================
