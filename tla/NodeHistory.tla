---------------------------- MODULE NodeHistory ----------------------------
(***************************************************************************)
(* AutoNode with a history: what each thread has carried to the node, in   *)
(* order.  With it the order of messages can be spoken of, and that every  *)
(* connection in the node behaves as ConnectionContract says, of which     *)
(* EIConnection is another, detailed implementation.                       *)
(***************************************************************************)
EXTENDS AutoNode

CONSTANT theConn   \* a connection, any one

VARIABLE carried   \* each thread: its messages, and None for a broken link

(* A thread that comes to deliver a message or a failure has taken it.     *)
Record ==
  carried' = [t \in Threads |->
    CASE at[t] # "deliver" /\ at'[t] = "deliver" -> Append(carried[t], msg'[t])
      [] at[t] # "failed" /\ at'[t] = "failed" -> Append(carried[t], None)
      [] OTHER -> carried[t]]

HistoryInit == Init /\ carried = [t \in Threads |-> <<>>]
HistorySpec == HistoryInit /\ [][Next /\ Record]_<<vars, carried>>

(* A connection whose acceptor has not run is shut; one that was asked to  *)
(* stop, or stopped itself, hands over nothing any more.                   *)
Mode(c) == IF at[c] = "none" THEN "shut" ELSE IF stop[c] THEN "ended" ELSE "open"

(* Any one connection of the node, seen as the contract sees it.           *)
Contract ==
  INSTANCE ConnectionContract
    WITH Frames <- Messages, LinkError <- None, stream <- wire[theConn],
         link <- link[theConn], mode <- Mode(theConn), delivered <- carried[theConn]

(* The node starts, uses and stops the connection as the contract has it,  *)
(* whatever users, peers and the destructor do: it is handed the frames of *)
(* the peer in order and each once, the broken link after them, and        *)
(* nothing after a stop.                                                   *)
ConnectionKeepsTheContract == Contract!Spec

(* Two messages that one thread carried to one mailbox, an acceptor from a *)
(* peer or a user within the node, are in its queue in the order they were *)
(* sent, however many other threads deliver there between.                 *)
MessagesKeepTheirOrder ==
  \A t \in Threads, b \in Boxes :
    \A p, q \in DOMAIN carried[t], i, j \in DOMAIN inbox[b] :
      carried[t][p] = inbox[b][i] /\ carried[t][q] = inbox[b][j] /\ p < q => i < j

(* Once a mailbox has got a message of a thread, it misses none that the   *)
(* thread then carries to its pid up to any of these that it gets: it has  *)
(* a run of them without a gap.                                            *)
MessagesLeaveNoGaps ==
  \A t \in Threads, b \in Boxes : \A p, q, r \in DOMAIN carried[t] :
    /\ p < q /\ q < r
    /\ {carried[t][q], carried[t][r]} \subseteq {m \in Messages : Dest[m] = b}
    /\ {carried[t][p], carried[t][r]} \subseteq ToSet(inbox[b])
    => carried[t][q] \in ToSet(inbox[b])
=============================================================================
