\* A connection whose link breaks under a living node.
SPECIFICATION Spec
CONSTANTS
  b1 = b1
  aName = n1
  pidMessage = pidMessage
  nameMessage = nameMessage
  Users = {u1}
  Boxes = {b1}
  Names = {n1}
  Peers = {p1}
  Conns = {c1}
  Messages <- OneMessage
  AcceptThread = acceptThread
  Dest <- MCDest
  None = None
INVARIANTS
  DeadConnectionRemoved
CHECK_DEADLOCK FALSE
