\* The destructor of a node with at most one connection.
SPECIFICATION FairSpec
CONSTANTS
  b1 = b1
  aName = n1
  pidMessage = pidMessage
  nameMessage = nameMessage
  Users = {u1}
  Boxes = {b1}
  Names = {n1}
  Peers = {p1}
  Conns = {c1}
  Messages <- OneMessage
  AcceptThread = acceptThread
  Dest <- MCDest
  None = None
PROPERTIES
  DestructorReturns
CHECK_DEADLOCK FALSE
