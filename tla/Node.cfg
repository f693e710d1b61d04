\* A user, a mailbox with two names, one peer and two connections to it.
SPECIFICATION FairSpec
CONSTANTS
  b1 = b1
  aName = n2
  pidMessage = pidMessage
  nameMessage = nameMessage
  Users = {u1}
  Boxes = {b1}
  Names = {n1, n2}
  Peers = {p1}
  Conns = {c1, c2}
  Messages <- MCMessages
  AcceptThread = acceptThread
  Dest <- MCDest
  None = None
INVARIANTS
  TypeOK
  SendsUseLiveConnections
  DestroyedMailBoxesAreQuiet
PROPERTIES
  LookupsFindLiveMailBoxes
  MessagesReachTheirMailBox
CHECK_DEADLOCK FALSE
