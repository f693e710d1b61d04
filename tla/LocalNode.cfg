\* Two threads and two mailboxes; pids of three ids and two serials.
SPECIFICATION Spec
CONSTANTS
  Threads = {t1, t2}
  Boxes = {b1, b2}
  MaxPidCount = 2
  MaxSerial = 1
  PidIds = 4
  MaxPortCount = 3
  PortIds = 2
  MaxRefId = 1
  Words = 4
  Creations = 2
  NoBox = NoBox
  NoPid = NoPid
  NoRef = NoRef
  MaxNodes = 2
  MaxPorts = 5
  MaxWord = 0
  Overrun = 1
  Narrow = TRUE
INVARIANTS
  TypeOK
  PidsAreUnique
  EveryMailBoxIsFound
  DetachedMailBoxesAreForgotten
  StalePidsFindNothing
  PortsComeBackLate

  
SYMMETRY Symmetry
CHECK_DEADLOCK FALSE
