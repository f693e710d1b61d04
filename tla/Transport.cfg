\* Three nodes of two names that want the same port, and crash.
SPECIFICATION Spec
CONSTANTS
  Nodes = {n1, n2, n3}
  NodeIds <- TheNodeIds
  Words <- TheWords
  Names <- TheNames
  Protocols <- TheProtocols
  PortNumber <- TheNumbers
  FreePorts = {40001, 40002}
  NoEntry = NoEntry
INVARIANTS
  TypeOK
  PublishedPortsLeadToTheirNodes
  StartedNodesAreKnown
  TakenNamesAreOvercome
  
SYMMETRY Symmetry
CHECK_DEADLOCK FALSE
