\* receiveBuf() after the message of a remote node.
SPECIFICATION Spec
CONSTANTS
  Texts <- TheTexts
  Elements <- TheElements
  Bindings <- TheBindings
  PeerTerms <- ThePeerTerms
  ExitReasons <- TheExitReasons
  Guards <- TheGuards
  Received <- TheReceived
  MaxElements = 2
  MaxTerms = 1
INVARIANT
  BuffersStartOver
CHECK_DEADLOCK FALSE
