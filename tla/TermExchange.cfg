\* Terms of up to two elements, one or two of them in a message, and each way it can go.
SPECIFICATION Spec
CONSTANTS
  Texts <- TheTexts
  Elements <- TheElements
  Bindings <- TheBindings
  PeerTerms <- ThePeerTerms
  ExitReasons <- TheExitReasons
  Guards <- TheGuards
  Received <- TheReceived
  MaxElements = 2
  MaxTerms = 2
INVARIANTS
  TypeOK
  MessagesCarryWhatWasWritten
  ProperUseIsSafe
  FormatReadsWhatToStringPrints
PROPERTIES
  GuardsAreExact
  RejectedMessagesBindNothing
CHECK_DEADLOCK FALSE
