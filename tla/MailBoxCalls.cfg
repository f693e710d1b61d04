\* Two threads, two remote calls of which one is bad, a note, an error, a garbled message.
SPECIFICATION FairSpec
CONSTANTS
  Threads = {t1, t2}
  Calls = {c1, c2}
  Bad = {c2}
  Notes = {n1}
  Garbled = {g1}
  Errors = {e1}
  Receives <- UserReceives
  Null = Null
  Pending = Pending
  NoRequest = NoRequest
  NoCall = NoCall
INVARIANTS
  TypeOK
PROPERTIES
  SequentialCallsGetTheirAnswers
  ErrorsAreNotOvertaken
  RPCsReturn
CHECK_DEADLOCK FALSE
