\* OpenThreads build: three frames, the connection started at most twice.
SPECIFICATION FairSpec
CONSTANTS
  Frames = {f1, f2, f3}
  Boost = FALSE
  MaxStarts = 2
  LinkError = LinkError
  Nothing = Nothing
INVARIANTS
  TypeOK
  NoUseAfterDelete
PROPERTIES
  ImplementsContract
  StopReturns
  FramesArrive
  LinkErrorReported
CHECK_DEADLOCK FALSE
