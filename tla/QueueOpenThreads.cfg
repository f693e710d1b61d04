\* OpenThreads build, all four overloads of get(), three receivers.
SPECIFICATION Spec
CONSTANTS
  a1 = a1
  a2 = a2
  b1 = b1
  Threads = {t1, t2, t3}
  Elements <- MCElements
  Requests <- AllRequests
  Boost = FALSE
  SpuriousWakeups = TRUE
  Null = Null
  Pending = Pending
  NoRequest = NoRequest
INVARIANTS
  TypeOK
  ElementsConserved
  NoLostWakeup
PROPERTIES
  ImplementsContract
  NullOnlyWhenLate
CHECK_DEADLOCK FALSE
