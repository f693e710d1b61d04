\* OpenThreads build, liveness: two guarded receivers and one that may be anything.
SPECIFICATION FairSpec
CONSTANTS
  a1 = a1
  a2 = a2
  b1 = b1
  Threads = {t1, t2, t3}
  Elements <- TwoElements
  Requests <- UntimedRequests
  Boost = FALSE
  SpuriousWakeups = FALSE
  Null = Null
  Pending = Pending
  NoRequest = NoRequest
PROPERTIES
  Delivery
CHECK_DEADLOCK FALSE
