\* Boost build: a timed receiver and a put.
SPECIFICATION Spec
CONSTANTS
  a1 = a1
  a2 = a2
  b1 = b1
  Threads = {t1, t2}
  Elements <- TwoElements
  Requests <- PlainRequests
  Boost = TRUE
  SpuriousWakeups = FALSE
  Null = Null
  Pending = Pending
  NoRequest = NoRequest
PROPERTIES
  NullOnlyWhenLate
CHECK_DEADLOCK FALSE
