SPECIFICATION Spec
CONSTANTS
  Contexts = {n1}
  NoContext = NoContext
  Delays <- MCDelays
  MaxTs = 2
  MaxUid = 7
INVARIANTS
  TypeOK
  QueueIsAhead
  UnscheduledIsQueueSize
  ExpiredIsExact
  NothingLost
  DestroyIsFifo
PROPERTIES
  ImplementsEventLoop
  EventuallyServed
CHECK_DEADLOCK FALSE
