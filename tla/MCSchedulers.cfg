SPECIFICATION Spec
CONSTANTS
  Kinds = {"list", "map", "heap", "calendar", "ns2"}
  RemoveKinds = {"list", "map", "calendar", "ns2"}
  PeekKinds = {"list", "map", "heap", "calendar"}
  Delays <- MCDelays
  MaxSize = 6
  MaxTs = 8
  MaxUid = 6
  MaxBuckets = 8
  WidthModulus = 65536
INVARIANTS
  TypeOK
  HoldsEveryEvent
  ServesNextEarliest
CHECK_DEADLOCK FALSE
