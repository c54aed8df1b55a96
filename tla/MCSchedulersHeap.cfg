SPECIFICATION Spec
CONSTANTS
  Kinds = {"heap"}
  RemoveKinds = {"heap"}
  PeekKinds = {}
  Delays <- MCDelays
  MaxSize = 6
  MaxTs = 8
  MaxUid = 7
  MaxBuckets = 8
  WidthModulus = 65536
INVARIANTS
  ServesNextEarliest
CHECK_DEADLOCK FALSE
