SPECIFICATION Spec
CONSTANTS
  d1 = d1
  d2 = d2
  Devices = {d1, d2}
  MaxRetries = 2
  QueueSize = 2
  MaxSends = 2
  MaxSwitches = 2
INVARIANTS
  TypeOK
  OneFrameAtATime
  EveryPacketOnce
PROPERTIES
  EveryPacketLeaves
CHECK_DEADLOCK FALSE
