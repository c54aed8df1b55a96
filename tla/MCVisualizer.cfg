SPECIFICATION Spec
CONSTANTS
  Periods = {1}
  TimerIds = {1, 2}
  MaxMessages = 2
  MaxIdles = 1
INVARIANTS
  TypeOK
  EveryMessageShownOnce
  PausedModelStops
PROPERTIES
  QuitEnds
CHECK_DEADLOCK FALSE
