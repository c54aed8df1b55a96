SPECIFICATION Spec
CONSTANTS
  Processors = 2
  NumSuites = 2
  NumExamples = 1
  LaunchFailures = TRUE
INVARIANTS
  TypeOK
  EveryJobOnce
  ExitCodeIsHonest
PROPERTIES
  EveryRunEnds
CHECK_DEADLOCK FALSE
