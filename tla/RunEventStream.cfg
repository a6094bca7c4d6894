SPECIFICATION FairSpec
CONSTANTS
  MaxBuffered = 2
  MaxSteps = 4
  MaxDrops = 2
  Disturbances = {"end", "delete", "crash"}
INVARIANTS
  TypeOK
  StreamsComplete
PROPERTIES
  UndisturbedConsoleSettles
CHECK_DEADLOCK FALSE
