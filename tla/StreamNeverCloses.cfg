SPECIFICATION FairSpec
CONSTANTS
  MaxBuffered = 2
  MaxSteps = 1
  MaxDrops = 0
  Disturbances = {"end"}
PROPERTIES
  StreamsClose
CHECK_DEADLOCK FALSE
