SPECIFICATION FairSpec
CONSTANTS
  Backends = {"engine", "subscription"}
  MaxSteps = 1
  MaxTurns = 1
  MaxRerates = 1
INVARIANTS
  TypeOK
  LogFaithful
  ReplayConverges
PROPERTIES
  TerminalNeverReopens
  EngineVerdictFinal
  EventuallySettles
  StopIsHonoured
CHECK_DEADLOCK FALSE
