SPECIFICATION Spec
CONSTANTS
  Backends = {"subscription"}
  MaxSteps = 1
  MaxTurns = 1
  MaxRerates = 0
INVARIANT EndVerdictKept
CHECK_DEADLOCK FALSE
