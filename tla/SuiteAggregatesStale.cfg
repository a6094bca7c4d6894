\* One failure analysis asked for while the suite run still has cells to start.
CONSTANTS
  NumCells = 3
  MaxConcurrency = 2
  CostCap = 1
  MaxCost = 1
  MaxDisturbances = 1
SPECIFICATION Spec
INVARIANTS AggregatesDerived
CHECK_DEADLOCK FALSE
