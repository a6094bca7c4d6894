\* Three cells, two workers, a cap one child can reach, and two disturbances
\* (database errors in a worker, failure analyses, stops and deletes of single
\* children) in any order with a stop, a delete and a crash of the suite run.
CONSTANTS
  NumCells = 3
  MaxConcurrency = 2
  CostCap = 1
  MaxCost = 1
  MaxDisturbances = 2
SPECIFICATION FairSpec
INVARIANTS
  TypeOK
  InFlightBounded
  SpendBounded
  ConcludedAtRest
  LinksResolve
  AggregatesComplete
PROPERTIES
  KeepsPromise
  AlwaysConcludes
\* Every cell ran and the row was reviewed or removed: nothing is left to do.
CHECK_DEADLOCK FALSE
