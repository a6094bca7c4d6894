\* Four windows of any state, some of which a catch-up may skip, and two runs.
CONSTANTS
  Runs = {r1, r2}
  NoRun = NoRun
  Horizon = 4
  CatchUp = 2
  Configs <- MCConfigs
  MaxEdits = 1
  MaxCrashes = 1
SPECIFICATION FairSpec
INVARIANTS
  TypeOK
  CooldownHolds
  NoSilentBreach
  IntervalKept
PROPERTIES
  WindowsEvaluated
\* The bounds end the model's time.
CHECK_DEADLOCK FALSE
