\* Two sessions, one message more than the turn that takes it, and no crash.
CONSTANTS
  Sessions = {s1, s2}
  NoSession = NoSession
  Asks = {a1}
  Permits = 1
  MaxMessages = 2
  MaxCrashes = 0
SPECIFICATION Spec
INVARIANT SteeringSurvives
CHECK_DEADLOCK FALSE
