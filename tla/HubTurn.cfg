\* Two sessions on any backends, with and without a grace window, with room for
\* one or both turns and one permit.
CONSTANTS
  Sessions = {s1, s2}
  NoSession = NoSession
  Asks = {a1, a2}
  Permits = 1
  MaxMessages = 2
  MaxCrashes = 1
SPECIFICATION FairSpec
INVARIANTS
  TypeOK
  RunningIsTimed
  WaitsBracketed
  PermitsConserved
PROPERTIES
  CompletionDrains
  TurnsEnd
\* The operator may leave every session alone.
CHECK_DEADLOCK FALSE
