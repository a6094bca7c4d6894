\* Two crews with three leaves in all contend for two permits and one budget.
CONSTANTS
  r1 = r1
  r2 = r2
  s1 = s1
  s2 = s2
  a1 = a1
  a2 = a2
  a3 = a3
  a4 = a4
  Roots = {r1}
  Subs = {s1, s2}
  Agents = {a1, a2, a3}
  Plan <- MCPlan
  Crews <- MCCrews
  Width = 2
  Costs = {2}
  SynthCost = 0
  Rounds = 2
  MaxFaults = 1
SPECIFICATION FairSpec
INVARIANTS
  TypeOK
  PermitsConserved
  QuietAtRest
  NeverSilentlyTruncated
  StopReachesAll
PROPERTIES
  NothingStartsLate
  MissionsEnd
\* A mission that is at rest, or waits for approval, may stay so.
CHECK_DEADLOCK FALSE
