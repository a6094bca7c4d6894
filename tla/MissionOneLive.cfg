\* A second root in the same session, no faults.
CONSTANTS
  r1 = r1
  r2 = r2
  s1 = s1
  s2 = s2
  a1 = a1
  a2 = a2
  a3 = a3
  a4 = a4
  Roots = {r1, r2}
  Subs = {s1, s2}
  Agents = {a1, a2, a3, a4}
  Plan <- MCPlan
  Crews <- MCCrews
  Width = 2
  Costs = {2}
  SynthCost = 0
  Rounds = 2
  MaxFaults = 0
SPECIFICATION Spec
INVARIANT
  OneLiveMission
CHECK_DEADLOCK FALSE
