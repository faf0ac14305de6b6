SPECIFICATION Spec
CONSTANTS
  c1 = c1
  c2 = c2
  x1 = x1
  r1 = r1
  r2 = r2
  r3 = r3
  r4 = r4
  Clients = {c1, c2}
  Proxies = {x1}
  Institutional = {c1}
  Ceiling = 1
  HigherCeiling = 2
  Seconds = 2
  TicksPerSecond = 2
  MaxTime = 5
  Requests = {r1, r2, r3, r4}
SYMMETRY Symmetry
INVARIANTS TypeOK CeilingIsExact WaitMeetsTheWindow
CHECK_DEADLOCK FALSE
