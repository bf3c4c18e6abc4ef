CONSTANTS
  Request = {r1, r2}
  Supplement = {s1}
  NoRequest = none
  MaxPauses = 0
  MaxStops = 1
  MaxClears = 0
  MaxCrashes = 0
SPECIFICATION Spec
INVARIANT NoneLost
\* The system stops when its bounds are reached.
CHECK_DEADLOCK FALSE
