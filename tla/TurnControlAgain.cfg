CONSTANTS
  Request = {r1, r2}
  Supplement = {s1}
  NoRequest = none
  MaxPauses = 2
  MaxStops = 0
  MaxClears = 0
  MaxCrashes = 0
SPECIFICATION Spec
INVARIANT HandedOverOnce
\* The system stops when its bounds are reached.
CHECK_DEADLOCK FALSE
