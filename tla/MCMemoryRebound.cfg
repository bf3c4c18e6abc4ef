\* The store alone; one process whose recall may fall anywhere.
CONSTANTS
  Size = 1
  Overlap = 0
  MaxTurns = 0
  MaxTroubles = 0
  Process = {p}
  MaxJobs = 1
  MaxClears = 0
  MaxModels = 2
  MaxFailures = 0
SPECIFICATION MCSpec
INVARIANT VectorsOfBoundModel
CHECK_DEADLOCK FALSE
