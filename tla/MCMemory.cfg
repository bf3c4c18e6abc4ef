\* Two turns a window, one of them repeated in the next; four turns give two
\* windows.  One failure, rebind or death at any point.
CONSTANTS
  Size = 2
  Overlap = 1
  MaxTurns = 4
  MaxTroubles = 1
\* Two processes publish once each while one clears and a model is replaced.
  Process = {p, q}
  MaxJobs = 2
  MaxClears = 1
  MaxModels = 2
  MaxFailures = 1
SPECIFICATION MCSpec
INVARIANTS EvidenceKept
            OneRecordPerSubject ClearedStaysForgotten
PROPERTY SealedIsIndexed
\* Both stop when their bounds are reached.
CHECK_DEADLOCK FALSE
