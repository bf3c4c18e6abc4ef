\* Two children that compete for one place.
CONSTANTS
  h1 = h1
  h2 = h2
  s1 = s1
  Handle <- MCPair
  Session <- MCSession
  SessionOf <- MCPairSession
  Limit = 1
  MaxCancels = 0
\* A recording of one block beside a play; one edit, other session or failure.
  Plugs <- OneMicrophone
  MaxResets = 0
  MaxRecords = 1
  MaxBlocks = 1
  Buffer = 1
  MaxPlays = 1
  MaxTroubles = 1
\* A stream of one segment and one of two; one worker, pipe or switch that goes wrong.
  Frames <- MCFrames
  PieceQueue = 1
  PipeSize = 1
  MaxMishaps = 1
SPECIFICATION MCSpec
INVARIANT PiecesAreOfTheirSegments
PROPERTIES PoolSettles RecordingsEnd
\* All stop when their bounds are reached.
CHECK_DEADLOCK FALSE
