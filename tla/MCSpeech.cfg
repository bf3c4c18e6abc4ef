\* Three operations of two tasks of one process and one of another, with one
\* death, failed download, load or write or a damaged file; or two with both.
CONSTANTS
  Version = {"v0", "v1", "v2"}
  Process = {"p", "q"}
  Task = {"p1", "p2", "q1"}
  Of <- TaskOf
  Family <- FamilyOf
  Newest <- NewestOf
  MaxOps = 3
  MaxFaults = 1
  MaxDamages = 1
\* A reply that plays and one that waits, each with text to its limit; a stop
\* and a failure anywhere.
  MaxReplies = 2
  MaxDeltas = 2
  TextChars = 2
  QueueSize = 1
  Windows = 2
  Capacity = 1
  MaxStops = 1
  MaxBreaks = 1
\* A recording of two blocks through a queue of one, beside a play, with one
\* refresh of the devices, and an edit, another session or a failure.
  Plugs <- PlugsOf
  MaxResets = 1
  MaxRecords = 1
  MaxBlocks = 2
  Buffer = 1
  MaxPlays = 1
  MaxTroubles = 1
\* Texts of at most 24 characters; a marker is held up to ten of them, and
\* segments are of three.
  Text <- TextsOfTwo
  MaxHeld = 10
  SegmentSize = 3
  MaxSwitches = 2
SPECIFICATION MCSpec
INVARIANTS VoiceStays SomeOperationGoesOn HeardUntilStopped MicrophoneIsHeard SpokenAsWritten
PROPERTY RepliesEnd
\* All stop when their bounds are reached.
CHECK_DEADLOCK FALSE
