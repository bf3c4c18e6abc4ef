CONSTANTS
  a = a
  b = b
  c = c
  TaskId <- MCPairTasks
  Definitions <- MCPairDefinitions
  MaxTurns = 2
  MaxInputs = 3
  MaxCrashes = 1
SPECIFICATION MCTurnsSpec
INVARIANTS ResumedInputsAreTheNew
PROPERTY ExecutionEnds
CHECK_DEADLOCK FALSE
