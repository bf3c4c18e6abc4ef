\* The plan: two siblings and a task that depends on both, one turn and one death.
CONSTANTS
  a = a
  b = b
  c = c
  TaskId <- MCForkTasks
  Definitions <- MCForkDefinitions
  MaxTurns = 1
  MaxInputs = 1
  MaxCrashes = 1
\* Requests: three inputs, two tools, an interruption, two compressions.
  MaxSaid = 3
  Tool = {m1, m2}
  MaxCuts = 1
  MaxShrinks = 2
  HeadTurns = 1
  TailTurns = 1
\* Tools: two commands and a skill's script, one change of turn, two
\* cancellations, two uses of the browser, one failure.
  Call = {m1, m2, script}
  Serial = {m1, m2}
  MaxScopes = 1
  MaxHits = 2
  MaxActions = 2
  MaxMishaps = 1
\* References: two uses at a time, three in all, two media types, one change
\* of the file, one failure, cancellation or death.
  Job = {m1, m2}
  Key = {n1, n2}
  MaxWrites = 1
  MaxCalls = 3
  MaxStops = 1
\* Settings: two writers and a reader of two fields, two updates, one change by hand.
  Field = {n1, n2}
  Writer = {m1, m2}
  Reader = {r}
  MaxUpdates = 3
  MaxByHand = 1
SPECIFICATION MCSpec
INVARIANTS TypeOK DependenciesDurable NoOrphanRunning RequestsAreWhole ToolsOwnTheirProcesses ReferencesAreKept SettingsAreKept
PROPERTY NoSilentRerun
SYMMETRY MCSymmetry
\* All stop when their bounds are reached.
CHECK_DEADLOCK FALSE
