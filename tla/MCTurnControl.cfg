CONSTANTS
  r1 = r1
  r2 = r2
  r3 = r3
  s1 = s1
  s2 = s2
  NoRequest = none
  Request <- MCTrio
  Supplement <- MCTwo
  MaxPauses = 2
  MaxStops = 1
  MaxClears = 1
  MaxCrashes = 1
\* Two calls that ask, two messages, and one stop, pause or clearing.
  ChildAsker <- MCChildAsker
  MaxCalls = 2
  MaxMessages = 2
  MaxControls = 1
SPECIFICATION MCSpec
INVARIANTS InputsReachTheModelOnce
           NoTurnBesideChildren InOrder AnswersReachTheirQuestion
PROPERTIES QueueFollowsTheUser QueueMoves
\* The system stops when its bounds are reached.
CHECK_DEADLOCK FALSE
