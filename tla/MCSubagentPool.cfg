CONSTANTS
  h1 = h1
  h2 = h2
  h3 = h3
  s1 = s1
  Handle <- MCTrio
  Session <- MCSession
  SessionOf <- MCTrioSession
  Limit = 1
  MaxCancels = 2
\* Two lines and a command or a line and two commands, and a /stop.
  MaxLines = 2
  MaxCommands = 2
  MaxBreakOffs = 1
SPECIFICATION MCSpec
SYMMETRY MCSymmetry
CONSTRAINT CallersOfTwo
INVARIANTS CancelReachesChild EndedChildIsStill InputsStayInTheirConversation
\* The pool is empty, and all lines and commands are used up, in the end.
CHECK_DEADLOCK FALSE
