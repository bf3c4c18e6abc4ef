\* The pet: three requests for two characters, two failures.
CONSTANTS
  Character = {c, d}
  NoOne = none
  First = c
  MaxRequests = 3
  MaxBreaks = 2
\* Its replies: two of up to three pieces, of which two are kept, to two
\* children; one switch, stop, death or closed bubble.
  MaxReplies = 2
  MaxPieces = 2
  Kept = 2
  PipeSize = 1
  MaxChildren = 2
  MaxUpsets = 1
\* A chat: three messages, two resets (four in all), a pause.
  MaxMessages = 3
  MaxResets = 2
  MaxHolds = 1
\* Sessions: two processes and two sessions, three writes, a death.
  Session = {s1, s2}
  Client = {p, q}
  NoSession = none
  Nobody = nobody
  MaxSaves = 3
  MaxDeaths = 1
\* Files: one below WorkDatabase and one outside, texts of two parts.
  in = in
  out = out
  File = {in, out}
  Internal = {in}
  Call = {c1, c2}
  Part = {p1, p2}
  Value = {a, b}
  NoText = notext
  MaxChanges = 3
  MaxEdits = 1
  MaxTurns = 2
SPECIFICATION MCSpec
INVARIANTS SettledAsAsked PetTellsReplies ChatKeepsItsMessages UsedSessionStays ReviewIsFaithful
SYMMETRY MCSymmetry
\* All stop when their bounds are reached.
CHECK_DEADLOCK FALSE
