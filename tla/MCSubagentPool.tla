--------------------------- MODULE MCSubagentPool ---------------------------
(* Three children of one session with one place, and, side by side with     *)
(* them, lines of input beside switches of the conversation, for TLC: each  *)
(* behaviour is one of SubagentPool or of InputGate.                        *)
EXTENDS SubagentPool, InputGate

CONSTANTS h1, h2, h3, s1

MCTrio == {h1, h2, h3}
MCTrioSession == [h \in MCTrio |-> s1]
MCSession == {s1}
MCSymmetry == Permutations(MCTrio)

\* Callers are cancelled among two children; three compete without that.
CallersOfTwo ==
  (\E h \in Handle : hits[h] > 0) => Cardinality({h \in Handle : adm[h] # "none"}) <= 2

VARIABLE part

MCInit ==
  /\ Init /\ GateInit /\ part \in {"pool", "gate"}
  /\ part = "pool" => ~session.paused /\ ~session.first

\* Two lines and a command, or a line and two commands.
ThreeInputs ==
  Cardinality({l \in Line : line'[l].at # "off"})
    + Cardinality({c \in Command : command'[c].what # "none"}) <= 3

MCNext ==
  \/ part = "pool" /\ Next /\ UNCHANGED <<part, gateVars>>
  \/ part = "gate" /\ GateNext /\ ThreeInputs /\ UNCHANGED <<part, vars>>

MCSpec == MCInit /\ [][MCNext]_<<part, vars, gateVars>>
=============================================================================
