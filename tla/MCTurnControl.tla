---------------------------- MODULE MCTurnControl ----------------------------
(* Up to three ordinary requests and two supplements, for TLC.  The run     *)
(* chooses among three sets of bounds (Part), each wide where one question  *)
(* needs it: all of them wide at once is out of reach.  A fourth part asks  *)
(* questions within a turn: its behaviours are those of Questions.          *)
EXTENDS TurnControl, Questions

CONSTANTS r1, r2, r3, s1, s2

MCPair == {r1, r2}
MCTrio == {r1, r2, r3}
MCOne == {s1}
MCTwo == {s1, s2}

VARIABLE part

\* The inputs and the pauses, stops, clears and crashes a part allows.
Part == [supplements |-> [inputs |-> {r1, r2, s1, s2}, most |-> <<1, 0, 0, 0>>],
         operations  |-> [inputs |-> {r1, r2, s1}, most |-> <<1, 1, 1, 0>>],
         queue       |-> [inputs |-> {r1, r2, r3}, most |-> <<2, 0, 0, 1>>]]

WithinPart ==
  LET used == ToSet(order') \cup {s \in Supplement : host'[s] # NoRequest}
      most == Part[part].most
  IN  /\ used \subseteq Part[part].inputs
      /\ count'["pause"] <= most[1] /\ count'["stop"] <= most[2]
      /\ count'["clear"] <= most[3] /\ count'["crash"] <= most[4]

\* Of two calls, the second is a child's.
MCChildAsker == {2}

MCInit ==
  /\ Init /\ QuestionsInit /\ part \in DOMAIN Part \cup {"questions"}
  /\ part # "questions" => chat.front = "tui"

MCNext ==
  \/ part # "questions" /\ Next /\ WithinPart /\ UNCHANGED <<part, questionVars>>
  \/ part = "questions" /\ QuestionsNext /\ UNCHANGED <<part, vars>>

\* What WithinPart forbids are steps of the environment, which owe nothing.
MCSpec == MCInit /\ [][MCNext]_<<vars, part, questionVars>> /\ Fairness
=============================================================================
