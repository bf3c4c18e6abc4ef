----------------------------- MODULE MCTaskPlan -----------------------------
(* Instances of TaskPlan for TLC: siblings a and b, c that depends on both, *)
(* and a definition of b that closes a cycle with c.  A definition          *)
(* submitted without its dependency gives the unknown-name case.            *)
EXTENDS TaskPlan

CONSTANTS a, b, c

MCForkTasks == {a, b, c}
MCForkDefinitions ==
  {[id |-> a, deps |-> {}], [id |-> b, deps |-> {}],
   [id |-> c, deps |-> {a, b}], [id |-> b, deps |-> {c}]}

MCPairTasks == {a, b}
MCPairDefinitions == {[id |-> a, deps |-> {}], [id |-> b, deps |-> {a}]}

\* A bound: with the third input the process has not died and lives on.
DeathOrThirdInput == crashes' # 0 => admitted' <= 2

\* Another: no Worker's setup fails in a process that was started again.
DeathOrFault == crashes' # 0 => unset' = {}

\* What they forbid are steps of the environment, and a failure where a success is
\* possible: neither is owed.
MCTurnsSpec == Init /\ [][Next /\ DeathOrThirdInput /\ DeathOrFault]_vars /\ Fairness
=============================================================================
