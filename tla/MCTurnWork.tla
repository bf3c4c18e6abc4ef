----------------------------- MODULE MCTurnWork ------------------------------
(* What a turn has at work, checked side by side because the parts share no *)
(* state: each behaviour is one of the task plan and its batches of         *)
(* Workers, of the requests to the model, of the commands the tools run, of *)
(* their browser, of the references, or of the settings (updates or reads). *)
(* What a turn is and when it is paused or stopped is TurnControl.          *)
EXTENDS MCTaskPlan, ModelRequests, ToolProcesses, References, Settings, TLC

VARIABLE part

workVars == <<part, vars, requestVars, toolVars, referenceVars, settingVars>>

\* The parts share their model values, so that there are few permutations.
MCSymmetry == Permutations(Tool) \cup Permutations(Key)

\* The project's file and the global one exist or not, .env has one field.
Kept == {NoFile, Having([f \in Field |-> 1])}

MCInit ==
  /\ part \in {"tasks", "requests", "commands", "browser", "references", "updates", "snapshots"}
  /\ Init /\ RequestInit /\ ToolInit /\ ReferenceInit /\ SettingsInit
  /\ part # "commands" => platform = "posix"
  /\ IF part \in {"updates", "snapshots"}
     THEN files.local \in Kept /\ files.global \in Kept /\ files.env # Having([f \in Field |-> 1])
     ELSE files = [layer \in Layer |-> NoFile]

\* Updates of two processes, or what is read beside two updates of one.
OneSide ==
  IF part = "updates" THEN reading' = reading
  ELSE /\ Cardinality({w \in Writer : update'[w].at # "off"}) <= 1
       /\ changes' - byHand' <= 2

\* Two calls at a time show what one does to another.
TwoCalls == Cardinality({k \in Call : call'[k].at # "off"}) <= 2

\* So do two processes that are alive.
TwoAlive == Cardinality({<<k, p>> \in Call \X Process : p \in living'[k]}) <= 2

\* Of a change of turn, cancellations and a failure, two meet.
TwoTroubles == used'.scope + used'.hit + used'.mishap <= 2

MCNext ==
  \/ /\ part = "tasks" /\ Next /\ DeathOrFault
     /\ UNCHANGED <<part, requestVars, toolVars, referenceVars, settingVars>>
  \/ /\ part = "requests" /\ RequestNext
     /\ UNCHANGED <<part, vars, toolVars, referenceVars, settingVars>>
  \/ /\ part = "commands" /\ CommandNext /\ TwoCalls /\ TwoAlive /\ TwoTroubles
     /\ UNCHANGED <<part, vars, requestVars, referenceVars, settingVars>>
  \/ /\ part = "browser" /\ BrowserNext
     /\ UNCHANGED <<part, vars, requestVars, referenceVars, settingVars>>
  \/ /\ part = "references" /\ ReferenceNext
     /\ UNCHANGED <<part, vars, requestVars, toolVars, settingVars>>
  \/ /\ part \in {"updates", "snapshots"} /\ SettingsNext /\ OneSide
     /\ UNCHANGED <<part, vars, requestVars, toolVars, referenceVars>>

MCSpec == MCInit /\ [][MCNext]_workVars
=============================================================================
