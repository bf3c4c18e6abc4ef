------------------------------ MODULE TaskPlan ------------------------------
(***************************************************************************)
(* The Manager's dependency graph of tasks and the batches of Workers that *)
(* carry it out: TaskManager (core/tasks.py), WorkerOrchestrator           *)
(* (tools/worker_tools.py) and the three plan tools of AgentSystem         *)
(* (core/system.py).  The plan is kept in memory and every checkpoint      *)
(* writes a whole snapshot of it to the session journal, so the module     *)
(* follows two copies of each task, plan and disk, and the snapshot that   *)
(* is between them while a save holds the save lock.                       *)
(*                                                                         *)
(* One child coroutine of asyncio.TaskGroup drives each dispatched task:   *)
(*   created -> startWait -> startSave -> running -> finWait -> finSave    *)
(*   -> done                                                               *)
(* xWait is "waiting for the save lock", xSave is "snapshot taken, write   *)
(* in progress".                                                           *)
(***************************************************************************)
EXTENDS Naturals, Sequences

CONSTANTS
  TaskId,        \* the task names a Manager can use
  Definitions,   \* the task definitions it can submit: [id, deps]
  MaxTurns,      \* bound: user turns
  MaxInputs,     \* bound: user inputs admitted over all turns
  MaxCrashes     \* bound: deaths of the process

ASSUME TaskPlanAssumption ==
  /\ Definitions \subseteq [id : TaskId, deps : SUBSET TaskId]
  /\ MaxTurns \in Nat
  /\ MaxInputs \in Nat
  /\ MaxCrashes \in Nat

VARIABLES
  turns,    \* user turns begun so far
  turn,     \* the current (or last) one: its turn_id
  open,     \* that turn is running
  paused,   \* SessionController.paused: it waits to be resumed
  saved,    \* metadata["paused_turn"] of the session journal
  inputs,   \* SessionController.user_inputs: the turn's admitted inputs
  admitted, \* inputs admitted so far; inputs are named 1..admitted
  up,       \* the process runs with this session loaded
  crashes,  \* how often it died
  stale,    \* history: the pause of an earlier turn was loaded
  phase,    \* what the planning lock's holder is doing
  plan,     \* TaskManager.tasks
  job,      \* where each child of the current TaskGroup is
  fate,     \* what each child does once its outcome is saved
  snap,     \* the snapshot being written, while a save holds the lock
  disk,     \* metadata["tasks"] of the session journal
  ran,      \* history: tasks whose Worker ran since they were last queued
  unset,    \* history: tasks of this plan whose Worker could not be set up
  told      \* history: the inputs a task's Worker has been given

turnVars == <<turns, turn, open, paused, saved, inputs, admitted>>
alive    == <<up, crashes, stale>>
planVars == <<phase, plan, job, fate, snap>>
history  == <<ran, unset, told>>
vars     == <<turnVars, alive, planVars, disk, history>>

Blocked == {"pending_confirmation", "cancelled", "unverified", "failed"}
Status  == {"absent", "pending", "running", "completed"} \cup Blocked
Task    == [status : Status, deps : SUBSET TaskId,
            turn : Nat, count : Nat, updates : Seq(Nat)]
Phases  == {"idle", "replaceSave", "planning", "createSave", "executing",
            "aborting", "resumeSave", "summary"}
Jobs    == {"none", "created", "startWait", "startSave", "running",
            "finWait", "finSave", "done"}
Fates   == {"return", "raise", "cancelled", "fault"}
NoPause == [turn |-> 0, inputs |-> <<>>]

TypeOK ==
  /\ turns \in Nat /\ turn \in Nat /\ admitted \in Nat /\ crashes \in Nat
  /\ open \in BOOLEAN /\ paused \in BOOLEAN /\ up \in BOOLEAN /\ stale \in BOOLEAN
  /\ saved \in [turn : Nat, inputs : Seq(Nat)]
  /\ inputs \in Seq(Nat)
  /\ phase \in Phases
  /\ plan \in [TaskId -> Task]
  /\ snap \in [TaskId -> Task]
  /\ disk \in [TaskId -> Task]
  /\ job \in [TaskId -> Jobs]
  /\ fate \in [TaskId -> Fates]
  /\ ran \subseteq TaskId /\ unset \subseteq TaskId
  /\ told \in [TaskId -> SUBSET Nat]

-----------------------------------------------------------------------------
(* Plans.                                                                  *)

Absent == [status |-> "absent", deps |-> {}, turn |-> 0, count |-> 0,
           updates |-> <<>>]
EmptyPlan == [t \in TaskId |-> Absent]
Fresh(deps) == [Absent EXCEPT !.status = "pending", !.deps = deps]

Ids(p) == {t \in TaskId : p[t].status # "absent"}

\* graphlib's TopologicalSorter.prepare: no cycle, that is, every non-empty
\* set of tasks has one that depends on none of the others.
Acyclic(p) ==
  \A S \in SUBSET Ids(p) : S # {} => \E t \in S : p[t].deps \cap S = {}

Valid(p) ==
  /\ \A t \in Ids(p) : p[t].deps \subseteq Ids(p)
  /\ Acyclic(p)

\* A submitted list is merged only if it names every task once and never
\* gives a known task another definition.
Mergeable(p, rows) ==
  /\ \A r, s \in rows : r.id = s.id => r = s
  /\ \A r \in rows : r.id \in Ids(p) => p[r.id].deps = r.deps

Merge(p, rows) ==
  [t \in TaskId |->
     IF t \notin Ids(p) /\ \E r \in rows : r.id = t
       THEN Fresh((CHOOSE r \in rows : r.id = t).deps)
       ELSE p[t]]

Ready(p) ==
  {t \in TaskId : /\ p[t].status = "pending"
                  /\ \A d \in p[t].deps : p[d].status = "completed"}

Completed(p) ==
  /\ Ids(p) # {}
  /\ \A t \in Ids(p) : p[t].status = "completed"

\* Mutant: interrupted tasks are queued again.
RestoredRequeued(p) ==
  [t \in TaskId |-> IF p[t].status = "running"
                      THEN [p[t] EXCEPT !.status = "pending"] ELSE p[t]]

\* A task found running in a loaded snapshot may have had side effects.
Restored(p) ==
  [t \in TaskId |-> IF p[t].status = "running"
                      THEN [p[t] EXCEPT !.status = "unverified"] ELSE p[t]]

\* Mutant: the cursor is taken for the position of the next input.
NewInputsLate(task) ==
  IF turn = task.turn THEN SubSeq(inputs, task.count + 2, Len(inputs))
                      ELSE inputs

\* The inputs a resumed task has not been given yet.
NewInputs(task) ==
  IF turn = task.turn THEN SubSeq(inputs, task.count + 1, Len(inputs))
                      ELSE inputs

SetStatus(t, s) == plan' = [plan EXCEPT ![t].status = s]

-----------------------------------------------------------------------------
Init ==
  /\ turns = 0 /\ turn = 0 /\ open = FALSE
  /\ paused = FALSE /\ saved = NoPause
  /\ inputs = <<>> /\ admitted = 0
  /\ up = TRUE /\ crashes = 0 /\ stale = FALSE
  /\ phase = "idle"
  /\ plan = EmptyPlan /\ snap = EmptyPlan /\ disk = EmptyPlan
  /\ job = [t \in TaskId |-> "none"]
  /\ fate = [t \in TaskId |-> "return"]
  /\ ran = {} /\ unset = {}
  /\ told = [t \in TaskId |-> {}]

(* User turns.  A paused turn holds back the queue until it is resumed     *)
(* under its own turn_id with the inputs it had; otherwise a turn starts   *)
(* with one input.  What becomes of the turn itself, and of the queue, is  *)
(* the subject of TurnControl.                                             *)
BeginTurn ==
  /\ up /\ ~open /\ ~paused /\ phase = "idle"
  /\ turns < MaxTurns /\ admitted < MaxInputs
  /\ turns' = turns + 1 /\ turn' = turns' /\ open' = TRUE
  /\ admitted' = admitted + 1
  /\ inputs' = <<admitted'>>
  /\ UNCHANGED <<paused, saved, alive, planVars, disk, history>>

\* Resuming saves the pause once more, then lets the turn go on.
ResumeTurn ==
  /\ up /\ ~open /\ phase = "idle" /\ paused
  /\ open' = TRUE /\ paused' = FALSE
  /\ saved' = [turn |-> turn, inputs |-> inputs]
  /\ UNCHANGED <<turns, turn, inputs, admitted, alive, planVars, disk, history>>

\* An urgent supplement or an answer, once recorded, joins the turn's inputs.
AddInput ==
  /\ open /\ admitted < MaxInputs
  /\ admitted' = admitted + 1
  /\ inputs' = Append(inputs, admitted')
  /\ UNCHANGED <<turns, turn, open, paused, saved, alive, planVars, disk,
                 history>>

\* A resumed turn that ends by itself clears its pause from the journal.
EndTurn ==
  /\ open /\ phase = "idle"
  /\ open' = FALSE
  /\ saved' = IF saved.turn = turn THEN NoPause ELSE saved
  /\ UNCHANGED <<turns, turn, paused, inputs, admitted, alive, planVars, disk,
                 history>>

SavePause ==
  /\ paused /\ ~open /\ phase = "idle" /\ up
  /\ saved' = [turn |-> turn, inputs |-> inputs]
  /\ UNCHANGED <<turns, turn, open, paused, inputs, admitted, alive, planVars,
                 disk, history>>

-----------------------------------------------------------------------------
(* The plan tools.  Each runs under the planning lock.                     *)

\* execute_plan(continue_from_previous = False): forget the old plan, save.
Replace ==
  /\ open /\ phase = "idle"
  /\ plan' = EmptyPlan /\ snap' = EmptyPlan
  /\ unset' = {}
  /\ phase' = "replaceSave"
  /\ UNCHANGED <<turnVars, alive, job, fate, disk, ran, told>>

\* execute_plan(continue_from_previous = True): straight to the Manager.
Continue ==
  /\ open /\ phase = "idle"
  /\ phase' = "planning"
  /\ UNCHANGED <<turnVars, alive, plan, job, fate, snap, disk, history>>

CreateTodoList(rows) ==
  /\ phase = "planning"
  /\ Mergeable(plan, rows)
  /\ Valid(Merge(plan, rows))
  /\ plan' = Merge(plan, rows)
  /\ snap' = plan'
  /\ ran' = ran \ (Ids(plan') \ Ids(plan))
  /\ told' = [t \in TaskId |-> IF t \in Ids(plan') \ Ids(plan)
                                 THEN {} ELSE told[t]]
  /\ phase' = "createSave"
  /\ UNCHANGED <<turnVars, alive, job, fate, disk, unset>>

\* resume_task: requeue one blocked task with the inputs that are new to it.
Resume(t) ==
  /\ open /\ phase = "idle"
  /\ plan[t].status \in Blocked
  /\ NewInputs(plan[t]) # <<>>
  /\ plan' = [plan EXCEPT ![t].status = "pending",
                          ![t].updates = @ \o NewInputs(plan[t])]
  /\ snap' = plan'
  /\ ran' = ran \ {t}
  /\ phase' = "resumeSave"
  /\ UNCHANGED <<turnVars, alive, job, fate, disk, unset, told>>

\* The save of a plan tool reaches the journal and the tool goes on.
PlanSaved ==
  /\ phase \in {"replaceSave", "createSave", "resumeSave"}
  /\ disk' = snap
  /\ phase' = IF phase = "resumeSave" THEN "executing" ELSE "planning"
  /\ UNCHANGED <<turnVars, alive, plan, job, fate, snap, history>>

\* The Manager's planning run ends; or fails, which ends the tool call.
EndPlanning ==
  /\ phase = "planning"
  /\ phase' \in {"executing", "idle"}
  /\ UNCHANGED <<turnVars, alive, plan, job, fate, snap, disk, history>>

-----------------------------------------------------------------------------
(* Batches: execute_all_tasks_parallel.                                    *)

AllDone == \A t \in TaskId : job[t] \in {"none", "done"}
Locked  == \/ phase \in {"replaceSave", "createSave", "resumeSave"}
           \/ \E t \in TaskId : job[t] \in {"startSave", "finSave"}

StartBatch ==
  /\ phase = "executing" /\ AllDone
  /\ Ready(plan) # {}
  /\ job' = [t \in TaskId |-> IF t \in Ready(plan) THEN "created" ELSE "none"]
  /\ fate' = [t \in TaskId |-> "return"]
  /\ UNCHANGED <<turnVars, alive, phase, plan, snap, disk, history>>

\* Mutant: the batch loop waits for the whole plan to complete.
EndBatchesCompleted ==
  /\ phase = "executing" /\ AllDone
  /\ Completed(plan)
  /\ phase' = "summary"
  /\ job' = [t \in TaskId |-> "none"]
  /\ fate' = [t \in TaskId |-> "return"]
  /\ UNCHANGED <<turnVars, alive, plan, snap, disk, history>>

EndBatches ==
  /\ phase = "executing" /\ AllDone
  /\ Ready(plan) = {}
  /\ phase' = "summary"
  /\ job' = [t \in TaskId |-> "none"]
  /\ fate' = [t \in TaskId |-> "return"]
  /\ UNCHANGED <<turnVars, alive, plan, snap, disk, history>>

Report ==
  /\ phase = "summary"
  /\ phase' = "idle"
  /\ UNCHANGED <<turnVars, alive, plan, job, fate, snap, disk, history>>

\* TaskManager.start: note the input boundary, mark the task, ask to save.
Start(t) ==
  /\ job[t] = "created"
  /\ plan' = [plan EXCEPT ![t].status = "running", ![t].turn = turn,
                          ![t].count = Len(inputs)]
  /\ job' = [job EXCEPT ![t] = "startWait"]
  /\ told' = [told EXCEPT ![t] = @ \cup {inputs[i] : i \in DOMAIN inputs}]
  /\ UNCHANGED <<turnVars, alive, phase, fate, snap, disk, ran, unset>>

\* TaskManager.save: the snapshot is taken once the save lock is held.
TakeSnapshot(t) ==
  /\ ~Locked
  /\ \/ job[t] = "startWait" /\ job' = [job EXCEPT ![t] = "startSave"]
     \/ job[t] = "finWait"   /\ job' = [job EXCEPT ![t] = "finSave"]
  /\ snap' = plan
  /\ UNCHANGED <<turnVars, alive, phase, plan, fate, disk, history>>

\* Mutant: the Worker starts without waiting for the write.
DispatchEarly(t) ==
  /\ job[t] = "startSave"
  /\ disk' \in {disk, snap}
  /\ job' = [job EXCEPT ![t] = "running"]
  /\ ran' = ran \cup {t}
  /\ UNCHANGED <<turnVars, alive, phase, plan, fate, snap, unset, told>>

\* The dispatch is durable; only now does the Worker run.
Dispatch(t) ==
  /\ job[t] = "startSave"
  /\ disk' = snap
  /\ job' = [job EXCEPT ![t] = "running"]
  /\ ran' = ran \cup {t}
  /\ UNCHANGED <<turnVars, alive, phase, plan, fate, snap, unset, told>>

\* Mutant: the report's status is stored as it is spelled in the report.
WorkerEndsRaw(t) ==
  /\ job[t] = "running"
  /\ \E s \in {"success"} \cup Blocked : SetStatus(t, s)
  /\ job' = [job EXCEPT ![t] = "finWait"]
  /\ UNCHANGED <<turnVars, alive, phase, fate, snap, disk, history>>

\* TaskManager.finish for the Worker's report, whatever its outcome.
WorkerEnds(t) ==
  /\ job[t] = "running"
  /\ \E s \in {"completed"} \cup Blocked : SetStatus(t, s)
  /\ job' = [job EXCEPT ![t] = "finWait"]
  /\ UNCHANGED <<turnVars, alive, phase, fate, snap, disk, history>>

\* A broken transport: the task is unverified and the exception is raised
\* again once that is saved.
WorkerInterrupted(t) ==
  /\ job[t] = "running"
  /\ SetStatus(t, "unverified")
  /\ fate' = [fate EXCEPT ![t] = "raise"]
  /\ job' = [job EXCEPT ![t] = "finWait"]
  /\ UNCHANGED <<turnVars, alive, phase, snap, disk, history>>

\* /cancel of one invocation cancels that child only; its siblings go on.
CancelOne(t) ==
  /\ job[t] = "running"
  /\ SetStatus(t, "cancelled")
  /\ fate' = [fate EXCEPT ![t] = "cancelled"]
  /\ job' = [job EXCEPT ![t] = "finWait"]
  /\ UNCHANGED <<turnVars, alive, phase, snap, disk, history>>

-----------------------------------------------------------------------------
(* Cancellation of the whole batch.  A child waiting for a lock gives up;  *)
(* one whose Worker was being started or was running records "cancelled"   *)
(* and asks to save that.                                                  *)

CancelledJob(j) ==
  CASE j \in {"startWait", "startSave", "running"} -> "finWait"
    [] j \in {"created", "finWait", "finSave"}     -> "done"
    [] OTHER                                       -> j

\* Mutant: a child that is still being started is not told of the cancel.
CancelChildrenRunningOnly(over) ==
  /\ job' = [t \in TaskId |-> IF t \in over THEN "done"
                              ELSE CancelledJob(job[t])]
  /\ plan' = [t \in TaskId |->
                IF t \notin over /\ job[t] = "running"
                  THEN [plan[t] EXCEPT !.status = "cancelled"] ELSE plan[t]]

CancelChildren(over) ==
  /\ job' = [t \in TaskId |-> IF t \in over THEN "done"
                              ELSE CancelledJob(job[t])]
  /\ plan' = [t \in TaskId |->
                IF t \notin over /\ job[t] \in {"startWait", "startSave", "running"}
                  THEN [plan[t] EXCEPT !.status = "cancelled"] ELSE plan[t]]

AllCancelled == [t \in TaskId |-> "cancelled"]

\* The outcome is durable.  A child that raises aborts its TaskGroup.
Saved(t) ==
  /\ job[t] = "finSave"
  /\ disk' = snap
  /\ IF fate[t] = "raise"
       THEN /\ CancelChildren({t}) /\ phase' = "aborting"
            /\ fate' = AllCancelled
       ELSE /\ job' = [job EXCEPT ![t] = "done"]
            /\ UNCHANGED <<plan, phase, fate>>
  /\ UNCHANGED <<turnVars, alive, snap, history>>

\* A cancelled owner does not wait for the storage: the write that fails is
\* dropped, or lands later with the journal's retry.
SaveLost(t) ==
  /\ job[t] = "finSave" /\ fate[t] = "cancelled"
  /\ disk' \in {disk, snap}
  /\ job' = [job EXCEPT ![t] = "done"]
  /\ UNCHANGED <<turnVars, alive, phase, plan, fate, snap, history>>

\* The save of a dispatch ends with no Worker: the journal is damaged, or an
\* error comes before _execute's own try (no model for the role, no memory).
\* It is raised again without an outcome, and the task stays as it is.
SetupFails(t) ==
  /\ job[t] = "startSave"
  /\ disk' \in {disk, snap}
  /\ unset' = unset \cup {t}
  /\ CancelChildren({t}) /\ phase' = "aborting"
  /\ fate' = [AllCancelled EXCEPT ![t] = "fault"]
  /\ UNCHANGED <<turnVars, alive, snap, ran, told>>

\* The turn fails with the exception of the aborted group.  It is paused if
\* that was a broken transport, else over.
AbortEnds ==
  /\ phase = "aborting" /\ AllDone
  /\ phase' = "idle"
  /\ job' = [t \in TaskId |-> "none"]
  /\ fate' = [t \in TaskId |-> "return"]
  /\ open' = FALSE
  /\ paused' = IF open THEN \A t \in TaskId : fate[t] # "fault" ELSE paused
  /\ saved' = IF open /\ ~paused' /\ saved.turn = turn THEN NoPause ELSE saved
  /\ UNCHANGED <<turns, turn, inputs, admitted, alive, plan, snap, disk, history>>

\* Stop or pause: every await of the turn is cancelled.  A write that has
\* started is drained; one still waiting for its turn is dropped.  A group
\* that aborts already does not cancel its children again.
StopTurn ==
  /\ open
  /\ open' = FALSE
  /\ paused' \in BOOLEAN
  /\ \/ /\ phase = "executing" /\ phase' = "aborting"
        /\ CancelChildren({}) /\ fate' = AllCancelled
     \/ phase = "aborting" /\ UNCHANGED <<phase, job, fate, plan>>
     \/ /\ phase \notin {"executing", "aborting"}
        /\ phase' = "idle"
        /\ UNCHANGED <<job, fate, plan>>
  /\ IF Locked /\ phase # "aborting" THEN disk' \in {disk, snap}
                                     ELSE UNCHANGED disk
  /\ UNCHANGED <<turns, turn, saved, inputs, admitted, alive, snap, history>>

-----------------------------------------------------------------------------
(* The process dies at any point; a write in progress may have landed.     *)
Crash ==
  /\ up
  /\ crashes < MaxCrashes
  /\ up' = FALSE /\ crashes' = crashes + 1
  /\ IF Locked THEN disk' \in {disk, snap} ELSE UNCHANGED disk
  /\ open' = FALSE /\ paused' = FALSE
  /\ phase' = "idle"
  /\ plan' = EmptyPlan /\ snap' = EmptyPlan
  /\ job' = [t \in TaskId |-> "none"]
  /\ fate' = [t \in TaskId |-> "return"]
  /\ unset' = {}
  /\ UNCHANGED <<turns, turn, saved, inputs, admitted, stale, ran, told>>

\* bind_loaded_snapshot: the repaired plan is written before it is used.
Load ==
  /\ ~up
  /\ up' = TRUE
  /\ plan' = Restored(disk)
  /\ disk' = Restored(disk)
  /\ paused' = (saved # NoPause)
  /\ turn' = saved.turn /\ inputs' = saved.inputs
  /\ stale' = (stale \/ saved.turn \notin {0, turn})
  /\ UNCHANGED <<turns, open, saved, admitted, crashes, phase, job, fate,
                 snap, history>>

-----------------------------------------------------------------------------
ChildStep(t) ==
  \/ Start(t) \/ TakeSnapshot(t) \/ Dispatch(t) \/ Saved(t) \/ SaveLost(t)
  \/ WorkerEnds(t) \/ WorkerInterrupted(t) \/ CancelOne(t) \/ SetupFails(t)

Next ==
  \/ BeginTurn \/ ResumeTurn \/ AddInput \/ EndTurn \/ SavePause
  \/ Replace \/ Continue \/ PlanSaved \/ EndPlanning
  \/ \E rows \in SUBSET Definitions : CreateTodoList(rows)
  \/ \E t \in TaskId : Resume(t)
  \/ StartBatch \/ EndBatches \/ Report
  \/ \E t \in TaskId : ChildStep(t)
  \/ AbortEnds \/ StopTurn
  \/ Crash \/ Load

Spec == Init /\ [][Next]_vars

\* Checkpoints, Workers (bounded by their usage limits) and the batch loop
\* make progress while the process lives; users and crashes owe nothing.
\* The save lock is FIFO, so a child that waits for it gets it: SF.
Fairness ==
  /\ WF_vars(PlanSaved) /\ WF_vars(StartBatch) /\ WF_vars(EndBatches)
  /\ WF_vars(AbortEnds)
  /\ \A t \in TaskId : SF_vars(ChildStep(t))

FairSpec == Spec /\ Fairness

-----------------------------------------------------------------------------
(* Properties.                                                             *)

\* No Worker runs on results that a crash could take back: while it runs,
\* the journal shows its own dispatch and the completion of everything it
\* depends on (WorkerOrchestrator._execute_task, TaskManager.start).
DependenciesDurable ==
  \A t \in TaskId : job[t] = "running" =>
    /\ disk[t].status = "running"
    /\ \A d \in plan[t].deps : disk[d].status = "completed"

\* A Worker's side effects are never repeated behind the user's back: across
\* stops, crashes and reloads a task that ran is dispatched again only after
\* resume_task or as a task of a new plan (TaskManager.restore, resume).
NoSilentRerun ==
  [][\A t \in TaskId : job[t] # "running" /\ job'[t] = "running"
                         => t \notin ran]_vars

\* Between plan tools no task is left "running", which no command could move on
\* again: it is neither ready nor blocked (WorkerOrchestrator._execute_task's
\* except branches).  One is: a task whose Worker could not be set up (README,
\* section 6), until a restart makes it unverified or another plan replaces it.
NoOrphanRunning ==
  up /\ phase \in {"idle", "planning", "summary"} =>
    {t \in TaskId : plan[t].status = "running"} \subseteq unset

\* A resumed Worker is handed every user input at most once, whatever turns
\* and pauses lie between its runs (Task.input_cursor, TaskManager.resume).
NoInputReplayed ==
  \A t \in TaskId : \A i, j \in DOMAIN plan[t].updates :
    plan[t].updates[i] = plan[t].updates[j] => i = j

\* Not satisfied by the code (README, section 6): the report's completed results
\* are saved results, as docs/design.md has plans,
\* dispatches and results saved through the session's persistence callback.
ReportedResultsSaved ==
  phase = "summary" =>
    \A t \in TaskId : plan[t].status = "completed"
                        => disk[t].status = "completed"

\* resume_task takes every input of the turn that is new to the task, as its
\* docstring has it ("using new, admitted user input").
NewInputIsTaken ==
  \A t \in TaskId : open /\ plan[t].status \in Blocked =>
    \A i \in DOMAIN inputs :
      \/ inputs[i] \in told[t]
      \/ \E j \in DOMAIN NewInputs(plan[t]) :
           NewInputs(plan[t])[j] = inputs[i]

\* A resumed Worker is handed the inputs that are new to it, all and each once.
\* Left out: a crash after which the pause of an earlier turn is loaded, or the
\* list of inputs as it was at the last pause (README, section 6).
ResumedInputsAreTheNew ==
  (~stale => NoInputReplayed) /\ (crashes = 0 => NewInputIsTaken)

\* Every batch execution comes to an end, with its summary or by an abort.
ExecutionEnds == phase = "executing" ~> phase # "executing"
=============================================================================
