-------------------------- MODULE CoordinatorProofs --------------------------
(***************************************************************************)
(* Proofs about the coordinator, for every value of the constants: what    *)
(* its journal guarantees about Workers (TaskPlan), and that every request *)
(* to its model is whole (ModelRequests).                                  *)
(*                                                                         *)
(* The properties of TaskPlan are not inductive alone.  Inv follows a      *)
(* dispatch through the save lock: a task is ready when its child is       *)
(* created, so it is still so in the snapshot a later save takes, so it is *)
(* so on disk when that save ends, and only then does its Worker run.      *)
(*                                                                         *)
(* InputInv orders what Workers are handed.  Each input is newer than the  *)
(* last, and what a copy of a task was handed, in memory, in a snapshot or *)
(* in the journal, is older than what it would be handed next; the pause   *)
(* on record is the beginning of the turn, so to go back to it replays     *)
(* nothing.                                                                *)
(*                                                                         *)
(* Those of ModelRequests need RequestInv.  It says what the messages are  *)
(* at every place of a turn: each answer comes after its call and is the   *)
(* only one, each call is made once, no part is joined to nothing.  It     *)
(* also says which copies tell what: the history of a running turn, the    *)
(* disk and the candidate of /compress each tell all that is kept, but for *)
(* what was given up.  That a compression keeps this is most of the work:  *)
(* it cuts only where every call is answered.                              *)
(***************************************************************************)
EXTENDS TaskPlan, ModelRequests, SequenceTheorems, FiniteSetTheorems, FunctionTheorems, TLAPS

Dispatched == {"startWait", "startSave", "running"}

DepsDone(p, t, deps) == \A d \in deps : p[d].status = "completed"

\* Children exist only while a batch runs or aborts.
NoChildrenOutside ==
  phase \notin {"executing", "aborting"} => \A t \in TaskId : job[t] = "none"

\* A dead process runs no tool.
DownIsIdle == ~up => phase = "idle" /\ ~open

\* An aborting batch starts no Worker.
AbortingStartsNothing ==
  phase = "aborting" => \A t \in TaskId : job[t] \notin Dispatched \cup {"created"}

\* The save lock has one holder.
OneWriter ==
  \A s, t \in TaskId :
    job[s] \in {"startSave", "finSave"} /\ job[t] \in {"startSave", "finSave"}
      => s = t

\* Whatever a child is dispatched for is ready, and stays ready.
DispatchedIsReady ==
  \A t \in TaskId :
    /\ job[t] = "created" => plan[t].status = "pending"
    /\ job[t] \in Dispatched => plan[t].status = "running"
    /\ job[t] \in Dispatched \cup {"created"} => DepsDone(plan, t, plan[t].deps)

\* The snapshot in flight shows the dispatch it was taken for and every
\* Worker that already runs.
SnapshotShowsDispatches ==
  \A s, t \in TaskId :
    /\ job[s] \in {"startSave", "finSave"}
    /\ (t = s /\ job[t] = "startSave") \/ job[t] = "running"
    => snap[t].status = "running" /\ DepsDone(snap, t, plan[t].deps)

\* A task in state "running" has a child that will move it on, unless that
\* child could not set up its Worker.
RunningHasChild ==
  \A t \in TaskId : plan[t].status = "running" => job[t] \in Dispatched \/ t \in unset

\* Nothing that is queued, in any copy that may be loaded, has run before.
QueuedNeverRan ==
  \A t \in TaskId :
    /\ plan[t].status = "pending" => t \notin ran
    /\ disk[t].status = "pending" => t \notin ran
    /\ Locked /\ snap[t].status = "pending" => t \notin ran
    /\ job[t] \in {"created", "startWait", "startSave"} => t \notin ran

Inv ==
  /\ NoChildrenOutside /\ DownIsIdle /\ AbortingStartsNothing /\ OneWriter
  /\ DispatchedIsReady /\ SnapshotShowsDispatches /\ DependenciesDurable
  /\ RunningHasChild /\ QueuedNeverRan

-----------------------------------------------------------------------------
(* Type correctness.                                                       *)

\* A queued task without history is a task.
LEMMA FreshType ==
  ASSUME NEW deps \in SUBSET TaskId
  PROVE  Fresh(deps) \in Task
BY EmptySeq DEF Fresh, Absent, Task, Status, Blocked

\* The empty plan of TaskManager.reset is a plan.
LEMMA EmptyPlanType == EmptyPlan \in [TaskId -> Task]
BY EmptySeq DEF EmptyPlan, Absent, Task, Status, Blocked

\* Another status makes a task of a task.
LEMMA StatusType ==
  ASSUME NEW k \in Task, NEW s \in Status
  PROVE  [k EXCEPT !.status = s] \in Task
BY DEF Task

\* So does another input boundary.
LEMMA BoundaryType ==
  ASSUME NEW k \in Task, NEW n \in Nat, NEW c \in Nat
  PROVE  [k EXCEPT !.turn = n, !.count = c] \in Task
<1>1. [k EXCEPT !.turn = n] \in Task
  BY DEF Task
<1>2. [[k EXCEPT !.turn = n] EXCEPT !.count = c] \in Task
  BY <1>1 DEF Task
<1> QED
  BY <1>2

\* Merging submitted definitions into a plan gives a plan.
LEMMA MergeType ==
  ASSUME NEW p \in [TaskId -> Task], NEW rows \in SUBSET Definitions
  PROVE  Merge(p, rows) \in [TaskId -> Task]
<1>1. SUFFICES ASSUME NEW t \in TaskId, NEW r \in rows, r.id = t
               PROVE  Fresh((CHOOSE q \in rows : q.id = t).deps) \in Task
  BY DEF Merge
<1>2. PICK q \in rows : q = CHOOSE x \in rows : x.id = t
  BY <1>1
<1>3. q.deps \in SUBSET TaskId
  BY TaskPlanAssumption
<1> QED
  BY <1>2, <1>3, FreshType

\* What restore makes of a loaded plan is a plan.
LEMMA RestoredType ==
  ASSUME NEW p \in [TaskId -> Task]
  PROVE  Restored(p) \in [TaskId -> Task]
BY StatusType DEF Restored, Status, Blocked

\* The new inputs of a task are inputs.
LEMMA NewInputsType ==
  ASSUME NEW k \in Task, inputs \in Seq(Nat), turn \in Nat
  PROVE  NewInputs(k) \in Seq(Nat)
<1>1. k.count + 1 \in Int /\ Len(inputs) \in Int /\ k.count \in Nat
  BY LenProperties DEF Task
<1>2. \A i \in k.count + 1 .. Len(inputs) : inputs[i] \in Nat
  BY <1>1, LenProperties, ElementOfSeq
<1>3. SubSeq(inputs, k.count + 1, Len(inputs)) \in Seq(Nat)
  BY <1>1, <1>2, SubSeqProperties
<1> QED
  BY <1>3 DEF NewInputs

\* TypeOK holds in every reachable state: every handler of TaskManager,
\* WorkerOrchestrator and the plan tools keeps tasks tasks and jobs jobs.
THEOREM TypeCorrect == Spec => []TypeOK
<1>1. Init => TypeOK
  <2>1. <<>> \in Seq(Nat) /\ NoPause \in [turn : Nat, inputs : Seq(Nat)]
    BY EmptySeq DEF NoPause
  <2>2. Init => /\ job \in [TaskId -> Jobs] /\ fate \in [TaskId -> Fates]
                /\ told \in [TaskId -> SUBSET Nat] /\ ran \subseteq TaskId
                /\ unset \subseteq TaskId /\ phase \in Phases
    BY DEF Init, Phases, Jobs, Fates
  <2>3. Init => /\ turns \in Nat /\ turn \in Nat /\ admitted \in Nat
                /\ crashes \in Nat
    BY DEF Init
  <2>5. Init => open \in BOOLEAN /\ paused \in BOOLEAN /\ up \in BOOLEAN /\ stale \in BOOLEAN
    BY Zenon DEF Init
  <2>4. Init => /\ inputs \in Seq(Nat) /\ saved \in [turn : Nat, inputs : Seq(Nat)]
                /\ plan \in [TaskId -> Task] /\ snap \in [TaskId -> Task]
                /\ disk \in [TaskId -> Task]
    BY <2>1, EmptyPlanType DEF Init
  <2> QED
    BY <2>2, <2>3, <2>4, <2>5 DEF TypeOK
<1>2. TypeOK /\ [Next]_vars => TypeOK'
  <2> SUFFICES ASSUME TypeOK, [Next]_vars
               PROVE  TypeOK'
    OBVIOUS
  <2> USE DEF TypeOK, Phases, Jobs, Fates
  <2>1. CASE BeginTurn
    <3>1. <<admitted + 1>> \in Seq(Nat)
      OBVIOUS
    <3> QED
      BY <2>1, <3>1 DEF BeginTurn, alive, planVars, history
  <2>2. CASE ResumeTurn
    BY <2>2 DEF ResumeTurn, alive, planVars, history
  <2>3. CASE AddInput
    BY <2>3, AppendProperties DEF AddInput, alive, planVars, history
  <2>4. CASE EndTurn
    BY <2>4, EmptySeq DEF EndTurn, NoPause, alive, planVars, history
  <2>5. CASE SavePause
    BY <2>5 DEF SavePause, alive, planVars, history
  <2>6. CASE Replace
    BY <2>6, EmptyPlanType DEF Replace, turnVars, alive, history
  <2>7. CASE Continue
    BY <2>7 DEF Continue, turnVars, alive, history
  <2>8. CASE PlanSaved
    BY <2>8 DEF PlanSaved, turnVars, alive, history
  <2>9. CASE EndPlanning
    BY <2>9 DEF EndPlanning, turnVars, alive, history
  <2>10. ASSUME NEW rows \in SUBSET Definitions, CreateTodoList(rows)
         PROVE  TypeOK'
    <3>1. plan' \in [TaskId -> Task]
      BY <2>10, MergeType DEF CreateTodoList
    <3>2. told' \in [TaskId -> SUBSET Nat]
      BY <2>10 DEF CreateTodoList
    <3> QED
      BY <2>10, <3>1, <3>2 DEF CreateTodoList, turnVars, alive
  <2>11. ASSUME NEW t \in TaskId, Resume(t)
         PROVE  TypeOK'
    <3>1. plan[t] \in Task /\ NewInputs(plan[t]) \in Seq(Nat)
      BY NewInputsType
    <3>2. plan[t].updates \o NewInputs(plan[t]) \in Seq(Nat)
      BY <3>1, ConcatProperties DEF Task
    <3>3. plan' \in [TaskId -> Task]
      BY <2>11, <3>1, <3>2 DEF Resume, Task, Status
    <3> QED
      BY <2>11, <3>3 DEF Resume, turnVars, alive
  <2>12. CASE StartBatch
    BY <2>12 DEF StartBatch, turnVars, alive, history
  <2>13. CASE EndBatches
    BY <2>13 DEF EndBatches, turnVars, alive, history
  <2>14. CASE Report
    BY <2>14 DEF Report, turnVars, alive, history
  <2>15. ASSUME NEW t \in TaskId, Start(t)
         PROVE  TypeOK'
    <3>1. Len(inputs) \in Nat /\ "running" \in Status
      BY LenProperties DEF Status
    <3> DEFINE k == [plan[t] EXCEPT !.status = "running", !.turn = turn,
                                    !.count = Len(inputs)]
    <3>2. plan' \in [TaskId -> Task]
      <4>1. k \in Task
        BY <3>1, StatusType, BoundaryType
      <4>2. plan' = [plan EXCEPT ![t] = k]
        BY <2>15 DEF Start
      <4> QED
        BY <4>1, <4>2
    <3>3. {inputs[i] : i \in DOMAIN inputs} \subseteq Nat
      <4>1. DOMAIN inputs = 1..Len(inputs) /\ inputs \in [1..Len(inputs) -> Nat]
        BY LenProperties
      <4> QED
        BY <4>1
    <3>4. told' \in [TaskId -> SUBSET Nat]
      BY <2>15, <3>3 DEF Start
    <3> QED
      BY <2>15, <3>2, <3>4 DEF Start, turnVars, alive
  <2>16. ASSUME NEW t \in TaskId, TakeSnapshot(t)
         PROVE  TypeOK'
    BY <2>16 DEF TakeSnapshot, turnVars, alive, history
  <2>17. ASSUME NEW t \in TaskId, Dispatch(t)
         PROVE  TypeOK'
    BY <2>17 DEF Dispatch, turnVars, alive
  <2>18. ASSUME NEW t \in TaskId, NEW s \in {"completed"} \cup Blocked,
                SetStatus(t, s)
         PROVE  plan' \in [TaskId -> Task]
    <3>1. s \in Status
      BY DEF Status
    <3>2. [plan[t] EXCEPT !.status = s] \in Task
      BY <3>1, StatusType
    <3> QED
      BY <2>18, <3>2 DEF SetStatus
  <2>19. ASSUME NEW t \in TaskId, WorkerEnds(t)
         PROVE  TypeOK'
    BY <2>18, <2>19 DEF WorkerEnds, turnVars, alive, history
  <2>20. ASSUME NEW t \in TaskId, WorkerInterrupted(t)
         PROVE  TypeOK'
    BY <2>18, <2>20 DEF WorkerInterrupted, Blocked, turnVars, alive, history
  <2>21. ASSUME NEW t \in TaskId, CancelOne(t)
         PROVE  TypeOK'
    BY <2>18, <2>21 DEF CancelOne, Blocked, turnVars, alive, history
  <2>22. ASSUME NEW over, CancelChildren(over)
         PROVE  /\ job' \in [TaskId -> Jobs]
                /\ AllCancelled \in [TaskId -> Fates]
                /\ plan' \in [TaskId -> Task]
    <3>1. plan' \in [TaskId -> Task]
      BY <2>22, StatusType DEF CancelChildren, Status, Blocked
    <3> QED
      BY <2>22, <3>1 DEF CancelChildren, CancelledJob, AllCancelled
  <2>23. ASSUME NEW t \in TaskId, Saved(t)
         PROVE  TypeOK'
    BY <2>22, <2>23 DEF Saved, turnVars, alive, history
  <2>24. ASSUME NEW t \in TaskId, SaveLost(t)
         PROVE  TypeOK'
    BY <2>24 DEF SaveLost, turnVars, alive, history
  <2>30. ASSUME NEW t \in TaskId, SetupFails(t)
         PROVE  TypeOK'
    BY <2>22, <2>30 DEF SetupFails, turnVars, alive
  <2>25. CASE AbortEnds
    <3>1. saved' \in [turn : Nat, inputs : Seq(Nat)]
      BY <2>25, EmptySeq DEF AbortEnds, NoPause
    <3>2. open' \in BOOLEAN /\ paused' \in BOOLEAN
      BY <2>25, Zenon DEF AbortEnds
    <3> QED
      BY <2>25, <3>1, <3>2 DEF AbortEnds, alive, history
  <2>26. CASE StopTurn
    <3>1. CASE phase = "executing" /\ phase' = "aborting" /\ CancelChildren({})
      BY <2>22, <2>26, <3>1 DEF StopTurn, alive, history
    <3>2. CASE phase' \in {phase, "idle"} /\ UNCHANGED <<job, fate, plan>>
      BY <2>26, <3>2 DEF StopTurn, alive, history
    <3> QED
      BY <2>26, <3>1, <3>2 DEF StopTurn
  <2>27. CASE Crash
    <3>1. /\ plan' \in [TaskId -> Task] /\ snap' \in [TaskId -> Task]
          /\ disk' \in [TaskId -> Task]
      BY <2>27, EmptyPlanType DEF Crash
    <3>2. open' \in BOOLEAN /\ paused' \in BOOLEAN /\ up' \in BOOLEAN
      BY <2>27, Zenon DEF Crash
    <3> QED
      BY <2>27, <3>1, <3>2 DEF Crash, history
  <2>28. CASE Load
    BY <2>28, RestoredType DEF Load, history
  <2>29. CASE UNCHANGED vars
    BY <2>29 DEF vars, turnVars, alive, planVars, history
  <2> QED
    BY <2>1, <2>2, <2>3, <2>4, <2>5, <2>6, <2>7, <2>8, <2>9, <2>10, <2>11,
       <2>12, <2>13, <2>14, <2>15, <2>16, <2>17, <2>19, <2>20, <2>21, <2>23,
       <2>24, <2>25, <2>26, <2>27, <2>28, <2>29, <2>30
       DEF Next, ChildStep
<1> QED
  BY <1>1, <1>2, PTL DEF Spec

-----------------------------------------------------------------------------
(* What the journal guarantees.                                            *)

\* A step that moves neither tasks nor children keeps Inv.
LEMMA Undisturbed ==
  ASSUME Inv, UNCHANGED <<phase, plan, job, snap, disk, ran, unset, up>>, open' => up
  PROVE  Inv'
<1> USE DEF Inv
<1>1. NoChildrenOutside' /\ AbortingStartsNothing' /\ OneWriter'
  BY DEF NoChildrenOutside, AbortingStartsNothing, OneWriter, Dispatched
<1>2. DownIsIdle'
  BY DEF DownIsIdle
<1>3. DispatchedIsReady' /\ SnapshotShowsDispatches' /\ RunningHasChild'
  BY DEF DispatchedIsReady, SnapshotShowsDispatches, RunningHasChild,
         Dispatched, DepsDone
<1>4. DependenciesDurable' /\ QueuedNeverRan'
  BY DEF DependenciesDurable, QueuedNeverRan, Locked
<1> QED
  BY <1>1, <1>2, <1>3, <1>4

\* Outside batches only the copies of the plan matter.
LEMMA OutsideBatches ==
  ASSUME \A t \in TaskId : job'[t] = "none",
         (~up => phase = "idle" /\ ~open)',
         \A t \in TaskId : plan'[t].status = "running" => t \in unset',
         QueuedNeverRan'
  PROVE  Inv'
<1>1. NoChildrenOutside' /\ DownIsIdle' /\ AbortingStartsNothing' /\ OneWriter'
  BY DEF NoChildrenOutside, DownIsIdle, AbortingStartsNothing, OneWriter,
         Dispatched
<1>2. DispatchedIsReady' /\ SnapshotShowsDispatches' /\ DependenciesDurable'
  BY DEF DispatchedIsReady, SnapshotShowsDispatches, DependenciesDurable,
         Dispatched
<1>3. RunningHasChild'
  BY DEF RunningHasChild
<1> QED
  BY <1>1, <1>2, <1>3 DEF Inv

\* A batch that is stopped: every Worker is gone, every task it had in hand
\* is recorded as cancelled, and the lock's holder, if any, gives it up.
LEMMA ChildrenCancelled ==
  ASSUME TypeOK, Inv, NEW over \in SUBSET TaskId, CancelChildren(over),
         \A t \in over : job[t] = "finSave" \/ t \in unset', unset \subseteq unset',
         phase' = "aborting", up, UNCHANGED <<snap, ran, up>>,
         \A t \in TaskId : disk'[t] = disk[t] \/ (Locked /\ disk'[t] = snap[t])
  PROVE  Inv'
<1>1. \A t \in TaskId : job'[t] \in {"none", "finWait", "done"}
  BY DEF CancelChildren, CancelledJob, TypeOK, Jobs
<1>2. \A t \in TaskId :
        \/ plan'[t].status = plan[t].status /\ (job[t] \notin Dispatched \/ t \in unset')
        \/ plan'[t].status = "cancelled"
  BY DEF CancelChildren, TypeOK, Task, Dispatched
<1>3. NoChildrenOutside' /\ DownIsIdle' /\ AbortingStartsNothing' /\ OneWriter'
  BY <1>1 DEF NoChildrenOutside, DownIsIdle, AbortingStartsNothing, OneWriter,
              Dispatched
<1>4. DispatchedIsReady' /\ SnapshotShowsDispatches' /\ DependenciesDurable'
  BY <1>1 DEF DispatchedIsReady, SnapshotShowsDispatches, DependenciesDurable,
              Dispatched
<1>5. RunningHasChild'
  BY <1>2 DEF RunningHasChild, Inv
<1>6. QueuedNeverRan'
  <2>1. ~Locked'
    BY <1>1 DEF Locked
  <2> QED
    BY <1>1, <1>2, <2>1 DEF QueuedNeverRan, Inv
<1> QED
  BY <1>3, <1>4, <1>5, <1>6 DEF Inv

\* The dispatch of a task by its child, from the decision to the Worker.
LEMMA DispatchSteps ==
  ASSUME TypeOK, Inv, NEW t \in TaskId, Start(t) \/ TakeSnapshot(t) \/ Dispatch(t)
  PROVE  Inv'
<1> USE DEF Inv
<1>1. up /\ phase \in {"executing", "aborting"} /\ job[t] # "none"
  BY DEF Start, TakeSnapshot, Dispatch, NoChildrenOutside, DownIsIdle
<1>2. UNCHANGED <<up, phase, open, unset>>
  BY DEF Start, TakeSnapshot, Dispatch, alive, turnVars, history
<1>3. NoChildrenOutside' /\ DownIsIdle'
  BY <1>1, <1>2 DEF NoChildrenOutside, DownIsIdle
<1>4. CASE Start(t)
  <2>1. /\ job[t] = "created" /\ job' = [job EXCEPT ![t] = "startWait"]
        /\ UNCHANGED <<snap, disk, ran>>
    BY <1>4 DEF Start
  <2>2. /\ plan[t].status = "pending" /\ plan'[t].status = "running"
        /\ \A s \in TaskId : plan'[s].deps = plan[s].deps
        /\ \A s \in TaskId \ {t} : plan'[s] = plan[s]
    <3> DEFINE k == [plan[t] EXCEPT !.status = "running", !.turn = turn,
                                    !.count = Len(inputs)]
    <3>1. plan' = [plan EXCEPT ![t] = k]
      BY <1>4 DEF Start
    <3>2. plan[t] \in Task
      BY DEF TypeOK
    <3>3. k.status = "running" /\ k.deps = plan[t].deps
      BY <3>2 DEF Task
    <3>4. plan'[t] = k /\ \A s \in TaskId \ {t} : plan'[s] = plan[s]
      BY <3>1 DEF TypeOK
    <3> HIDE DEF k
    <3> QED
      BY <2>1, <3>3, <3>4 DEF DispatchedIsReady
  <2>3. AbortingStartsNothing' /\ OneWriter' /\ RunningHasChild'
    BY <1>2, <2>1, <2>2 DEF AbortingStartsNothing, OneWriter, RunningHasChild,
                            Dispatched, TypeOK
  <2>4. DispatchedIsReady'
    <3>1. \A s \in TaskId : job[s] \in Dispatched \cup {"created"} =>
            DepsDone(plan, s, plan[s].deps) /\ plan[s].deps \subseteq TaskId
      BY DEF DispatchedIsReady, TypeOK, Task
    <3>2. \A s \in TaskId : job[s] \in Dispatched \cup {"created"} =>
            DepsDone(plan', s, plan'[s].deps)
      BY <2>2, <3>1 DEF DepsDone
    <3> QED
      BY <2>1, <2>2, <3>2 DEF DispatchedIsReady, Dispatched, TypeOK
  <2>5. SnapshotShowsDispatches' /\ DependenciesDurable'
    BY <2>1, <2>2 DEF SnapshotShowsDispatches, DependenciesDurable, DepsDone,
                      TypeOK
  <2>6. QueuedNeverRan'
    <3>1. Locked' => Locked
      BY <1>2, <2>1 DEF Locked, TypeOK
    <3> QED
      BY <2>1, <2>2, <3>1 DEF QueuedNeverRan, TypeOK
  <2> QED
    BY <1>3, <2>3, <2>4, <2>5, <2>6
<1>5. CASE TakeSnapshot(t)
  <2>1. /\ snap' = plan /\ UNCHANGED <<plan, disk, ran>>
        /\ \/ job[t] = "startWait" /\ job' = [job EXCEPT ![t] = "startSave"]
           \/ job[t] = "finWait"   /\ job' = [job EXCEPT ![t] = "finSave"]
        /\ \A s \in TaskId : job[s] \notin {"startSave", "finSave"}
    BY <1>5 DEF TakeSnapshot, Locked, history
  <2>2. AbortingStartsNothing' /\ OneWriter' /\ RunningHasChild'
    BY <1>2, <2>1 DEF AbortingStartsNothing, OneWriter, RunningHasChild,
                      Dispatched, TypeOK
  <2>3. DispatchedIsReady'
    BY <2>1 DEF DispatchedIsReady, Dispatched, DepsDone, TypeOK
  <2>6. DependenciesDurable'
    BY <2>1 DEF DependenciesDurable, TypeOK
  <2>4. SnapshotShowsDispatches'
    BY <2>1 DEF SnapshotShowsDispatches, DispatchedIsReady, Dispatched,
                DepsDone, TypeOK
  <2>5. QueuedNeverRan'
    BY <2>1 DEF QueuedNeverRan, TypeOK
  <2> QED
    BY <1>3, <2>2, <2>3, <2>4, <2>5, <2>6
<1>6. CASE Dispatch(t)
  <2>1. /\ job[t] = "startSave" /\ job' = [job EXCEPT ![t] = "running"]
        /\ disk' = snap /\ ran' = ran \cup {t} /\ UNCHANGED <<plan, snap>>
    BY <1>6 DEF Dispatch
  <2>2. phase = "executing" /\ ~Locked'
    BY <1>1, <1>2, <2>1 DEF AbortingStartsNothing, Dispatched, OneWriter,
                            Locked, TypeOK
  <2>3. AbortingStartsNothing' /\ OneWriter' /\ RunningHasChild'
    BY <1>2, <2>1, <2>2 DEF AbortingStartsNothing, OneWriter, RunningHasChild,
                            Dispatched, TypeOK
  <2>4. DispatchedIsReady'
    BY <2>1 DEF DispatchedIsReady, Dispatched, DepsDone, TypeOK
  <2>5. \A s \in TaskId : job'[s] = "running" =>
          snap[s].status = "running" /\ DepsDone(snap, s, plan[s].deps)
    BY <2>1 DEF SnapshotShowsDispatches, TypeOK
  <2>6. DependenciesDurable' /\ SnapshotShowsDispatches'
    BY <2>1, <2>5 DEF DependenciesDurable, SnapshotShowsDispatches, DepsDone,
                      TypeOK
  <2>7. QueuedNeverRan'
    <3>1. plan[t].status = "running" /\ snap[t].status = "running" /\ Locked
      BY <2>1, <2>5 DEF DispatchedIsReady, Dispatched, Locked, TypeOK
    <3> QED
      BY <2>1, <2>2, <3>1 DEF QueuedNeverRan, TypeOK
  <2> QED
    BY <1>3, <2>3, <2>4, <2>6, <2>7
<1> QED
  BY <1>4, <1>5, <1>6

\* A Worker's end, however it comes, and the save of its outcome.
LEMMA OutcomeSteps ==
  ASSUME TypeOK, Inv, NEW t \in TaskId,
         \/ WorkerEnds(t) \/ WorkerInterrupted(t) \/ CancelOne(t)
         \/ SaveLost(t) \/ Saved(t) \/ SetupFails(t)
  PROVE  Inv'
<1> USE DEF Inv
<1>1. up /\ phase \in {"executing", "aborting"} /\ UNCHANGED <<up, open>>
  BY DEF WorkerEnds, WorkerInterrupted, CancelOne, SaveLost, Saved, SetupFails,
         alive, turnVars, NoChildrenOutside, DownIsIdle
<1>2. CASE WorkerEnds(t) \/ WorkerInterrupted(t) \/ CancelOne(t)
  <2>1. PICK s \in {"completed"} \cup Blocked :
          /\ job[t] = "running" /\ job' = [job EXCEPT ![t] = "finWait"]
          /\ plan' = [plan EXCEPT ![t].status = s]
          /\ UNCHANGED <<phase, snap, disk, ran, unset>>
    BY <1>2 DEF WorkerEnds, WorkerInterrupted, CancelOne, SetStatus, Blocked,
                history
  <2>2. /\ plan[t].status = "running"
        /\ plan'[t].status \notin {"pending", "running"}
        /\ \A r \in TaskId : plan'[r].deps = plan[r].deps
        /\ \A r \in TaskId \ {t} : plan'[r] = plan[r]
    <3>1. plan[t].status = "running"
      BY <2>1 DEF DispatchedIsReady, Dispatched
    <3>2. plan[t] \in Task /\ plan'[t] = [plan[t] EXCEPT !.status = s]
          /\ \A r \in TaskId \ {t} : plan'[r] = plan[r]
      BY <2>1 DEF TypeOK
    <3>3. plan'[t].status = s /\ plan'[t].deps = plan[t].deps
      BY <3>2 DEF Task
    <3>4. s \notin {"pending", "running"}
      BY DEF Blocked
    <3> QED BY <3>1, <3>2, <3>3, <3>4
  <2>3. /\ NoChildrenOutside' /\ DownIsIdle' /\ AbortingStartsNothing'
        /\ OneWriter' /\ RunningHasChild'
    BY <1>1, <2>1, <2>2
       DEF NoChildrenOutside, DownIsIdle, AbortingStartsNothing, OneWriter,
           RunningHasChild, Dispatched, TypeOK
  <2>4. DispatchedIsReady'
    <3>1. \A r \in TaskId : job[r] \in Dispatched \cup {"created"} =>
            DepsDone(plan, r, plan[r].deps) /\ plan[r].deps \subseteq TaskId
      BY DEF DispatchedIsReady, TypeOK, Task
    <3>2. \A r \in TaskId : job[r] \in Dispatched \cup {"created"} =>
            DepsDone(plan', r, plan'[r].deps)
      BY <2>2, <3>1 DEF DepsDone
    <3> QED
      BY <2>1, <2>2, <3>2 DEF DispatchedIsReady, Dispatched, TypeOK
  <2>5. SnapshotShowsDispatches' /\ DependenciesDurable'
    BY <2>1, <2>2 DEF SnapshotShowsDispatches, DependenciesDurable, DepsDone,
                      TypeOK
  <2>6. QueuedNeverRan'
    <3>1. Locked' => Locked
      BY <2>1 DEF Locked, TypeOK
    <3> QED
      BY <2>1, <2>2, <3>1 DEF QueuedNeverRan, TypeOK
  <2> QED
    BY <2>3, <2>4, <2>5, <2>6
<1>3. CASE /\ job[t] = "finSave" /\ job' = [job EXCEPT ![t] = "done"]
           /\ disk' \in {disk, snap} /\ UNCHANGED <<phase, plan, snap, ran, unset>>
  <2>1. /\ NoChildrenOutside' /\ DownIsIdle' /\ AbortingStartsNothing'
        /\ OneWriter' /\ RunningHasChild'
    BY <1>1, <1>3
       DEF NoChildrenOutside, DownIsIdle, AbortingStartsNothing, OneWriter,
           RunningHasChild, Dispatched, TypeOK
  <2>2. DispatchedIsReady'
    BY <1>3 DEF DispatchedIsReady, Dispatched, DepsDone, TypeOK
  <2>3. \A s \in TaskId : job'[s] = "running" =>
          /\ snap[s].status = "running" /\ DepsDone(snap, s, plan[s].deps)
          /\ disk[s].status = "running" /\ DepsDone(disk, s, plan[s].deps)
    BY <1>3 DEF SnapshotShowsDispatches, DependenciesDurable, DepsDone, TypeOK
  <2>4. SnapshotShowsDispatches' /\ DependenciesDurable'
    BY <1>3, <2>3 DEF SnapshotShowsDispatches, DependenciesDurable, DepsDone,
                      TypeOK
  <2>5. QueuedNeverRan'
    <3>1. Locked
      BY <1>3 DEF Locked
    <3> QED
      BY <1>3, <3>1 DEF QueuedNeverRan, TypeOK
  <2> QED
    BY <2>1, <2>2, <2>4, <2>5
<1>4. CASE /\ job[t] = "finSave" /\ disk' = snap /\ CancelChildren({t})
           /\ phase' = "aborting" /\ UNCHANGED <<snap, ran, unset>>
  <2>1. Locked
    BY <1>4 DEF Locked
  <2> QED
    BY <1>1, <1>4, <2>1, ChildrenCancelled
<1>5. CASE SetupFails(t)
  <2>1. /\ Locked /\ disk' \in {disk, snap} /\ CancelChildren({t})
        /\ unset' = unset \cup {t} /\ phase' = "aborting" /\ UNCHANGED <<snap, ran>>
    BY <1>5 DEF SetupFails, Locked
  <2> QED
    BY <1>1, <2>1, ChildrenCancelled
<1> QED
  BY <1>2, <1>3, <1>4, <1>5 DEF SaveLost, Saved, history

\* The plan tools: only the copies of the plan change.
LEMMA PlanSteps ==
  ASSUME TypeOK, Inv,
         \/ Replace \/ Continue \/ PlanSaved \/ EndPlanning \/ Report
         \/ \E rows \in SUBSET Definitions : CreateTodoList(rows)
         \/ \E t \in TaskId : Resume(t)
  PROVE  Inv'
<1> USE DEF Inv
<1>1. phase \notin {"executing", "aborting"} /\ up /\ UNCHANGED <<up, job>>
  BY DEF Replace, Continue, PlanSaved, EndPlanning, Report, CreateTodoList,
         Resume, DownIsIdle, alive
<1>2. \A t \in TaskId : job[t] = "none" /\ (plan[t].status = "running" => t \in unset)
  BY <1>1 DEF NoChildrenOutside, RunningHasChild, Dispatched
<1>3. ASSUME \A t \in TaskId : plan'[t].status = "running" => t \in unset',
             QueuedNeverRan'
      PROVE  Inv'
  <2>1. \A t \in TaskId : job'[t] = "none"
    BY <1>1, <1>2
  <2>2. (~up => phase = "idle" /\ ~open)'
    BY <1>1
  <2> QED
    BY <1>3, <2>1, <2>2, OutsideBatches
<1>4. \A t \in TaskId : job'[t] = "none"
  BY <1>1, <1>2
<1>5. CASE Continue \/ EndPlanning \/ Report
  <2>1. UNCHANGED <<plan, snap, disk, ran, unset>> /\ (Locked' => Locked)
    BY <1>4, <1>5 DEF Continue, EndPlanning, Report, Locked, history
  <2>2. QueuedNeverRan'
    BY <1>4, <2>1 DEF QueuedNeverRan
  <2> QED
    BY <1>2, <1>3, <2>1, <2>2
<1>6. CASE PlanSaved
  <2>1. disk' = snap /\ Locked /\ UNCHANGED <<plan, snap, ran, unset>> /\ ~Locked'
    BY <1>4, <1>6 DEF PlanSaved, Locked, history
  <2>2. QueuedNeverRan'
    BY <1>4, <2>1 DEF QueuedNeverRan
  <2> QED
    BY <1>2, <1>3, <2>1, <2>2
<1>7. CASE Replace
  <2>1. /\ \A t \in TaskId : /\ plan'[t].status = "absent"
                             /\ snap'[t].status = "absent"
        /\ UNCHANGED <<disk, ran>>
    BY <1>7 DEF Replace, EmptyPlan, Absent
  <2>2. QueuedNeverRan'
    BY <1>4, <2>1 DEF QueuedNeverRan
  <2> QED
    BY <1>3, <2>1, <2>2
<1>8. ASSUME NEW rows \in SUBSET Definitions, CreateTodoList(rows)
      PROVE  Inv'
  <2>1. /\ plan' = Merge(plan, rows) /\ snap' = plan' /\ UNCHANGED <<disk, unset>>
        /\ ran' = ran \ (Ids(plan') \ Ids(plan))
    BY <1>8 DEF CreateTodoList
  <2>2. \A t \in TaskId :
          plan'[t] = plan[t] \/ (t \in Ids(plan') \ Ids(plan)
                                   /\ plan'[t].status = "pending")
    BY <2>1 DEF Merge, Fresh, Absent, Ids
  <2>3. QueuedNeverRan'
    BY <1>4, <2>1, <2>2 DEF QueuedNeverRan
  <2> QED
    BY <1>2, <1>3, <2>1, <2>2, <2>3
<1>9. ASSUME NEW t \in TaskId, Resume(t)
      PROVE  Inv'
  <2>1. snap' = plan' /\ ran' = ran \ {t} /\ UNCHANGED <<disk, unset>>
    BY <1>9 DEF Resume
  <2>2. /\ plan'[t].status = "pending"
        /\ \A s \in TaskId \ {t} : plan'[s] = plan[s]
    <3>1. plan' = [plan EXCEPT ![t] = [@ EXCEPT !.status = "pending",
                     !.updates = plan[t].updates \o NewInputs(plan[t])]]
      BY <1>9 DEF Resume
    <3> QED
      BY <3>1 DEF TypeOK, Task
  <2>3. QueuedNeverRan'
    BY <1>4, <2>1, <2>2 DEF QueuedNeverRan
  <2> QED
    BY <1>2, <1>3, <2>1, <2>2, <2>3
<1> QED
  BY <1>5, <1>6, <1>7, <1>8, <1>9

\* A batch begins with ready tasks and ends, or its abort does, without one
\* that runs.
LEMMA BatchSteps ==
  ASSUME TypeOK, Inv, StartBatch \/ EndBatches \/ AbortEnds
  PROVE  Inv'
<1> USE DEF Inv
<1>1. phase \in {"executing", "aborting"} /\ AllDone
  BY DEF StartBatch, EndBatches, AbortEnds
<1>2. up /\ UNCHANGED <<up, plan, snap, disk, ran, unset>>
  BY <1>1 DEF StartBatch, EndBatches, AbortEnds, DownIsIdle, alive, history
<1>3. \A t \in TaskId : (plan[t].status = "running" => t \in unset') /\ plan'[t] = plan[t]
  BY <1>1, <1>2 DEF AllDone, RunningHasChild, Dispatched
<1>4. ~Locked
  BY <1>1 DEF AllDone, Locked
<1>5. CASE EndBatches \/ AbortEnds
  <2>1. (\A t \in TaskId : job'[t] = "none") /\ phase' \in {"summary", "idle"}
    BY <1>5 DEF EndBatches, AbortEnds
  <2>2. QueuedNeverRan'
    BY <1>2, <2>1 DEF QueuedNeverRan, Locked
  <2>3. (~up => phase = "idle" /\ ~open)'
    BY <1>2
  <2> QED
    BY <1>3, <2>1, <2>2, <2>3, OutsideBatches
<1>6. CASE StartBatch
  <2>1. /\ phase = "executing" /\ phase' = phase /\ UNCHANGED open
        /\ \A t \in TaskId : job'[t] = IF t \in Ready(plan) THEN "created"
                                                            ELSE "none"
    BY <1>6 DEF StartBatch, turnVars
  <2>2. /\ NoChildrenOutside' /\ DownIsIdle' /\ AbortingStartsNothing'
        /\ OneWriter' /\ RunningHasChild'
    BY <1>2, <1>3, <2>1 DEF NoChildrenOutside, DownIsIdle, OneWriter,
                            AbortingStartsNothing, RunningHasChild
  <2>3. DispatchedIsReady'
    BY <1>2, <2>1 DEF DispatchedIsReady, Ready, Dispatched, DepsDone
  <2>4. SnapshotShowsDispatches' /\ DependenciesDurable'
    BY <2>1 DEF SnapshotShowsDispatches, DependenciesDurable
  <2>5. QueuedNeverRan'
    <3>1. ~Locked'
      BY <2>1 DEF Locked
    <3> QED
      BY <1>2, <2>1, <3>1 DEF QueuedNeverRan, Ready
  <2> QED
    BY <2>2, <2>3, <2>4, <2>5
<1> QED
  BY <1>5, <1>6

\* A stop, a death of the process and the load that follows it.
LEMMA InterruptionSteps ==
  ASSUME TypeOK, Inv, StopTurn \/ Crash \/ Load
  PROVE  Inv'
<1> USE DEF Inv
<1>1. CASE StopTurn
  <2>1. /\ up /\ UNCHANGED <<up, snap, ran, unset>> /\ ~open'
        /\ disk' = disk \/ (Locked /\ phase # "aborting" /\ disk' = snap)
    BY <1>1 DEF StopTurn, DownIsIdle, alive, history
  <2>2. CASE phase = "executing" /\ phase' = "aborting" /\ CancelChildren({})
    BY <2>1, <2>2, ChildrenCancelled
  <2>3. CASE phase = "aborting" /\ UNCHANGED <<phase, job, plan>>
    BY <2>1, <2>3, Undisturbed
  <2>4. CASE /\ phase \notin {"executing", "aborting"} /\ phase' = "idle"
             /\ UNCHANGED <<job, plan>>
    <3>1. \A t \in TaskId : /\ job[t] = "none" /\ job'[t] = "none"
                            /\ plan'[t].status = "running" => t \in unset'
      BY <2>1, <2>4 DEF NoChildrenOutside, RunningHasChild, Dispatched
    <3>2. QueuedNeverRan'
      BY <2>1, <2>4, <3>1 DEF QueuedNeverRan, Locked
    <3>3. (~up => phase = "idle" /\ ~open)'
      BY <2>1
    <3> QED
      BY <3>1, <3>2, <3>3, OutsideBatches
  <2> QED
    BY <1>1, <2>2, <2>3, <2>4 DEF StopTurn
<1>2. CASE Crash
  <2>1. /\ \A t \in TaskId : /\ job'[t] = "none"
                             /\ plan'[t].status = "absent"
        /\ phase' = "idle" /\ open' = FALSE /\ UNCHANGED ran
        /\ disk' = disk \/ (Locked /\ disk' = snap)
    BY <1>2 DEF Crash, EmptyPlan, Absent, history
  <2>2. QueuedNeverRan'
    BY <2>1 DEF QueuedNeverRan, Locked
  <2> QED
    BY <2>1, <2>2, OutsideBatches
<1>3. CASE Load
  <2>1. /\ plan' = Restored(disk) /\ disk' = Restored(disk) /\ up'
        /\ phase = "idle" /\ UNCHANGED <<phase, job, ran>>
    BY <1>3 DEF Load, DownIsIdle, history
  <2>2. \A t \in TaskId : job'[t] = "none"
    BY <2>1 DEF NoChildrenOutside
  <2>3. \A t \in TaskId : /\ plan'[t].status # "running"
                          /\ plan'[t].status = "pending" => t \notin ran
    BY <2>1 DEF Restored, TypeOK, Task, QueuedNeverRan
  <2>4. QueuedNeverRan'
    BY <2>1, <2>2, <2>3 DEF QueuedNeverRan, Locked
  <2>5. (~up => phase = "idle" /\ ~open)'
    BY <2>1
  <2> QED
    BY <2>2, <2>3, <2>4, <2>5, OutsideBatches
<1> QED
  BY <1>1, <1>2, <1>3

\* Inv is an invariant of the specification.
THEOREM InvCorrect == Spec => []Inv
<1>1. Init => Inv
  <2> SUFFICES ASSUME Init PROVE Inv
    OBVIOUS
  <2>1. /\ up /\ phase = "idle" /\ ran = {}
        /\ \A t \in TaskId : job[t] = "none" /\ plan[t].status = "absent"
    BY DEF Init, EmptyPlan, Absent
  <2>2. NoChildrenOutside /\ DownIsIdle /\ AbortingStartsNothing /\ OneWriter
    BY <2>1 DEF NoChildrenOutside, DownIsIdle, AbortingStartsNothing, OneWriter
  <2>3. /\ DispatchedIsReady /\ SnapshotShowsDispatches /\ DependenciesDurable
        /\ RunningHasChild /\ QueuedNeverRan
    BY <2>1 DEF DispatchedIsReady, SnapshotShowsDispatches, QueuedNeverRan,
                DependenciesDurable, RunningHasChild, Dispatched
  <2> QED
    BY <2>2, <2>3 DEF Inv
<1>2. TypeOK /\ Inv /\ [Next]_vars => Inv'
  <2> SUFFICES ASSUME TypeOK, Inv, [Next]_vars PROVE Inv'
    OBVIOUS
  <2>1. CASE BeginTurn \/ ResumeTurn \/ AddInput \/ EndTurn \/ SavePause
    <3>1. UNCHANGED <<phase, plan, job, snap, disk, ran, unset, up>>
      BY <2>1 DEF BeginTurn, ResumeTurn, AddInput, EndTurn, SavePause, planVars,
                  alive, history
    <3>2. open' => up
      BY <2>1 DEF BeginTurn, ResumeTurn, AddInput, EndTurn, SavePause, Inv,
                  DownIsIdle
    <3> QED
      BY <3>1, <3>2, Undisturbed
  <2>2. CASE UNCHANGED vars
    <3>1. UNCHANGED <<phase, plan, job, snap, disk, ran, unset, up, open>>
      BY <2>2 DEF vars, turnVars, planVars, alive, history
    <3> QED
      BY <3>1, Undisturbed DEF Inv, DownIsIdle
  <2> QED
    BY <2>1, <2>2, DispatchSteps, OutcomeSteps, PlanSteps, BatchSteps,
       InterruptionSteps DEF Next, ChildStep
<1> QED
  BY <1>1, <1>2, TypeCorrect, PTL DEF Spec

\* While a Worker runs, the journal shows its dispatch and all it builds on,
\* for every plan, any number of tasks, turns and crashes.
THEOREM DependenciesDurableCorrect == Spec => []DependenciesDurable
<1>1. Inv => DependenciesDurable
  BY DEF Inv
<1> QED
  BY <1>1, InvCorrect, PTL

\* No task is ever left "running" without a child that will move it on, but for
\* those whose Worker could not be set up.
THEOREM NoOrphanRunningCorrect == Spec => []NoOrphanRunning
<1>1. Inv => NoOrphanRunning
  BY DEF Inv, NoOrphanRunning, NoChildrenOutside, RunningHasChild, Dispatched
<1> QED
  BY <1>1, InvCorrect, PTL

\* A task that ran is dispatched again only after resume_task or in a new plan.
THEOREM NoSilentRerunCorrect == Spec => NoSilentRerun
<1> DEFINE FirstRun ==
      \A t \in TaskId : job[t] # "running" /\ job'[t] = "running" => t \notin ran
<1>1. TypeOK /\ Inv /\ [Next]_vars => [FirstRun]_vars
  <2> SUFFICES ASSUME TypeOK, Inv, Next, NEW t \in TaskId,
                      job[t] # "running", job'[t] = "running"
               PROVE  t \notin ran
    BY DEF vars
  <2>1. CASE BeginTurn \/ ResumeTurn \/ AddInput \/ EndTurn \/ SavePause
    BY <2>1 DEF BeginTurn, ResumeTurn, AddInput, EndTurn, SavePause, planVars
  <2>2. CASE \/ Replace \/ Continue \/ PlanSaved \/ EndPlanning \/ Report
             \/ \E rows \in SUBSET Definitions : CreateTodoList(rows)
             \/ \E s \in TaskId : Resume(s)
    BY <2>2 DEF Replace, Continue, PlanSaved, EndPlanning, Report,
                CreateTodoList, Resume
  <2>3. CASE StartBatch \/ EndBatches \/ AbortEnds \/ Crash \/ Load
    BY <2>3 DEF StartBatch, EndBatches, AbortEnds, Crash, Load
  <2>4. ASSUME NEW over, CancelChildren(over)
        PROVE  job'[t] # "running"
    BY <2>4 DEF CancelChildren, CancelledJob, TypeOK, Jobs
  <2>5. CASE StopTurn
    BY <2>4, <2>5 DEF StopTurn
  <2>6. ASSUME NEW s \in TaskId, ChildStep(s)
        PROVE  s = t /\ job[t] = "startSave"
    <3>1. CASE Saved(s) \/ SetupFails(s)
      BY <2>4, <3>1 DEF Saved, SetupFails, TypeOK
    <3>2. CASE ~(Saved(s) \/ SetupFails(s))
      BY <2>6, <3>2 DEF ChildStep, Start, TakeSnapshot, Dispatch, SaveLost,
                        WorkerEnds, WorkerInterrupted, CancelOne, TypeOK
    <3> QED
      BY <3>1, <3>2
  <2>7. job[t] = "startSave" => t \notin ran
    BY DEF Inv, QueuedNeverRan
  <2> QED
    BY <2>1, <2>2, <2>3, <2>5, <2>6, <2>7 DEF Next
<1>2. NoSilentRerun <=> [][FirstRun]_vars
  BY DEF NoSilentRerun
<1> HIDE DEF FirstRun
<1> QED
  BY <1>1, <1>2, TypeCorrect, InvCorrect, PTL DEF Spec

-----------------------------------------------------------------------------
(* What a resumed Worker is handed.                                        *)

\* In the order they were admitted.
Increasing(s) == \A i, j \in DOMAIN s : i < j => s[i] < s[j]

\* The tasks in memory, in the snapshot being written and in the journal.
Copies == {plan[t] : t \in TaskId} \cup {snap[t] : t \in TaskId} \cup {disk[t] : t \in TaskId}

\* A turn that runs or waits has a number, which is not one still to come.
TurnsAreNumbered ==
  /\ turn <= turns /\ saved.turn <= turns /\ \A k \in Copies : k.turn <= turns
  /\ (open \/ paused) => turn # 0
  /\ saved.turn = 0 => saved.inputs = <<>>

\* What a task was handed is older than what it would be handed next; once it
\* is queued again, that is for its start to say.
HandedBefore(k) ==
  /\ Increasing(k.updates) /\ \A i \in DOMAIN k.updates : k.updates[i] <= admitted
  /\ k.status # "pending" =>
       \A i \in DOMAIN k.updates, j \in DOMAIN inputs :
         (k.turn = turn => j > k.count) => k.updates[i] < inputs[j]

\* What is on record of the turn is the beginning of what it has now.
PauseIsBeginning ==
  saved.turn = turn =>
    /\ Len(saved.inputs) <= Len(inputs)
    /\ \A i \in DOMAIN saved.inputs : saved.inputs[i] = inputs[i]

HandedInOrder ==
  /\ Increasing(inputs) /\ \A i \in DOMAIN inputs : inputs[i] <= admitted
  /\ PauseIsBeginning /\ \A k \in Copies : HandedBefore(k)

\* The inputs up to a task's boundary, which is no later than now, were told to it.
BoundaryIsTold ==
  /\ up
  /\ \A t \in TaskId : plan[t].turn = turn =>
       /\ plan[t].count <= Len(inputs)
       /\ \A i \in DOMAIN inputs : i <= plan[t].count => inputs[i] \in told[t]

InputInv ==
  /\ TurnsAreNumbered
  /\ ~stale => HandedInOrder
  /\ crashes = 0 => BoundaryIsTold

\* What is in the copies.
LEMMA CopiesAre ==
  ASSUME TypeOK
  PROVE  /\ Copies \subseteq Task
         /\ \A t \in TaskId : plan[t] \in Copies /\ snap[t] \in Copies /\ disk[t] \in Copies
         /\ \A k \in Copies' : \E t \in TaskId : k \in {plan'[t], snap'[t], disk'[t]}
BY DEF TypeOK, Copies

\* Types of a task.
LEMMA TaskFields ==
  ASSUME NEW k \in Task
  PROVE  /\ k.status \in Status /\ k.deps \subseteq TaskId /\ k.turn \in Nat /\ k.count \in Nat
         /\ k.updates \in Seq(Nat) /\ DOMAIN k.updates = 1..Len(k.updates) /\ Len(k.updates) \in Nat
         /\ \A i \in DOMAIN k.updates : k.updates[i] \in Nat
<1>1. /\ k.status \in Status /\ k.deps \subseteq TaskId /\ k.turn \in Nat /\ k.count \in Nat
      /\ k.updates \in Seq(Nat)
  BY DEF Task
<1> QED BY <1>1, LenProperties, ElementOfSeq

\* The turn's inputs.
LEMMA InputsAre ==
  ASSUME TypeOK
  PROVE  /\ inputs \in Seq(Nat) /\ DOMAIN inputs = 1..Len(inputs) /\ Len(inputs) \in Nat
         /\ \A i \in DOMAIN inputs : inputs[i] \in Nat
         /\ saved.inputs \in Seq(Nat) /\ DOMAIN saved.inputs = 1..Len(saved.inputs)
         /\ Len(saved.inputs) \in Nat /\ turn \in Nat /\ turns \in Nat /\ admitted \in Nat
         /\ saved.turn \in Nat
<1>1. /\ inputs \in Seq(Nat) /\ turn \in Nat /\ turns \in Nat /\ admitted \in Nat
      /\ saved.turn \in Nat /\ saved.inputs \in Seq(Nat)
  BY DEF TypeOK
<1> QED BY <1>1, LenProperties, ElementOfSeq

\* A pause with no more inputs than the turn has.
LEMMA PauseWithin ==
  ASSUME TypeOK, Len(saved.inputs) <= Len(inputs)
  PROVE  DOMAIN saved.inputs \subseteq DOMAIN inputs
<1> DEFINE m == Len(saved.inputs)
           n == Len(inputs)
<1>1. m \in Nat /\ n \in Nat /\ DOMAIN saved.inputs = 1..m /\ DOMAIN inputs = 1..n
  BY InputsAre
<1>2. m <= n
  OBVIOUS
<1> HIDE DEF m, n
<1>3. 1..m \subseteq 1..n
  BY <1>1, <1>2
<1> QED BY <1>1, <1>3

\* A task without history was handed nothing.
LEMMA NothingHanded ==
  ASSUME TypeOK, NEW k, k = Absent \/ \E deps : k = Fresh(deps)
  PROVE  k.turn = 0 /\ k.count = 0 /\ k.turn <= turns /\ HandedBefore(k)
<1>1. k.turn = 0 /\ k.count = 0 /\ k.updates = <<>>
  <2>1. CASE k = Absent
    BY <2>1 DEF Absent
  <2>2. ASSUME NEW deps, k = Fresh(deps)
        PROVE  k.turn = 0 /\ k.count = 0 /\ k.updates = <<>>
    BY <2>2 DEF Fresh, Absent
  <2> QED BY <2>1, <2>2
<1>2. DOMAIN <<>> = {}
  OBVIOUS
<1> QED BY <1>1, <1>2, InputsAre DEF HandedBefore, Increasing

\* Another status than "pending", or the same, changes nothing in that.
LEMMA StatusHanded ==
  ASSUME NEW k \in Task, NEW s, k.status # "pending" \/ s = "pending" \/ s = k.status, HandedBefore(k),
         NEW m, m = [k EXCEPT !.status = s]
  PROVE  HandedBefore(m) /\ m.turn = k.turn /\ m.count = k.count
<1>1. m.turn = k.turn /\ m.count = k.count /\ m.updates = k.updates /\ m.status = s
  BY DEF Task
<1> QED BY <1>1 DEF HandedBefore

\* A step that leaves the turn's inputs alone and puts only what was handed in
\* order into the copies.
LEMMA PlanStepKeeps ==
  ASSUME TypeOK, InputInv,
         UNCHANGED <<turns, turn, saved, inputs, admitted, stale>>,
         open' \/ paused' => open \/ paused,
         \A k \in Copies' : k \in Copies \/ (k.turn <= turns /\ (~stale => HandedBefore(k))),
         crashes' = 0 =>
           /\ up' /\ crashes = 0
           /\ \A t \in TaskId :
                \/ plan'[t].count = 0
                \/ plan'[t].count <= Len(inputs) /\ \A i \in DOMAIN inputs : inputs[i] \in told'[t]
                \/ plan'[t].turn = plan[t].turn /\ plan'[t].count = plan[t].count /\ told[t] \subseteq told'[t]
  PROVE  InputInv'
<1>1. TurnsAreNumbered'
  BY DEF InputInv, TurnsAreNumbered
<1>2. ASSUME ~stale' PROVE HandedInOrder'
  <2>1. HandedInOrder
    BY <1>2 DEF InputInv
  <2>2. \A k \in Copies' : HandedBefore(k)
    BY <1>2, <2>1 DEF HandedInOrder
  <2>3. \A k \in Copies' : HandedBefore(k)'
    BY <2>2 DEF HandedBefore
  <2> QED BY <2>1, <2>3 DEF HandedInOrder, PauseIsBeginning
<1>3. ASSUME crashes' = 0 PROVE BoundaryIsTold'
  <2>1. BoundaryIsTold
    BY <1>3 DEF InputInv
  <2>2. SUFFICES ASSUME NEW t \in TaskId, plan'[t].turn = turn
                 PROVE  /\ plan'[t].count <= Len(inputs)
                        /\ \A i \in DOMAIN inputs : i <= plan'[t].count => inputs[i] \in told'[t]
    BY <1>3 DEF BoundaryIsTold
  <2>3. Len(inputs) \in Nat /\ \A i \in DOMAIN inputs : i \in Nat /\ i # 0
    BY InputsAre
  <2>4. CASE plan'[t].count = 0
    BY <2>3, <2>4
  <2>5. CASE plan'[t].count # 0
    BY <1>3, <2>1, <2>2, <2>5 DEF BoundaryIsTold
  <2> QED BY <2>4, <2>5
<1> QED BY <1>1, <1>2, <1>3 DEF InputInv

\* Steps of the turn.
LEMMA TurnStepKeeps ==
  ASSUME TypeOK, Inv, InputInv, BeginTurn \/ ResumeTurn \/ AddInput \/ EndTurn \/ SavePause \/ AbortEnds
  PROVE  InputInv'
<1>0. Copies' = Copies /\ stale' = stale /\ up' = up /\ crashes' = crashes /\ plan' = plan /\ told' = told
  <2>1. UNCHANGED <<plan, snap, disk, stale, up, crashes, told>>
    BY DEF BeginTurn, ResumeTurn, AddInput, EndTurn, SavePause, AbortEnds, planVars, alive, history
  <2> QED BY <2>1 DEF Copies
<1>1. CASE ResumeTurn \/ SavePause
  <2>1. /\ UNCHANGED <<turns, turn, inputs, admitted>> /\ saved' = [turn |-> turn, inputs |-> inputs]
        /\ paused /\ (open' \/ paused')
    BY <1>1 DEF ResumeTurn, SavePause
  <2>2. saved'.turn = turn /\ saved'.inputs = inputs /\ turn # 0
    BY <2>1 DEF InputInv, TurnsAreNumbered
  <2>3. TurnsAreNumbered'
    BY <1>0, <2>1, <2>2 DEF InputInv, TurnsAreNumbered
  <2>4. \A k : HandedBefore(k) => HandedBefore(k)'
    BY <2>1 DEF HandedBefore
  <2>5. HandedInOrder => HandedInOrder'
    BY <1>0, <2>1, <2>2, <2>4, InputsAre DEF HandedInOrder, PauseIsBeginning
  <2>6. BoundaryIsTold => BoundaryIsTold'
    BY <1>0, <2>1 DEF BoundaryIsTold
  <2> QED BY <1>0, <2>3, <2>5, <2>6 DEF InputInv
<1>2. CASE EndTurn \/ AbortEnds
  <2>1. /\ UNCHANGED <<turns, turn, inputs, admitted>> /\ saved' \in {saved, NoPause}
        /\ ~open' /\ (paused' => open \/ paused)
    BY <1>2 DEF EndTurn, AbortEnds
  <2>2. NoPause.turn = 0 /\ NoPause.inputs = <<>> /\ Len(NoPause.inputs) = 0
    BY DEF NoPause
  <2>3. TurnsAreNumbered'
    BY <1>0, <2>1, <2>2, InputsAre DEF InputInv, TurnsAreNumbered
  <2>4. \A k : HandedBefore(k) => HandedBefore(k)'
    BY <2>1 DEF HandedBefore
  <2>5. HandedInOrder => HandedInOrder'
    BY <1>0, <2>1, <2>2, <2>4, InputsAre DEF HandedInOrder, PauseIsBeginning
  <2>6. BoundaryIsTold => BoundaryIsTold'
    BY <1>0, <2>1 DEF BoundaryIsTold
  <2> QED BY <1>0, <2>3, <2>5, <2>6 DEF InputInv
<1>3. CASE BeginTurn
  <2>1. /\ turns' = turns + 1 /\ turn' = turns + 1 /\ saved' = saved /\ admitted' = admitted + 1
        /\ inputs' = <<admitted + 1>>
    BY <1>3 DEF BeginTurn
  <2>2. inputs'[1] = admitted + 1 /\ DOMAIN inputs' = {1}
    BY <2>1
  <2>3. \A k \in Copies : k.turn \in Nat /\ k.turn <= turns
    BY CopiesAre, TaskFields DEF InputInv, TurnsAreNumbered
  <2>4. TurnsAreNumbered'
    BY <1>0, <2>1, <2>3, InputsAre DEF InputInv, TurnsAreNumbered
  <2>5. ASSUME HandedInOrder PROVE HandedInOrder'
    <3>1. ASSUME NEW k \in Copies PROVE HandedBefore(k)'
      <4>1. HandedBefore(k) /\ \A i \in DOMAIN k.updates : k.updates[i] \in Nat
        BY <2>5, <3>1, CopiesAre, TaskFields DEF HandedInOrder
      <4>2. \A i \in DOMAIN k.updates : k.updates[i] <= admitted + 1 /\ k.updates[i] < admitted + 1
        BY <4>1, InputsAre DEF HandedBefore
      <4> QED BY <2>1, <2>2, <4>1, <4>2 DEF HandedBefore
    <3>2. Increasing(inputs)' /\ \A i \in DOMAIN inputs' : inputs'[i] <= admitted'
      BY <2>1, <2>2, InputsAre DEF Increasing
    <3>3. PauseIsBeginning'
      BY <2>1, InputsAre DEF PauseIsBeginning, InputInv, TurnsAreNumbered
    <3> QED BY <1>0, <3>1, <3>2, <3>3 DEF HandedInOrder
  <2>6. BoundaryIsTold => BoundaryIsTold'
    <3>1. \A t \in TaskId : plan[t].turn # turns + 1
      BY <2>3, CopiesAre, InputsAre
    <3> QED BY <1>0, <2>1, <3>1 DEF BoundaryIsTold
  <2> QED BY <1>0, <2>4, <2>5, <2>6 DEF InputInv
<1>4. CASE AddInput
  <2>1. /\ UNCHANGED <<turns, turn, saved, open, paused>> /\ admitted' = admitted + 1
        /\ inputs' = Append(inputs, admitted + 1)
    BY <1>4 DEF AddInput
  <2>2. /\ DOMAIN inputs' = 1..(Len(inputs) + 1) /\ Len(inputs') = Len(inputs) + 1
        /\ inputs'[Len(inputs) + 1] = admitted + 1
        /\ \A i \in DOMAIN inputs : inputs'[i] = inputs[i]
    BY <2>1, InputsAre, AppendProperties, LenProperties
  <2>3. \A i \in DOMAIN inputs' : i \in DOMAIN inputs \/ i = Len(inputs) + 1
    BY <2>2, InputsAre
  <2>4. TurnsAreNumbered'
    BY <1>0, <2>1 DEF InputInv, TurnsAreNumbered
  <2>5. ASSUME HandedInOrder PROVE HandedInOrder'
    <3>1. ASSUME NEW k \in Copies PROVE HandedBefore(k)'
      <4>1. HandedBefore(k) /\ (\A i \in DOMAIN k.updates : k.updates[i] \in Nat)
        BY <2>5, <3>1, CopiesAre, TaskFields DEF HandedInOrder
      <4>2. \A i \in DOMAIN k.updates : k.updates[i] <= admitted + 1 /\ k.updates[i] < admitted + 1
        BY <4>1, InputsAre DEF HandedBefore
      <4>3. ASSUME NEW i \in DOMAIN k.updates, NEW j \in DOMAIN inputs', k.status # "pending",
                   k.turn = turn => j > k.count
            PROVE  k.updates[i] < inputs'[j]
        <5>1. CASE j \in DOMAIN inputs
          BY <2>2, <4>1, <4>3, <5>1 DEF HandedBefore
        <5>2. CASE j = Len(inputs) + 1
          BY <2>2, <4>2, <5>2
        <5> QED BY <2>3, <5>1, <5>2
      <4> QED BY <2>1, <4>1, <4>2, <4>3 DEF HandedBefore
    <3>2. \A i \in DOMAIN inputs : inputs[i] <= admitted /\ inputs[i] \in Nat /\ inputs[i] < admitted + 1
      BY <2>5, InputsAre DEF HandedInOrder
    <3>3. Increasing(inputs)'
      <4>1. SUFFICES ASSUME NEW i \in DOMAIN inputs', NEW j \in DOMAIN inputs', i < j
                     PROVE  inputs'[i] < inputs'[j]
        BY DEF Increasing
      <4>2. i \in DOMAIN inputs
        BY <2>2, <4>1, InputsAre
      <4>3. CASE j \in DOMAIN inputs
        BY <2>2, <2>5, <4>1, <4>2, <4>3 DEF HandedInOrder, Increasing
      <4>4. CASE j = Len(inputs) + 1
        BY <2>2, <3>2, <4>2, <4>4
      <4> QED BY <2>3, <4>3, <4>4
    <3>4. \A i \in DOMAIN inputs' : inputs'[i] <= admitted'
      <4>1. SUFFICES ASSUME NEW i \in DOMAIN inputs' PROVE inputs'[i] <= admitted + 1
        BY <2>1
      <4>2. CASE i \in DOMAIN inputs
        BY <2>2, <3>2, <4>2, InputsAre
      <4>3. CASE i = Len(inputs) + 1
        BY <2>2, <4>3, InputsAre
      <4> QED BY <2>3, <4>2, <4>3
    <3>5. PauseIsBeginning'
      <4>1. SUFFICES ASSUME saved.turn = turn
                     PROVE  /\ Len(saved.inputs) <= Len(inputs')
                            /\ \A i \in DOMAIN saved.inputs : saved.inputs[i] = inputs'[i]
        BY <2>1 DEF PauseIsBeginning
      <4>2. Len(saved.inputs) <= Len(inputs) /\ \A i \in DOMAIN saved.inputs : saved.inputs[i] = inputs[i]
        BY <2>5, <4>1 DEF HandedInOrder, PauseIsBeginning
      <4>3. \A i \in DOMAIN saved.inputs : i \in DOMAIN inputs
        BY <4>2, PauseWithin
      <4> QED BY <2>2, <4>2, <4>3, InputsAre
    <3> QED BY <1>0, <3>1, <3>3, <3>4, <3>5 DEF HandedInOrder
  <2>6. ASSUME BoundaryIsTold, crashes = 0 PROVE BoundaryIsTold'
    <3>1. SUFFICES ASSUME NEW t \in TaskId, plan[t].turn = turn
                   PROVE  /\ plan[t].count <= Len(inputs')
                          /\ \A i \in DOMAIN inputs' : i <= plan[t].count => inputs'[i] \in told[t]
      BY <1>0, <2>1, <2>6 DEF BoundaryIsTold
    <3>2. plan[t].count <= Len(inputs) /\ plan[t].count \in Nat
      BY <2>6, <3>1, CopiesAre, TaskFields DEF BoundaryIsTold
    <3>3. \A i \in DOMAIN inputs' : i <= plan[t].count => i \in DOMAIN inputs
      BY <2>2, <3>2, InputsAre
    <3> QED BY <2>2, <2>6, <3>1, <3>2, <3>3, InputsAre DEF BoundaryIsTold
  <2> QED BY <1>0, <2>4, <2>5, <2>6 DEF InputInv
<1> QED BY <1>1, <1>2, <1>3, <1>4

\* The plan tools, the batch loop and the writes: what they put into a copy is
\* in another one, or new.
LEMMA CopyStepKeeps ==
  ASSUME TypeOK, Inv, InputInv,
         \/ Replace \/ Continue \/ PlanSaved \/ EndPlanning
         \/ StartBatch \/ EndBatches \/ Report \/ Crash \/ UNCHANGED vars
         \/ \E rows \in SUBSET Definitions : CreateTodoList(rows)
         \/ \E t \in TaskId : TakeSnapshot(t) \/ Dispatch(t) \/ SaveLost(t)
  PROVE  InputInv'
<1>1. /\ UNCHANGED <<turns, turn, saved, inputs, admitted, stale>>
      /\ open' \/ paused' => open \/ paused
  BY DEF Replace, Continue, PlanSaved, EndPlanning, StartBatch, EndBatches, Report, Crash,
         CreateTodoList, TakeSnapshot, Dispatch, SaveLost, vars, turnVars, alive
<1>2. crashes \in Nat /\ (crashes = 0 => up)
  BY DEF TypeOK, InputInv, BoundaryIsTold
<1>3. CASE \/ Continue \/ PlanSaved \/ EndPlanning \/ StartBatch \/ EndBatches \/ Report
           \/ UNCHANGED vars \/ \E t \in TaskId : TakeSnapshot(t) \/ Dispatch(t) \/ SaveLost(t)
  <2>1. /\ plan' = plan /\ snap' \in {snap, plan} /\ disk' \in {disk, snap}
        /\ told' = told /\ up' = up /\ crashes' = crashes
    BY <1>3 DEF Continue, PlanSaved, EndPlanning, StartBatch, EndBatches, Report,
         TakeSnapshot, Dispatch, SaveLost, vars, planVars, alive, history
  <2>2. \A k \in Copies' : k \in Copies
    BY <2>1, CopiesAre
  <2> QED BY <1>1, <1>2, <2>1, <2>2, PlanStepKeeps
<1>4. CASE Replace \/ Crash
  <2>1. /\ plan' = EmptyPlan /\ snap' = EmptyPlan /\ \A t \in TaskId : disk'[t] \in {disk[t], snap[t]}
        /\ told' = told /\ (crashes' = 0 => up' = up /\ crashes = 0)
    BY <1>2, <1>4 DEF Replace, Crash, alive, history
  <2>2. \A t \in TaskId : plan'[t] = Absent /\ snap'[t] = Absent
    BY <2>1 DEF EmptyPlan
  <2>3. Absent.turn <= turns /\ HandedBefore(Absent) /\ Absent.count = 0
    BY NothingHanded
  <2>4. \A k \in Copies' : k \in Copies \/ k = Absent
    BY <2>1, <2>2, CopiesAre
  <2>5. \A t \in TaskId : plan'[t].count = 0
    BY <2>2, <2>3
  <2>6. \A k \in Copies' : k \in Copies \/ (k.turn <= turns /\ (~stale => HandedBefore(k)))
    BY <2>3, <2>4
  <2> HIDE DEF Absent
  <2> QED BY <1>1, <1>2, <2>1, <2>5, <2>6, PlanStepKeeps
<1>5. ASSUME NEW rows \in SUBSET Definitions, CreateTodoList(rows)
      PROVE  InputInv'
  <2>1. /\ plan' = Merge(plan, rows) /\ snap' = plan' /\ disk' = disk /\ up' = up /\ crashes' = crashes
        /\ told' = [t \in TaskId |-> IF t \in Ids(plan') \ Ids(plan) THEN {} ELSE told[t]]
    BY <1>5 DEF CreateTodoList, alive
  <2>2. \A t \in TaskId : (plan'[t] = plan[t] /\ told'[t] = told[t]) \/ \E deps : plan'[t] = Fresh(deps)
    BY <2>1 DEF Merge, Ids
  <2>3. \A k : (\E deps : k = Fresh(deps)) => k.turn <= turns /\ HandedBefore(k) /\ k.count = 0
    BY NothingHanded
  <2>4. \A k \in Copies' : k \in Copies \/ (k.turn <= turns /\ (~stale => HandedBefore(k)))
    BY <2>1, <2>2, <2>3, CopiesAre
  <2>5. \A t \in TaskId : \/ plan'[t].count = 0
                          \/ plan'[t].turn = plan[t].turn /\ plan'[t].count = plan[t].count /\ told[t] \subseteq told'[t]
    BY <2>2, <2>3
  <2> QED BY <1>1, <1>2, <2>1, <2>4, <2>5, PlanStepKeeps
<1> QED BY <1>3, <1>4, <1>5

\* One task has another status, which is not "pending".
LEMMA OutcomeKeeps ==
  ASSUME TypeOK, InputInv, UNCHANGED <<turns, turn, saved, inputs, admitted, alive, snap, told>>,
         open' \/ paused' => open \/ paused,
         \A t \in TaskId : disk'[t] \in {disk[t], snap[t]},
         \A t \in TaskId : \/ plan'[t] = plan[t]
                           \/ /\ plan[t].status # "pending"
                              /\ \E s \in Status : plan'[t] = [plan[t] EXCEPT !.status = s]
  PROVE  InputInv'
<1>1. \A t \in TaskId : plan[t] \in Task /\ plan[t] \in Copies
  BY CopiesAre
<1>2. \A t \in TaskId :
        /\ plan'[t].turn = plan[t].turn /\ plan'[t].count = plan[t].count
        /\ ~stale => HandedBefore(plan'[t])
  <2>1. SUFFICES ASSUME NEW t \in TaskId
                 PROVE  /\ plan'[t].turn = plan[t].turn /\ plan'[t].count = plan[t].count
                        /\ ~stale => HandedBefore(plan'[t])
    OBVIOUS
  <2>2. ~stale => HandedBefore(plan[t])
    BY <1>1 DEF InputInv, HandedInOrder
  <2>3. CASE plan'[t] = plan[t]
    BY <2>2, <2>3
  <2>4. ASSUME NEW s \in Status, plan[t].status # "pending", plan'[t] = [plan[t] EXCEPT !.status = s]
        PROVE  /\ plan'[t].turn = plan[t].turn /\ plan'[t].count = plan[t].count
               /\ ~stale => HandedBefore(plan'[t])
    <3>1. plan'[t].turn = plan[t].turn /\ plan'[t].count = plan[t].count
      BY <1>1, <2>4 DEF Task
    <3>2. ASSUME HandedBefore(plan[t]) PROVE HandedBefore(plan'[t])
      BY <1>1, <2>4, <3>2, StatusHanded
    <3> QED BY <2>2, <3>1, <3>2
  <2> QED BY <2>3, <2>4
<1>3. \A k \in Copies' : k \in Copies \/ (k.turn <= turns /\ (~stale => HandedBefore(k)))
  <2>1. \A t \in TaskId : plan'[t].turn <= turns
    BY <1>1, <1>2 DEF InputInv, TurnsAreNumbered
  <2> QED BY <1>2, <2>1, CopiesAre
<1>4. up' = up /\ crashes' = crashes /\ stale' = stale
  BY DEF alive
<1> QED BY <1>2, <1>3, <1>4, PlanStepKeeps DEF InputInv, BoundaryIsTold

\* A Worker's end, a cancellation, a stop.
LEMMA OutcomeStepKeeps ==
  ASSUME TypeOK, Inv, InputInv,
         \/ \E t \in TaskId : WorkerEnds(t) \/ WorkerInterrupted(t) \/ CancelOne(t) \/ Saved(t) \/ SetupFails(t)
         \/ StopTurn
  PROVE  InputInv'
<1>1. /\ UNCHANGED <<turns, turn, saved, inputs, admitted, alive, snap, told>>
      /\ open' \/ paused' => open \/ paused
      /\ \A t \in TaskId : disk'[t] \in {disk[t], snap[t]}
  <2>1. CASE StopTurn
    <3>1. disk' \in {disk, snap}
      BY <2>1 DEF StopTurn
    <3> QED BY <2>1, <3>1 DEF StopTurn, history
  <2>2. CASE ~StopTurn
    <3>1. disk' \in {disk, snap}
      BY <2>2 DEF WorkerEnds, WorkerInterrupted, CancelOne, Saved, SetupFails
    <3>2. UNCHANGED <<turnVars, alive, snap, told>>
      BY <2>2 DEF WorkerEnds, WorkerInterrupted, CancelOne, Saved, SetupFails, history
    <3> QED BY <3>1, <3>2 DEF turnVars
  <2> QED BY <2>1, <2>2
<1>2. \A t \in TaskId : job[t] \in {"startWait", "startSave", "running"} => plan[t].status = "running"
  BY DEF Inv, DispatchedIsReady, Dispatched
<1>3. "cancelled" \in Status /\ "unverified" \in Status /\ {"completed"} \cup Blocked \subseteq Status
  BY DEF Status, Blocked
<1>4. CASE \E t \in TaskId : WorkerEnds(t) \/ WorkerInterrupted(t) \/ CancelOne(t)
  <2>1. PICK t \in TaskId, s \in Status : job[t] = "running" /\ plan' = [plan EXCEPT ![t].status = s]
    BY <1>3, <1>4 DEF WorkerEnds, WorkerInterrupted, CancelOne, SetStatus
  <2>2. plan'[t] = [plan[t] EXCEPT !.status = s] /\ \A u \in TaskId \ {t} : plan'[u] = plan[u]
    BY <2>1 DEF TypeOK
  <2>3. plan[t].status # "pending"
    BY <1>2, <2>1
  <2> QED BY <1>1, <2>2, <2>3, OutcomeKeeps
<1>5. ASSUME NEW over, CancelChildren(over)
      PROVE  InputInv'
  <2>1. \A t \in TaskId : \/ plan'[t] = plan[t]
                          \/ job[t] \in {"startWait", "startSave", "running"}
                             /\ plan'[t] = [plan[t] EXCEPT !.status = "cancelled"]
    BY <1>5 DEF CancelChildren
  <2> QED BY <1>1, <1>2, <1>3, <2>1, OutcomeKeeps
<1>6. ASSUME plan' = plan PROVE InputInv'
  BY <1>1, <1>6, OutcomeKeeps
<1>7. CASE \E t \in TaskId : Saved(t) \/ SetupFails(t)
  BY <1>5, <1>6, <1>7 DEF Saved, SetupFails
<1>8. CASE StopTurn
  BY <1>5, <1>6, <1>8 DEF StopTurn
<1> QED BY <1>4, <1>7, <1>8

\* TaskManager.start: the boundary is now.
LEMMA StartKeeps == ASSUME TypeOK, Inv, InputInv, NEW t \in TaskId, Start(t) PROVE InputInv'
<1> DEFINE k == [plan[t] EXCEPT !.status = "running", !.turn = turn, !.count = Len(inputs)]
<1>1. /\ UNCHANGED <<turns, turn, saved, inputs, admitted, stale, open, paused, up, crashes, snap, disk>>
      /\ plan' = [plan EXCEPT ![t] = k]
      /\ told' = [told EXCEPT ![t] = @ \cup {inputs[i] : i \in DOMAIN inputs}]
  BY DEF Start, turnVars, alive
<1>2. plan[t] \in Task /\ plan[t] \in Copies
  BY CopiesAre
<1>3. k.status = "running" /\ k.turn = turn /\ k.count = Len(inputs) /\ k.updates = plan[t].updates
  BY <1>2 DEF Task
<1>4. plan'[t] = k /\ \A u \in TaskId \ {t} : plan'[u] = plan[u] /\ told'[u] = told[u]
  BY <1>1 DEF TypeOK
<1>5. \A i \in DOMAIN inputs : inputs[i] \in told'[t]
  BY <1>1 DEF TypeOK
<1> HIDE DEF k
<1>6. Len(inputs) \in Nat /\ \A j \in DOMAIN inputs : ~(j > Len(inputs))
  BY InputsAre
<1>7. ASSUME HandedBefore(plan[t]) PROVE HandedBefore(k)
  BY <1>3, <1>6, <1>7 DEF HandedBefore
<1>8. k.turn <= turns
  BY <1>3 DEF InputInv, TurnsAreNumbered
<1>9. \A m \in Copies' : m \in Copies \/ (m.turn <= turns /\ (~stale => HandedBefore(m)))
  <2>1. ~stale => HandedBefore(k)
    BY <1>2, <1>7 DEF InputInv, HandedInOrder
  <2>2. \A m \in Copies' : m \in Copies \/ m = k
    BY <1>1, <1>4, CopiesAre
  <2> QED BY <1>8, <2>1, <2>2
<1>10. \A u \in TaskId :
         \/ plan'[u].count <= Len(inputs) /\ \A i \in DOMAIN inputs : inputs[i] \in told'[u]
         \/ plan'[u].turn = plan[u].turn /\ plan'[u].count = plan[u].count /\ told[u] \subseteq told'[u]
  <2>1. k.count <= Len(inputs)
    BY <1>3, <1>6
  <2> QED BY <1>4, <1>5, <2>1
<1>11. crashes' = 0 => up' /\ crashes = 0
  BY <1>1 DEF InputInv, BoundaryIsTold
<1> QED BY <1>1, <1>9, <1>10, <1>11, PlanStepKeeps

\* The new inputs of a task follow what it was handed.
LEMMA NewInputsAre ==
  ASSUME TypeOK, NEW k \in Task
  PROVE  /\ NewInputs(k) \in Seq(Nat)
         /\ \A j \in DOMAIN NewInputs(k) : \E i \in DOMAIN inputs :
              NewInputs(k)[j] = inputs[i] /\ (k.turn = turn => i > k.count /\ i = j + k.count) /\ (k.turn # turn => i = j)
         /\ \A i \in DOMAIN inputs : (k.turn = turn => i > k.count) =>
              \E j \in DOMAIN NewInputs(k) : NewInputs(k)[j] = inputs[i]
<1>1. NewInputs(k) \in Seq(Nat)
  BY NewInputsType DEF TypeOK
<1>2. k.count \in Nat /\ k.turn \in Nat
  BY TaskFields
<1>3. CASE k.turn # turn
  <2>1. NewInputs(k) = inputs
    BY <1>3 DEF NewInputs
  <2> QED BY <1>1, <1>3, <2>1
<1>4. CASE k.turn = turn
  <2> DEFINE c == k.count
             n == Len(inputs)
             s == SubSeq(inputs, c + 1, n)
  <2>1. NewInputs(k) = s /\ n \in Nat /\ DOMAIN inputs = 1..n /\ c \in Nat
    BY <1>2, <1>4, InputsAre DEF NewInputs
  <2>2. /\ c + 1 <= n => DOMAIN s = 1..(n - c) /\ \A j \in 1..(n - c) : s[j] = inputs[c + j]
        /\ ~(c + 1 <= n) => DOMAIN s = {}
    <3>1. c + 1 \in Int /\ n \in Int /\ \A i \in c + 1 .. n : inputs[i] \in Nat
      <4>1. \A i \in DOMAIN inputs : inputs[i] \in Nat
        BY InputsAre
      <4> HIDE DEF c, n
      <4>2. c + 1 .. n \subseteq 1..n
        BY <2>1
      <4>3. c + 1 .. n \subseteq DOMAIN inputs
        BY <2>1, <4>2
      <4>4. c + 1 \in Int /\ n \in Int
        BY <2>1
      <4> QED BY <4>1, <4>3, <4>4
    <3>2. /\ s \in Seq(Nat) /\ Len(s) = IF c + 1 <= n THEN n - (c + 1) + 1 ELSE 0
          /\ \A j \in 1 .. n - (c + 1) + 1 : s[j] = inputs[(c + 1) + j - 1]
      BY <3>1, SubSeqProperties
    <3> HIDE DEF s, c, n
    <3>3. n - (c + 1) + 1 = n - c /\ \A j \in 1..(n - c) : (c + 1) + j - 1 = c + j
      BY <2>1
    <3>4. DOMAIN s = 1..Len(s)
      BY <3>2
    <3> QED BY <3>2, <3>3, <3>4
  <2> HIDE DEF s, c, n
  <2>3. ASSUME NEW j \in DOMAIN s
        PROVE  c + j \in DOMAIN inputs /\ s[j] = inputs[c + j] /\ c + j > c /\ c + j = j + c
    <3>1. c + 1 <= n /\ j \in 1..(n - c)
      BY <2>2
    <3> QED BY <2>1, <2>2, <3>1
  <2>4. ASSUME NEW i \in DOMAIN inputs, i > c
        PROVE  \E j \in DOMAIN s : s[j] = inputs[i]
    <3>1. c + 1 <= n /\ i - c \in 1..(n - c) /\ c + (i - c) = i
      BY <2>1, <2>4
    <3>2. i - c \in DOMAIN s /\ s[i - c] = inputs[i]
      BY <2>2, <3>1
    <3> QED BY <3>2
  <2> QED BY <1>1, <1>4, <2>1, <2>3, <2>4 DEF c
<1> QED BY <1>3, <1>4

\* TaskManager.resume: what is handed now is newer, and in order.
LEMMA ResumeKeeps == ASSUME TypeOK, Inv, InputInv, NEW t \in TaskId, Resume(t) PROVE InputInv'
<1> DEFINE k == plan[t]
           new == NewInputs(k)
           m == [k EXCEPT !.status = "pending", !.updates = @ \o new]
<1>1. /\ UNCHANGED <<turns, turn, saved, inputs, admitted, stale, open, paused, up, crashes, disk, told>>
      /\ plan' = [plan EXCEPT ![t] = m] /\ snap' = plan' /\ k.status \in Blocked
  BY DEF Resume, turnVars, alive
<1>2. k \in Task /\ k \in Copies /\ k.updates \in Seq(Nat) /\ new \in Seq(Nat)
  BY CopiesAre, NewInputsAre, TaskFields
<1>3. m.status = "pending" /\ m.turn = k.turn /\ m.count = k.count /\ m.updates = k.updates \o new
  BY <1>2 DEF Task
<1>4. plan'[t] = m /\ \A u \in TaskId \ {t} : plan'[u] = plan[u]
  BY <1>1 DEF TypeOK
<1> DEFINE a == Len(k.updates)
           u == k.updates \o new
<1>5. /\ a \in Nat /\ Len(new) \in Nat /\ DOMAIN k.updates = 1..a /\ DOMAIN new = 1..Len(new)
      /\ DOMAIN u = 1..(a + Len(new))
      /\ \A i \in 1..a : u[i] = k.updates[i]
      /\ \A i \in (a + 1)..(a + Len(new)) : u[i] = new[i - a]
  <2> HIDE DEF new, k
  <2>1. /\ u \in Seq(Nat) /\ Len(u) = a + Len(new)
        /\ \A i \in 1..(a + Len(new)) : u[i] = IF i <= a THEN k.updates[i] ELSE new[i - a]
    BY <1>2, ConcatProperties
  <2> HIDE DEF u
  <2>2. /\ a \in Nat /\ Len(new) \in Nat /\ DOMAIN k.updates = 1..a /\ DOMAIN new = 1..Len(new)
        /\ DOMAIN u = 1..(a + Len(new))
    BY <1>2, <2>1, LenProperties
  <2> HIDE DEF a
  <2>3. \A i \in 1..a : u[i] = k.updates[i]
    BY <2>1, <2>2
  <2>4. \A i \in (a + 1)..(a + Len(new)) : u[i] = new[i - a]
    BY <2>1, <2>2
  <2> QED BY <2>2, <2>3, <2>4
<1>6. /\ k.count \in Nat /\ k.status # "pending"
      /\ \A j \in DOMAIN new : \E i \in DOMAIN inputs :
           new[j] = inputs[i] /\ (k.turn = turn => i > k.count /\ i = j + k.count) /\ (k.turn # turn => i = j)
  BY <1>1, <1>2, NewInputsAre, TaskFields DEF Blocked
<1> HIDE DEF m, new, u, a, k
<1>7. ASSUME HandedInOrder PROVE HandedBefore(m)
  <2>1. HandedBefore(k)
    BY <1>2, <1>7 DEF HandedInOrder
  <2>2. ASSUME NEW i \in DOMAIN u
        PROVE  \/ i \in 1..a /\ u[i] = k.updates[i]
               \/ i - a \in DOMAIN new /\ u[i] = new[i - a] /\ i > a
    BY <1>5
  <2>3. \A i \in DOMAIN u : u[i] <= admitted
    <3>1. \A i \in DOMAIN k.updates : k.updates[i] <= admitted
      BY <2>1 DEF HandedBefore
    <3>2. \A j \in DOMAIN new : new[j] <= admitted
      BY <1>6, <1>7 DEF HandedInOrder
    <3> QED BY <1>5, <2>2, <3>1, <3>2
  <2>4. \A i \in DOMAIN k.updates, j \in DOMAIN new : k.updates[i] < new[j]
    BY <1>6, <2>1 DEF HandedBefore
  <2>5. Increasing(new)
    <3>1. SUFFICES ASSUME NEW i \in DOMAIN new, NEW j \in DOMAIN new, i < j PROVE new[i] < new[j]
      BY DEF Increasing
    <3>2. PICK p \in DOMAIN inputs : new[i] = inputs[p] /\ (k.turn = turn => p = i + k.count) /\ (k.turn # turn => p = i)
      BY <1>6
    <3>3. PICK q \in DOMAIN inputs : new[j] = inputs[q] /\ (k.turn = turn => q = j + k.count) /\ (k.turn # turn => q = j)
      BY <1>6
    <3>4. p < q
      BY <1>5, <1>6, <3>1, <3>2, <3>3
    <3> QED BY <1>7, <3>2, <3>3, <3>4 DEF HandedInOrder, Increasing
  <2>6. Increasing(u)
    <3>1. SUFFICES ASSUME NEW i \in DOMAIN u, NEW j \in DOMAIN u, i < j PROVE u[i] < u[j]
      BY DEF Increasing
    <3>2. i \in Int /\ j \in Int /\ a \in Nat
      BY <1>5
    <3>3. CASE i \in 1..a /\ j \in 1..a
      BY <1>5, <2>1, <3>1, <3>3 DEF HandedBefore, Increasing
    <3>4. CASE i \in 1..a /\ j > a
      <4>1. i \in DOMAIN k.updates /\ u[i] = k.updates[i]
        BY <1>5, <3>4
      <4>2. j - a \in DOMAIN new /\ u[j] = new[j - a]
        BY <1>5, <2>2, <3>1, <3>2, <3>4
      <4> QED BY <2>4, <4>1, <4>2
    <3>5. CASE i > a /\ j > a
      <4>1. /\ i - a \in DOMAIN new /\ u[i] = new[i - a] /\ j - a \in DOMAIN new /\ u[j] = new[j - a]
            /\ i - a < j - a
        BY <1>5, <3>1, <3>2, <3>5
      <4> QED BY <2>5, <4>1 DEF Increasing
    <3> QED BY <1>5, <2>2, <3>1, <3>2, <3>3, <3>4, <3>5
  <2> QED BY <1>3, <2>3, <2>6 DEF HandedBefore, u
<1>8. \A x \in Copies' : x \in Copies \/ (x.turn <= turns /\ (~stale => HandedBefore(x)))
  <2>1. \A x \in Copies' : x \in Copies \/ x = m
    BY <1>1, <1>4, CopiesAre
  <2>2. m.turn <= turns /\ (~stale => HandedBefore(m))
    BY <1>2, <1>3, <1>7 DEF InputInv, TurnsAreNumbered
  <2> QED BY <2>1, <2>2
<1>9. \A x \in TaskId : plan'[x].turn = plan[x].turn /\ plan'[x].count = plan[x].count /\ told[x] \subseteq told'[x]
  BY <1>1, <1>3, <1>4 DEF k
<1>10. crashes' = 0 => up' /\ crashes = 0
  BY <1>1 DEF InputInv, BoundaryIsTold
<1> QED BY <1>1, <1>8, <1>9, <1>10, PlanStepKeeps

\* bind_loaded_snapshot: the journal has the pause of the turn that was, or none.
LEMMA LoadKeeps == ASSUME TypeOK, Inv, InputInv, Load PROVE InputInv'
<1>1. /\ ~up /\ turns' = turns /\ admitted' = admitted /\ saved' = saved /\ snap' = snap /\ crashes' = crashes
      /\ plan' = Restored(disk) /\ disk' = Restored(disk) /\ open' = open
      /\ paused' = (saved # NoPause) /\ turn' = saved.turn /\ inputs' = saved.inputs
      /\ stale' = (stale \/ saved.turn \notin {0, turn})
  BY DEF Load
<1>2. crashes' # 0
  BY <1>1 DEF InputInv, BoundaryIsTold
<1>3. \A t \in TaskId : /\ plan'[t] = disk'[t] /\ plan'[t].turn = disk[t].turn
                        /\ plan'[t] = disk[t] \/ (disk[t].status = "running" /\ plan'[t] = [disk[t] EXCEPT !.status = "unverified"])
  BY <1>1, CopiesAre DEF Restored, Task
<1>4. \A x \in Copies' : x.turn <= turns
  <2>1. \A t \in TaskId : disk[t].turn <= turns /\ snap[t].turn <= turns
    BY CopiesAre DEF InputInv, TurnsAreNumbered
  <2>2. \A t \in TaskId : plan'[t].turn <= turns /\ snap'[t].turn <= turns /\ disk'[t].turn <= turns
    BY <1>1, <1>3, <2>1
  <2> QED BY <2>2 DEF Copies
<1>5. TurnsAreNumbered'
  <2>1. saved # NoPause => saved.turn # 0
    <3>1. saved.turn = 0 /\ saved.inputs = <<>> => saved = NoPause
      BY DEF TypeOK, NoPause
    <3> QED BY <3>1 DEF InputInv, TurnsAreNumbered
  <2>2. ~open
    BY <1>1 DEF Inv, DownIsIdle
  <2> QED BY <1>1, <1>4, <2>1, <2>2 DEF InputInv, TurnsAreNumbered
<1>6. ASSUME ~stale' PROVE HandedInOrder'
  <2>1. HandedInOrder /\ (saved.turn = 0 \/ saved.turn = turn) /\ (saved.turn = 0 => saved.inputs = <<>>)
    BY <1>1, <1>6 DEF InputInv, TurnsAreNumbered
  <2>2. \A i \in DOMAIN saved.inputs : saved.turn = turn /\ i \in DOMAIN inputs /\ saved.inputs[i] = inputs[i]
    <3>1. CASE saved.inputs = <<>>
      BY <3>1
    <3>2. CASE saved.inputs # <<>>
      <4>1. saved.turn = turn
        BY <2>1, <3>2
      <4>2. /\ Len(saved.inputs) <= Len(inputs)
            /\ \A i \in DOMAIN saved.inputs : saved.inputs[i] = inputs[i]
        BY <2>1, <4>1 DEF HandedInOrder, PauseIsBeginning
      <4>3. DOMAIN saved.inputs \subseteq DOMAIN inputs
        BY <4>2, PauseWithin
      <4> QED BY <4>1, <4>2, <4>3
    <3> QED BY <3>1, <3>2
  <2>3. Increasing(inputs)' /\ \A i \in DOMAIN inputs' : inputs'[i] <= admitted'
    BY <1>1, <2>1, <2>2 DEF HandedInOrder, Increasing
  <2>4. PauseIsBeginning'
    BY <1>1, InputsAre DEF PauseIsBeginning
  <2>5. ASSUME NEW x, HandedBefore(x) PROVE HandedBefore(x)'
    <3>1. HandedBefore(x)' <=>
          /\ Increasing(x.updates) /\ \A i \in DOMAIN x.updates : x.updates[i] <= admitted
          /\ x.status # "pending" =>
               \A i \in DOMAIN x.updates, j \in DOMAIN saved.inputs :
                 (x.turn = saved.turn => j > x.count) => x.updates[i] < saved.inputs[j]
      BY <1>1 DEF HandedBefore
    <3> QED BY <2>2, <2>5, <3>1 DEF HandedBefore
  <2>6. \A x \in Copies' : HandedBefore(x)
    <3>1. \A t \in TaskId : HandedBefore(disk[t]) /\ HandedBefore(snap[t]) /\ disk[t] \in Task
      BY <2>1, CopiesAre DEF HandedInOrder
    <3>2. \A t \in TaskId : HandedBefore(plan'[t])
      <4>1. SUFFICES ASSUME NEW t \in TaskId, disk[t].status = "running",
                            plan'[t] = [disk[t] EXCEPT !.status = "unverified"]
                     PROVE  HandedBefore(plan'[t])
        BY <1>3, <3>1
      <4>2. disk[t] \in Task /\ HandedBefore(disk[t]) /\ disk[t].status # "pending"
        BY <3>1, <4>1
      <4> QED BY <4>1, <4>2, StatusHanded
    <3> QED BY <1>1, <1>3, <3>1, <3>2, CopiesAre
  <2> QED BY <2>3, <2>4, <2>5, <2>6 DEF HandedInOrder
<1> QED BY <1>2, <1>5, <1>6 DEF InputInv

\* It holds at the start.
LEMMA InputInvInit == ASSUME Init PROVE InputInv
<1>1. /\ turns = 0 /\ turn = 0 /\ saved = NoPause /\ inputs = <<>> /\ ~open /\ ~paused /\ up /\ ~stale
      /\ \A t \in TaskId : plan[t] = Absent /\ snap[t] = Absent /\ disk[t] = Absent
  BY DEF Init, EmptyPlan
<1>2. Copies \subseteq {Absent} /\ NoPause.turn = 0 /\ NoPause.inputs = <<>>
  BY <1>1 DEF Copies, NoPause
<1>3. Absent.turn = 0 /\ Absent.updates = <<>> /\ Absent.count = 0 /\ DOMAIN <<>> = {} /\ Len(<<>>) = 0
  BY DEF Absent
<1> HIDE DEF Absent
<1>4. TurnsAreNumbered
  BY <1>1, <1>2, <1>3 DEF TurnsAreNumbered
<1>5. HandedInOrder
  BY <1>1, <1>2, <1>3 DEF HandedInOrder, PauseIsBeginning, HandedBefore, Increasing
<1>6. BoundaryIsTold
  BY <1>1, <1>3 DEF BoundaryIsTold
<1> QED BY <1>4, <1>5, <1>6 DEF InputInv

\* What holds between the plan and the turn's inputs, in memory, in the snapshot
\* being written and in the journal.
THEOREM InputInvCorrect == Spec => []InputInv
<1>1. TypeOK /\ Inv /\ InputInv /\ [Next]_vars => InputInv'
  <2> SUFFICES ASSUME TypeOK, Inv, InputInv, [Next]_vars PROVE InputInv'
    OBVIOUS
  <2>1. CASE BeginTurn \/ ResumeTurn \/ AddInput \/ EndTurn \/ SavePause \/ AbortEnds
    BY <2>1, TurnStepKeeps
  <2>2. CASE \/ Replace \/ Continue \/ PlanSaved \/ EndPlanning
             \/ StartBatch \/ EndBatches \/ Report \/ Crash \/ UNCHANGED vars
             \/ \E rows \in SUBSET Definitions : CreateTodoList(rows)
             \/ \E t \in TaskId : TakeSnapshot(t) \/ Dispatch(t) \/ SaveLost(t)
    BY <2>2, CopyStepKeeps
  <2>3. CASE \/ \E t \in TaskId : WorkerEnds(t) \/ WorkerInterrupted(t) \/ CancelOne(t) \/ Saved(t) \/ SetupFails(t)
             \/ StopTurn
    BY <2>3, OutcomeStepKeeps
  <2>4. CASE Load \/ \E t \in TaskId : Start(t) \/ Resume(t)
    BY <2>4, LoadKeeps, StartKeeps, ResumeKeeps
  <2> QED BY <2>1, <2>2, <2>3, <2>4 DEF Next, ChildStep
<1>2. Init => InputInv
  BY InputInvInit
<1> QED BY <1>1, <1>2, TypeCorrect, InvCorrect, PTL DEF Spec

\* For any tasks and any number of turns, inputs, pauses and crashes: a resumed
\* Worker is handed no input twice (Task.input_cursor, TaskManager.resume), unless a
\* crash brings back the pause of an earlier turn; and, without a crash, every
\* input that is new to it.
THEOREM ResumedInputsAreTheNewCorrect == Spec => []ResumedInputsAreTheNew
<1>1. TypeOK /\ InputInv => ResumedInputsAreTheNew
  <2> SUFFICES ASSUME TypeOK, InputInv PROVE ResumedInputsAreTheNew
    OBVIOUS
  <2>1. ASSUME ~stale PROVE NoInputReplayed
    <3>1. SUFFICES ASSUME NEW t \in TaskId, NEW i \in DOMAIN plan[t].updates, NEW j \in DOMAIN plan[t].updates,
                          plan[t].updates[i] = plan[t].updates[j]
                   PROVE  i = j
      BY DEF NoInputReplayed
    <3>2. Increasing(plan[t].updates) /\ plan[t] \in Task
      BY <2>1, CopiesAre DEF InputInv, HandedInOrder, HandedBefore
    <3>3. i \in Nat /\ j \in Nat /\ plan[t].updates[i] \in Nat /\ plan[t].updates[j] \in Nat
      BY <3>2, TaskFields
    <3>4. ~(i < j) /\ ~(j < i)
      BY <3>1, <3>2, <3>3 DEF Increasing
    <3> QED BY <3>3, <3>4
  <2>2. ASSUME crashes = 0 PROVE NewInputIsTaken
    <3>1. SUFFICES ASSUME NEW t \in TaskId, NEW i \in DOMAIN inputs, inputs[i] \notin told[t]
                   PROVE  \E j \in DOMAIN NewInputs(plan[t]) : NewInputs(plan[t])[j] = inputs[i]
      BY DEF NewInputIsTaken
    <3>2. plan[t].turn = turn => ~(i <= plan[t].count)
      BY <2>2, <3>1 DEF InputInv, BoundaryIsTold
    <3>3. plan[t] \in Task
      BY CopiesAre
    <3>4. plan[t].count \in Nat /\ i \in Nat
      BY <3>3, TaskFields, InputsAre
    <3>5. plan[t].turn = turn => i > plan[t].count
      BY <3>2, <3>4
    <3> QED BY <3>3, <3>5, NewInputsAre
  <2> QED BY <2>1, <2>2 DEF ResumedInputsAreTheNew
<1> QED BY <1>1, TypeCorrect, InputInvCorrect, PTL

-----------------------------------------------------------------------------
(* The inductive invariant.                                                *)

\* What the parts of a message may be.
Word == Input \cup Tool
PartKind == {"user", "command", "summary", "response", "returns", "status"}
MessagePart == [kind : PartKind, says : SUBSET Word, joined : BOOLEAN, fresh : BOOLEAN]

\* Every answer comes after a call that it answers, and no call is made or
\* answered twice.
Answered(h) ==
  /\ \A l \in PartsOf(h, {"returns"}) : \A e \in h[l].says :
       \E k \in PartsOf(h, {"response"}) : k < l /\ e \in h[k].says
  /\ \A k, l \in PartsOf(h, {"returns"}) : h[k].says \cap h[l].says # {} => k = l
  /\ \A k, l \in PartsOf(h, {"response"}) : h[k].says \cap h[l].says # {} => k = l

\* Messages as the code keeps them.
WellKept(h) == h \in Seq(MessagePart) /\ (h # <<>> => ~h[1].joined) /\ Answered(h)

\* A request that can follow h: it calls nothing, and only its first part answers.
Follows(p, h) ==
  /\ p \in Seq(MessagePart) /\ (p # <<>> => ~p[1].joined)
  /\ PartsOf(p, {"response"}) = {}
  /\ \A l \in PartsOf(p, {"returns"}) : l = 1 /\ p[l].says \subseteq OpenCalls(h)

\* Two histories that differ in their form only.
SameWords(g, h) ==
  Len(g) = Len(h) /\ \A k \in 1..Len(h) : g[k].kind = h[k].kind /\ g[k].says = h[k].says

RunPlace == {"idle", "take", "audit", "ready", "sent", "answered", "tools"}

RunRecord == [at : RunPlace, original : Seq(MessagePart), history : Seq(MessagePart),
              request : Seq(MessagePart), results : SUBSET Word, retried : BOOLEAN, responded : BOOLEAN]

\* What a running turn has.
RunKept ==
  /\ run \in RunRecord
  /\ WellKept(run.original) /\ WellKept(run.history) /\ Follows(run.request, run.history)
  /\ run.at \notin {"take", "audit"} => run.request = <<>>
  /\ run.at \in {"answered", "tools"} =>
       run.history # <<>> /\ Last(run.history).kind = "response"
  /\ run.at = "tools" => run.results \subseteq LastCalls

\* Which calls of the history are not answered yet.
CallsClosed ==
  /\ run.at \in {"take", "audit"} => OpenCalls(run.history) \subseteq given \cup ReturnsIn(run.request)
  /\ run.at \in {"ready", "sent"} => OpenCalls(run.history) \subseteq given
  /\ run.at \in {"answered", "tools"} => OpenCalls(run.history) \subseteq given \cup LastCalls

\* What is kept is told by the disk, by the history of the turn and by the
\* candidate that takes their place, but for what was given up.
KeptIsTold ==
  /\ Tells(kept) \subseteq Tells(onDisk) \cup given
  /\ run.at # "idle" => Tells(kept) \subseteq Tells(run.history) \cup given
  /\ run.at \in {"ready", "sent"} => SameWords(onDisk, run.history)
  /\ squeeze.at # "none" =>
       Tells(kept) \subseteq Tells(squeeze.candidate.messages) \cup squeeze.candidate.overlooked \cup given

\* The candidate of /compress.
SqueezeKept ==
  \/ squeeze = NoJob
  \/ /\ run.at = "idle"
     /\ squeeze.at \in {"made", "saved"}
     /\ squeeze = [at |-> squeeze.at, candidate |-> squeeze.candidate]
     /\ WellKept(squeeze.candidate.messages)
     /\ squeeze.at = "saved" =>
          squeeze.candidate.overlooked \subseteq given /\ onDisk = squeeze.candidate.messages

\* All that was said and done is told by what is kept, or still to be sent.
AllIsTold ==
  /\ said \subseteq Input /\ waiting \subseteq Input
  /\ executed \subseteq Tells(kept) \cup given
  /\ said \subseteq Tells(kept) \cup Tells(run.request) \cup waiting \cup given

\* The inductive invariant.
RequestInv ==
  /\ WellKept(kept) /\ WellKept(onDisk) /\ RunKept /\ CallsClosed
  /\ SqueezeKept /\ KeptIsTold /\ AllIsTold
-----------------------------------------------------------------------------
(* Numbers: the largest, the smallest and the n-th of a set.               *)

\* A set of natural numbers has a smallest one.
LEMMA SmallestNumber ==
  ASSUME NEW S \in SUBSET Nat, S # {}
  PROVE  Min(S) \in S /\ \A y \in S : Min(S) <= y
<1> DEFINE R == {p \in Nat \X Nat : p[1] < p[2]}
<1>1. IsWellFoundedOn(R, Nat)
  BY NatLessThanWellFounded DEF OpToRel, IsWellFoundedOn
<1>2. PICK x \in S : \A y \in S : ~(<<y, x>> \in R)
  <2> HIDE DEF R
  <2> QED BY <1>1, WFMin
<1>3. ASSUME NEW y \in S
      PROVE  x <= y
  <2>1. x \in Nat /\ y \in Nat
    OBVIOUS
  <2>2. y < x => <<y, x>> \in R
    BY <2>1
  <2> HIDE DEF R
  <2> QED BY <1>2, <2>1, <2>2
<1> QED BY <1>3 DEF Min

\* A bounded set of natural numbers has a largest one.
LEMMA LargestNumber ==
  ASSUME NEW S \in SUBSET Nat, S # {}, NEW n \in Nat, \A x \in S : x <= n
  PROVE  Max(S) \in S /\ \A y \in S : y <= Max(S)
<1> DEFINE T == {n - x : x \in S}
<1>1. T \in SUBSET Nat /\ T # {}
  <2>1. \A x \in S : x \in Nat /\ x <= n
    OBVIOUS
  <2>2. \A x \in S : n - x \in Nat
    BY <2>1
  <2> QED BY <2>2
<1>2. Min(T) \in T /\ \A y \in T : Min(T) <= y
  <2> HIDE DEF T
  <2> QED BY <1>1, SmallestNumber
<1>3. PICK x \in S : Min(T) = n - x
  BY <1>2
<1>4. \A y \in S : y <= x
  <2> SUFFICES ASSUME NEW y \in S PROVE y <= x
    OBVIOUS
  <2>1. n - y \in T
    OBVIOUS
  <2>2. n - x <= n - y
    BY <1>2, <1>3, <2>1
  <2> QED BY <2>2
<1> QED BY <1>4 DEF Max

\* Each number of a finite set is the n-th for one n, and each n has one.
LEMMA NthNumber ==
  ASSUME NEW S \in SUBSET Nat, IsFiniteSet(S)
  PROVE  /\ Cardinality(S) \in Nat
         /\ \A n \in 1..Cardinality(S) : Nth(S, n) \in S
         /\ \A x \in S : \E n \in 1..Cardinality(S) : Nth(S, n) = x
<1> DEFINE Upto(x) == {y \in S : y <= x}
           f == [x \in S |-> Cardinality(Upto(x))]
           m == Cardinality(S)
<1>0. m \in Nat
  BY FS_CardinalityType
<1>1. ASSUME NEW x \in S
      PROVE  IsFiniteSet(Upto(x)) /\ f[x] \in 1..m
  <2>1. Upto(x) \in SUBSET S
    OBVIOUS
  <2>2. IsFiniteSet(Upto(x)) /\ Cardinality(Upto(x)) <= m
    BY <2>1, FS_Subset
  <2>3. Cardinality(Upto(x)) \in Nat
    BY <2>2, FS_CardinalityType
  <2>4. x \in Upto(x)
    OBVIOUS
  <2>5. Cardinality(Upto(x)) # 0
    BY <2>2, <2>4, FS_EmptySet
  <2>6. f[x] = Cardinality(Upto(x))
    OBVIOUS
  <2> HIDE DEF Upto, f
  <2> QED BY <2>2, <2>3, <2>5, <2>6, <1>0
<1>2. ASSUME NEW x \in S, NEW y \in S, x < y
      PROVE  f[x] # f[y]
  <2>1. Upto(x) \in SUBSET Upto(y)
    <3>1. x \in Nat /\ y \in Nat /\ \A z \in S : z \in Nat
      OBVIOUS
    <3>2. \A z \in S : z <= x => z <= y
      BY <1>2, <3>1
    <3> QED BY <3>2
  <2>2. y \in Upto(y) /\ y \notin Upto(x)
    BY <1>2
  <2>3. f[x] = Cardinality(Upto(x)) /\ f[y] = Cardinality(Upto(y))
    OBVIOUS
  <2>4. IsFiniteSet(Upto(y))
    BY <1>1
  <2> HIDE DEF Upto, f
  <2> QED BY <2>1, <2>2, <2>3, <2>4, FS_Subset
<1>3. ASSUME NEW x \in S, NEW y \in S, f[x] = f[y]
      PROVE  x = y
  <2> HIDE DEF f
  <2>1. x \in Nat /\ y \in Nat
    OBVIOUS
  <2> QED BY <1>2, <1>3, <2>1
<1>4. f \in Injection(S, 1..m)
  <2>1. f \in [S -> 1..m]
    BY <1>1
  <2> HIDE DEF f
  <2> QED BY <1>3, <2>1, Fun_IsInj
<1>5. IsFiniteSet(1..m) /\ Cardinality(1..m) = m
  BY <1>0, FS_Interval
<1>6. f \in Surjection(S, 1..m)
  <2> HIDE DEF f
  <2> QED BY <1>4, <1>5, FS_Injection
<1>7. \A n \in 1..m : \E x \in S : f[x] = n
  <2> HIDE DEF f
  <2> QED BY <1>6, Fun_SurjectionProperties
<1>8. ASSUME NEW n \in 1..m
      PROVE  Nth(S, n) \in S /\ f[Nth(S, n)] = n
  <2>1. PICK x \in S : f[x] = n
    BY <1>7
  <2>2. Cardinality({j \in S : j <= x}) = n
    BY <2>1
  <2>3. Nth(S, n) \in S /\ Cardinality({j \in S : j <= Nth(S, n)}) = n
    BY <2>2 DEF Nth
  <2> QED BY <2>3
<1>9. ASSUME NEW x \in S
      PROVE  \E n \in 1..m : Nth(S, n) = x
  <2>1. f[x] \in 1..m
    BY <1>1
  <2>2. Nth(S, f[x]) \in S /\ f[Nth(S, f[x])] = f[x]
    <3> HIDE DEF f
    <3> QED BY <1>8, <2>1
  <2> HIDE DEF f
  <2> QED BY <1>3, <2>1, <2>2
<1> QED BY <1>0, <1>8, <1>9

-----------------------------------------------------------------------------
(* Histories: what they tell, and how they grow.                           *)

\* The parts of a history by their number.
LEMMA PartsByNumber ==
  ASSUME NEW h \in Seq(MessagePart)
  PROVE  /\ DOMAIN h = 1..Len(h) /\ Len(h) \in Nat
         /\ \A k \in 1..Len(h) : h[k] \in MessagePart
         /\ \A kinds : \A k : k \in PartsOf(h, kinds) <=> k \in 1..Len(h) /\ h[k].kind \in kinds
BY DEF PartsOf

\* Histories that differ in their form only tell the same.
LEMMA SameWordsTell ==
  ASSUME NEW g \in Seq(MessagePart), NEW h \in Seq(MessagePart), SameWords(g, h)
  PROVE  /\ Tells(g) = Tells(h) /\ CallsIn(g) = CallsIn(h) /\ ReturnsIn(g) = ReturnsIn(h)
         /\ OpenCalls(g) = OpenCalls(h)
         /\ Answered(h) => Answered(g)
<1>1. DOMAIN g = 1..Len(h) /\ DOMAIN h = 1..Len(h) /\ Len(h) \in Nat
  BY DEF SameWords
<1>2. \A k \in 1..Len(h) : g[k].kind = h[k].kind /\ g[k].says = h[k].says
  BY DEF SameWords
<1>3. \A kinds : PartsOf(g, kinds) = PartsOf(h, kinds) /\ PartsOf(h, kinds) \subseteq 1..Len(h)
  BY <1>1, <1>2 DEF PartsOf
<1>4. CallsIn(g) = CallsIn(h) /\ ReturnsIn(g) = ReturnsIn(h) /\ Tells(g) = Tells(h)
  <2>1. CallsIn(g) = CallsIn(h)
    BY <1>2, <1>3 DEF CallsIn
  <2>2. ReturnsIn(g) = ReturnsIn(h)
    BY <1>2, <1>3 DEF ReturnsIn
  <2>3. Tells(g) = Tells(h)
    BY <1>1, <1>2 DEF Tells
  <2> QED BY <2>1, <2>2, <2>3
<1>5. ASSUME Answered(h)
      PROVE  Answered(g)
  <2>1. \A kinds : \A k \in PartsOf(h, kinds) : g[k].says = h[k].says
    BY <1>2, <1>3
  <2>2. \A l \in PartsOf(g, {"returns"}) : \A e \in g[l].says :
          \E k \in PartsOf(g, {"response"}) : k < l /\ e \in g[k].says
    BY <1>3, <1>5, <2>1 DEF Answered
  <2>3. \A k, l \in PartsOf(g, {"returns"}) : g[k].says \cap g[l].says # {} => k = l
    BY <1>3, <1>5, <2>1 DEF Answered
  <2>4. \A k, l \in PartsOf(g, {"response"}) : g[k].says \cap g[l].says # {} => k = l
    BY <1>3, <1>5, <2>1 DEF Answered
  <2> QED BY <2>2, <2>3, <2>4 DEF Answered
<1> QED BY <1>4, <1>5 DEF OpenCalls

\* What two histories, one after the other, tell.
LEMMA JoinedHistories ==
  ASSUME NEW g \in Seq(MessagePart), NEW p \in Seq(MessagePart)
  PROVE  /\ g \o p \in Seq(MessagePart) /\ Len(g \o p) = Len(g) + Len(p)
         /\ \A k \in 1..Len(g) : (g \o p)[k] = g[k]
         /\ \A k \in 1..Len(p) : (g \o p)[Len(g) + k] = p[k]
         /\ Tells(g \o p) = Tells(g) \cup Tells(p)
         /\ CallsIn(g \o p) = CallsIn(g) \cup CallsIn(p)
         /\ ReturnsIn(g \o p) = ReturnsIn(g) \cup ReturnsIn(p)
<1> DEFINE j == g \o p
<1>1. j \in Seq(MessagePart) /\ Len(j) = Len(g) + Len(p) /\ Len(g) \in Nat /\ Len(p) \in Nat
  OBVIOUS
<1>2. \A k \in 1..Len(g) : k \in 1..Len(j) /\ j[k] = g[k]
  OBVIOUS
<1>3. \A k \in 1..Len(p) : Len(g) + k \in 1..Len(j) /\ j[Len(g) + k] = p[k]
  OBVIOUS
<1>4. DOMAIN j = 1..Len(j) /\ DOMAIN g = 1..Len(g) /\ DOMAIN p = 1..Len(p)
  OBVIOUS
<1> HIDE DEF j
<1>5. \A k \in 1..Len(j) :
        \/ k \in 1..Len(g) /\ j[k] = g[k]
        \/ \E l \in 1..Len(p) : k = Len(g) + l /\ j[k] = p[l]
  <2> SUFFICES ASSUME NEW k \in 1..Len(j), k \notin 1..Len(g)
               PROVE  \E l \in 1..Len(p) : k = Len(g) + l /\ j[k] = p[l]
    BY <1>2
  <2>1. k - Len(g) \in 1..Len(p) /\ k = Len(g) + (k - Len(g))
    BY <1>1
  <2> QED BY <2>1, <1>3
<1>6. \A k \in PartsOf(j, {"response"}) :
        (k \in PartsOf(g, {"response"}) /\ j[k] = g[k]) \/ \E l \in PartsOf(p, {"response"}) : j[k] = p[l]
  BY <1>4, <1>5 DEF PartsOf
<1>7. \A k \in PartsOf(j, {"returns"}) :
        (k \in PartsOf(g, {"returns"}) /\ j[k] = g[k]) \/ \E l \in PartsOf(p, {"returns"}) : j[k] = p[l]
  BY <1>4, <1>5 DEF PartsOf
<1>8. \A kinds : /\ \A k \in PartsOf(g, kinds) : k \in PartsOf(j, kinds) /\ j[k] = g[k]
                 /\ \A k \in PartsOf(p, kinds) : \E l \in PartsOf(j, kinds) : j[l] = p[k]
  <2>1. \A kinds : \A k \in PartsOf(g, kinds) : k \in PartsOf(j, kinds) /\ j[k] = g[k]
    BY <1>2, <1>4 DEF PartsOf
  <2>2. \A kinds : \A k \in PartsOf(p, kinds) :
          Len(g) + k \in PartsOf(j, kinds) /\ j[Len(g) + k] = p[k]
    BY <1>3, <1>4 DEF PartsOf
  <2> QED BY <2>1, <2>2
<1>9. Tells(j) = Tells(g) \cup Tells(p)
  <2>1. Tells(j) \subseteq Tells(g) \cup Tells(p)
    BY <1>4, <1>5 DEF Tells
  <2>2. Tells(g) \subseteq Tells(j)
    BY <1>2, <1>4 DEF Tells
  <2>3. Tells(p) \subseteq Tells(j)
    BY <1>3, <1>4 DEF Tells
  <2> QED BY <2>1, <2>2, <2>3
<1>10. CallsIn(j) = CallsIn(g) \cup CallsIn(p)
  BY <1>6, <1>8 DEF CallsIn
<1>11. ReturnsIn(j) = ReturnsIn(g) \cup ReturnsIn(p)
  BY <1>7, <1>8 DEF ReturnsIn
<1> QED BY <1>1, <1>2, <1>3, <1>9, <1>10, <1>11 DEF j

\* In messages that are well kept, what is answered was called.
LEMMA AnsweredWasCalled ==
  ASSUME NEW h, Answered(h)
  PROVE  ReturnsIn(h) \subseteq CallsIn(h)
BY DEF Answered, ReturnsIn, CallsIn

\* A history goes on with a request that follows it.
LEMMA FollowedHistory ==
  ASSUME NEW g, WellKept(g), NEW p, Follows(p, g)
  PROVE  /\ WellKept(g \o p)
         /\ OpenCalls(g \o p) = OpenCalls(g) \ ReturnsIn(p)
         /\ Tells(g \o p) = Tells(g) \cup Tells(p)
<1> DEFINE j == g \o p
<1>1. g \in Seq(MessagePart) /\ p \in Seq(MessagePart)
  BY DEF WellKept, Follows
<1>2. /\ j \in Seq(MessagePart) /\ Len(j) = Len(g) + Len(p)
      /\ \A k \in 1..Len(g) : j[k] = g[k]
      /\ \A k \in 1..Len(p) : j[Len(g) + k] = p[k]
      /\ Tells(j) = Tells(g) \cup Tells(p)
      /\ CallsIn(j) = CallsIn(g) \cup CallsIn(p)
      /\ ReturnsIn(j) = ReturnsIn(g) \cup ReturnsIn(p)
  BY <1>1, JoinedHistories
<1>3. CallsIn(p) = {}
  BY DEF Follows, CallsIn
<1>4. Len(g) \in Nat /\ Len(p) \in Nat
  BY <1>1
<1> HIDE DEF j
<1>5. j # <<>> => ~j[1].joined
  <2> SUFFICES ASSUME j # <<>> PROVE ~j[1].joined
    OBVIOUS
  <2>1. CASE g # <<>>
    <3>1. 1 \in 1..Len(g)
      BY <1>1, <2>1
    <3> QED BY <3>1, <2>1, <1>2 DEF WellKept
  <2>2. CASE g = <<>>
    <3>1. Len(g) = 0
      BY <2>2
    <3>2. Len(p) # 0
      BY <1>2, <1>4, <3>1
    <3>3. 1 \in 1..Len(p) /\ p # <<>> /\ Len(g) + 1 = 1
      BY <1>4, <3>1, <3>2
    <3>4. j[1] = p[1]
      BY <1>2, <3>3
    <3> QED BY <3>3, <3>4 DEF Follows
  <2> QED BY <2>1, <2>2
<1>6. \A k \in PartsOf(j, {"response"}) : k \in PartsOf(g, {"response"}) /\ j[k] = g[k]
  <2> SUFFICES ASSUME NEW k \in PartsOf(j, {"response"})
               PROVE  k \in PartsOf(g, {"response"}) /\ j[k] = g[k]
    OBVIOUS
  <2>1. k \in 1..Len(j) /\ j[k].kind = "response"
    BY <1>2 DEF PartsOf
  <2>2. k \in 1..Len(g)
    <3> SUFFICES ASSUME k \notin 1..Len(g) PROVE FALSE
      OBVIOUS
    <3>1. k - Len(g) \in 1..Len(p) /\ Len(g) + (k - Len(g)) = k
      BY <1>2, <1>4, <2>1
    <3>2. p[k - Len(g)].kind = "response"
      BY <1>2, <2>1, <3>1
    <3> QED BY <1>1, <3>1, <3>2 DEF Follows, PartsOf
  <2> QED BY <1>1, <1>2, <2>1, <2>2 DEF PartsOf
<1>7. \A k \in PartsOf(g, {"response", "returns"}) :
        k \in PartsOf(j, {g[k].kind}) /\ j[k] = g[k] /\ k \in 1..Len(g)
  BY <1>1, <1>2, <1>4 DEF PartsOf
<1>8. \A k \in PartsOf(j, {"returns"}) :
        \/ k \in PartsOf(g, {"returns"}) /\ j[k] = g[k] /\ k \in 1..Len(g)
        \/ k = Len(g) + 1 /\ j[k].says \subseteq OpenCalls(g)
  <2> SUFFICES ASSUME NEW k \in PartsOf(j, {"returns"}), k \notin 1..Len(g)
               PROVE  k = Len(g) + 1 /\ j[k].says \subseteq OpenCalls(g)
    BY <1>1, <1>2 DEF PartsOf
  <2>1. k \in 1..Len(j) /\ j[k].kind = "returns"
    BY <1>2 DEF PartsOf
  <2>2. k - Len(g) \in 1..Len(p) /\ Len(g) + (k - Len(g)) = k
    BY <1>2, <1>4, <2>1
  <2>3. p[k - Len(g)] = j[k]
    BY <1>2, <2>2
  <2>4. k - Len(g) \in PartsOf(p, {"returns"})
    BY <1>1, <2>1, <2>2, <2>3 DEF PartsOf
  <2>5. k - Len(g) = 1 /\ p[k - Len(g)].says \subseteq OpenCalls(g)
    BY <2>4 DEF Follows
  <2> QED BY <1>4, <2>1, <2>2, <2>3, <2>5
<1>9. Answered(g)
  BY DEF WellKept
<1>10. \A l \in PartsOf(j, {"returns"}) : \A e \in j[l].says :
         \E k \in PartsOf(j, {"response"}) : k < l /\ e \in j[k].says
  <2> SUFFICES ASSUME NEW l \in PartsOf(j, {"returns"}), NEW e \in j[l].says
               PROVE  \E k \in PartsOf(j, {"response"}) : k < l /\ e \in j[k].says
    OBVIOUS
  <2>1. CASE l \in PartsOf(g, {"returns"}) /\ j[l] = g[l]
    <3>1. PICK k \in PartsOf(g, {"response"}) : k < l /\ e \in g[k].says
      BY <1>9, <2>1 DEF Answered
    <3>2. g[k].kind = "response" /\ k \in PartsOf(g, {"response", "returns"})
      BY DEF PartsOf
    <3>3. k \in PartsOf(j, {"response"}) /\ j[k] = g[k]
      BY <1>7, <3>2
    <3> QED BY <3>1, <3>3
  <2>2. CASE l = Len(g) + 1 /\ j[l].says \subseteq OpenCalls(g)
    <3>1. PICK k \in PartsOf(g, {"response"}) : e \in g[k].says
      BY <2>2 DEF OpenCalls, CallsIn
    <3>2. g[k].kind = "response" /\ k \in PartsOf(g, {"response", "returns"})
      BY DEF PartsOf
    <3>3. k \in PartsOf(j, {"response"}) /\ j[k] = g[k] /\ k \in 1..Len(g)
      BY <1>7, <3>2
    <3>4. k < l
      BY <1>4, <2>2, <3>3
    <3> QED BY <3>1, <3>3, <3>4
  <2> QED BY <1>8, <2>1, <2>2
<1>11. \A k, l \in PartsOf(j, {"returns"}) : j[k].says \cap j[l].says # {} => k = l
  <2>1. ASSUME NEW k \in PartsOf(g, {"returns"}), NEW l \in PartsOf(j, {"returns"}),
               j[k] = g[k], l = Len(g) + 1, j[l].says \subseteq OpenCalls(g)
        PROVE  j[k].says \cap j[l].says = {}
    BY <2>1 DEF OpenCalls, ReturnsIn
  <2> SUFFICES ASSUME NEW k \in PartsOf(j, {"returns"}), NEW l \in PartsOf(j, {"returns"}),
                      j[k].says \cap j[l].says # {}
               PROVE  k = l
    OBVIOUS
  <2>2. CASE k \in PartsOf(g, {"returns"}) /\ j[k] = g[k] /\ l \in PartsOf(g, {"returns"}) /\ j[l] = g[l]
    BY <1>9, <2>2 DEF Answered
  <2>3. CASE k = Len(g) + 1 /\ l = Len(g) + 1
    BY <2>3
  <2> QED BY <1>8, <2>1, <2>2, <2>3
<1>12. \A k, l \in PartsOf(j, {"response"}) : j[k].says \cap j[l].says # {} => k = l
  BY <1>6, <1>9 DEF Answered
<1>13. Answered(j)
  BY <1>10, <1>11, <1>12 DEF Answered
<1>14. OpenCalls(j) = OpenCalls(g) \ ReturnsIn(p)
  BY <1>2, <1>3 DEF OpenCalls
<1> QED BY <1>2, <1>5, <1>13, <1>14 DEF WellKept, j

\* The beginning of a history.
LEMMA FirstParts ==
  ASSUME NEW h, WellKept(h), NEW n \in 0..Len(h)
  PROVE  /\ WellKept(SubSeq(h, 1, n)) /\ Len(SubSeq(h, 1, n)) = n
         /\ \A k \in 1..n : SubSeq(h, 1, n)[k] = h[k]
<1> DEFINE s == SubSeq(h, 1, n)
<1>1. h \in Seq(MessagePart) /\ Len(h) \in Nat
  BY DEF WellKept
<1>2. s \in Seq(MessagePart) /\ Len(s) = n /\ \A k \in 1..n : s[k] = h[k]
  BY <1>1
<1> HIDE DEF s
<1>3. s # <<>> => ~s[1].joined
  <2> SUFFICES ASSUME s # <<>> PROVE ~s[1].joined
    OBVIOUS
  <2>1. 1 \in 1..n
    BY <1>2
  <2>2. h # <<>>
    BY <2>1, <1>1
  <2> QED BY <2>1, <2>2, <1>2 DEF WellKept
<1>4. \A kinds : \A k : k \in PartsOf(s, kinds) <=> k \in PartsOf(h, kinds) /\ k \in 1..n
  BY <1>1, <1>2 DEF PartsOf
<1>5. \A kinds : \A k \in PartsOf(s, kinds) : s[k] = h[k] /\ k \in PartsOf(h, kinds)
  BY <1>2, <1>4
<1>6. Answered(h)
  BY DEF WellKept
<1>7. \A l \in PartsOf(s, {"returns"}) : \A e \in s[l].says :
        \E k \in PartsOf(s, {"response"}) : k < l /\ e \in s[k].says
  <2> SUFFICES ASSUME NEW l \in PartsOf(s, {"returns"}), NEW e \in s[l].says
               PROVE  \E k \in PartsOf(s, {"response"}) : k < l /\ e \in s[k].says
    OBVIOUS
  <2>1. l \in PartsOf(h, {"returns"}) /\ e \in h[l].says /\ l \in 1..n
    BY <1>4, <1>5
  <2>2. PICK k \in PartsOf(h, {"response"}) : k < l /\ e \in h[k].says
    BY <1>6, <2>1 DEF Answered
  <2>3. k \in 1..Len(h)
    BY <1>1 DEF PartsOf
  <2>4. k \in 1..n
    BY <2>1, <2>2, <2>3
  <2>5. k \in PartsOf(s, {"response"}) /\ s[k] = h[k]
    BY <1>4, <1>2, <2>4
  <2> QED BY <2>2, <2>5
<1>8. \A k, l \in PartsOf(s, {"returns"}) : s[k].says \cap s[l].says # {} => k = l
  BY <1>5, <1>6 DEF Answered
<1>9. \A k, l \in PartsOf(s, {"response"}) : s[k].says \cap s[l].says # {} => k = l
  BY <1>5, <1>6 DEF Answered
<1> QED BY <1>2, <1>3, <1>7, <1>8, <1>9 DEF WellKept, Answered, s

\* A part on its own.
LEMMA OnePart ==
  ASSUME NEW kind, kind \in PartKind, NEW says, says \subseteq Word
  PROVE  LET p == Piece(kind, says) IN
         /\ p \in MessagePart /\ p.kind = kind /\ p.says = says /\ ~p.joined
         /\ <<p>> \in Seq(MessagePart) /\ Len(<<p>>) = 1 /\ <<p>>[1] = p
         /\ Tells(<<p>>) = says
         /\ ReturnsIn(<<p>>) = (IF kind = "returns" THEN says ELSE {})
         /\ CallsIn(<<p>>) = (IF kind = "response" THEN says ELSE {})
         /\ kind # "response" => PartsOf(<<p>>, {"response"}) = {}
<1> DEFINE p == Piece(kind, says)
<1>1. p \in MessagePart /\ p.kind = kind /\ p.says = says /\ ~p.joined
  BY DEF Piece, MessagePart
<1> HIDE DEF p
<1>2. <<p>> \in Seq(MessagePart) /\ Len(<<p>>) = 1 /\ <<p>>[1] = p /\ DOMAIN <<p>> = {1}
  BY <1>1
<1>3. \A kinds : PartsOf(<<p>>, kinds) = (IF kind \in kinds THEN {1} ELSE {})
  BY <1>1, <1>2 DEF PartsOf
<1>4. Tells(<<p>>) = says
  BY <1>1, <1>2 DEF Tells
<1>5. ReturnsIn(<<p>>) = (IF kind = "returns" THEN says ELSE {})
  BY <1>1, <1>2, <1>3 DEF ReturnsIn
<1>6. CallsIn(<<p>>) = (IF kind = "response" THEN says ELSE {})
  BY <1>1, <1>2, <1>3 DEF CallsIn
<1> QED BY <1>1, <1>2, <1>3, <1>4, <1>5, <1>6 DEF p

\* A part that calls nothing, and answers open calls if any, follows a history.
LEMMA AppendedPart ==
  ASSUME NEW h, WellKept(h), NEW p, p \in MessagePart, ~p.joined, p.kind # "response",
         p.kind = "returns" => p.says \subseteq OpenCalls(h)
  PROVE  /\ Follows(<<p>>, h)
         /\ WellKept(Append(h, p))
         /\ OpenCalls(Append(h, p)) = OpenCalls(h) \ ReturnsIn(<<p>>)
         /\ Tells(Append(h, p)) = Tells(h) \cup Tells(<<p>>)
<1>1. <<p>> \in Seq(MessagePart) /\ Len(<<p>>) = 1 /\ <<p>>[1] = p /\ DOMAIN <<p>> = {1}
  OBVIOUS
<1>2. Follows(<<p>>, h)
  <2>1. \A l \in PartsOf(<<p>>, {"returns"}) : l = 1 /\ p.kind = "returns"
    BY <1>1 DEF PartsOf
  <2>2. PartsOf(<<p>>, {"response"}) = {}
    BY <1>1 DEF PartsOf
  <2> QED BY <1>1, <2>1, <2>2 DEF Follows
<1>3. /\ WellKept(h \o <<p>>) /\ OpenCalls(h \o <<p>>) = OpenCalls(h) \ ReturnsIn(<<p>>)
      /\ Tells(h \o <<p>>) = Tells(h) \cup Tells(<<p>>)
  BY <1>2, FollowedHistory
<1>4. Append(h, p) = h \o <<p>>
  BY DEF WellKept
<1> QED BY <1>2, <1>3, <1>4

\* Answers to open calls.
LEMMA AppendedAnswers ==
  ASSUME NEW h, WellKept(h), NEW calls, calls \subseteq Word, calls \subseteq OpenCalls(h)
  PROVE  /\ Follows(<<Piece("returns", calls)>>, h)
         /\ ReturnsIn(<<Piece("returns", calls)>>) = calls
         /\ Tells(<<Piece("returns", calls)>>) = calls
         /\ WellKept(Append(h, Piece("returns", calls)))
         /\ OpenCalls(Append(h, Piece("returns", calls))) = OpenCalls(h) \ calls
         /\ Tells(Append(h, Piece("returns", calls))) = Tells(h) \cup calls
<1> DEFINE p == Piece("returns", calls)
<1>1. /\ p \in MessagePart /\ p.kind = "returns" /\ p.says = calls /\ ~p.joined
      /\ Tells(<<p>>) = calls /\ ReturnsIn(<<p>>) = calls
  BY OnePart DEF PartKind
<1> HIDE DEF p
<1>2. /\ Follows(<<p>>, h)
      /\ WellKept(Append(h, p))
      /\ OpenCalls(Append(h, p)) = OpenCalls(h) \ ReturnsIn(<<p>>)
      /\ Tells(Append(h, p)) = Tells(h) \cup Tells(<<p>>)
  BY <1>1, AppendedPart
<1> QED BY <1>1, <1>2 DEF p

\* A response makes calls that were not made before.
LEMMA AppendedResponse ==
  ASSUME NEW h, WellKept(h), NEW calls, calls \subseteq Word, calls \cap CallsIn(h) = {}
  PROVE  LET r == Append(h, Piece("response", calls)) IN
         /\ WellKept(r) /\ OpenCalls(r) = OpenCalls(h) \cup calls /\ Tells(r) = Tells(h) \cup calls
         /\ r # <<>> /\ Last(r).kind = "response" /\ Last(r).says = calls
<1> DEFINE p == Piece("response", calls)
           r == Append(h, p)
<1>1. /\ p \in MessagePart /\ p.kind = "response" /\ p.says = calls /\ ~p.joined
      /\ <<p>> \in Seq(MessagePart) /\ Len(<<p>>) = 1 /\ <<p>>[1] = p
      /\ Tells(<<p>>) = calls /\ ReturnsIn(<<p>>) = {} /\ CallsIn(<<p>>) = calls
  <2>1. p \in MessagePart /\ p.kind = "response" /\ p.says = calls /\ ~p.joined
    BY DEF Piece, MessagePart, PartKind
  <2> HIDE DEF p
  <2>2. <<p>> \in Seq(MessagePart) /\ Len(<<p>>) = 1 /\ <<p>>[1] = p /\ DOMAIN <<p>> = {1}
    BY <2>1
  <2>3. PartsOf(<<p>>, {"response"}) = {1} /\ PartsOf(<<p>>, {"returns"}) = {}
    BY <2>1, <2>2 DEF PartsOf
  <2> QED BY <2>1, <2>2, <2>3 DEF Tells, CallsIn, ReturnsIn
<1> HIDE DEF p
<1>2. h \in Seq(MessagePart) /\ Len(h) \in Nat /\ Answered(h)
  BY DEF WellKept
<1>3. r = h \o <<p>>
  BY <1>1, <1>2
<1>4. /\ r \in Seq(MessagePart) /\ Len(r) = Len(h) + 1
      /\ \A k \in 1..Len(h) : r[k] = h[k]
      /\ r[Len(h) + 1] = p
  BY <1>1, <1>2
<1>5. /\ Tells(r) = Tells(h) \cup calls /\ CallsIn(r) = CallsIn(h) \cup calls
      /\ ReturnsIn(r) = ReturnsIn(h)
  <2>1. /\ Tells(h \o <<p>>) = Tells(h) \cup Tells(<<p>>)
        /\ CallsIn(h \o <<p>>) = CallsIn(h) \cup CallsIn(<<p>>)
        /\ ReturnsIn(h \o <<p>>) = ReturnsIn(h) \cup ReturnsIn(<<p>>)
    BY <1>1, <1>2, JoinedHistories
  <2> HIDE DEF r
  <2> QED BY <1>1, <1>3, <2>1
<1> HIDE DEF r
<1>6. r # <<>> /\ Last(r) = p
  BY <1>4, <1>2 DEF Last
<1>7. ~r[1].joined
  <2>1. CASE h = <<>>
    BY <2>1, <1>1, <1>2, <1>4
  <2>2. CASE h # <<>>
    <3>1. 1 \in 1..Len(h)
      BY <2>2, <1>2
    <3> QED BY <3>1, <2>2, <1>4 DEF WellKept
  <2> QED BY <2>1, <2>2
<1>8. \A k \in PartsOf(r, {"returns"}) : k \in PartsOf(h, {"returns"}) /\ r[k] = h[k]
  <2> SUFFICES ASSUME NEW k \in PartsOf(r, {"returns"})
               PROVE  k \in PartsOf(h, {"returns"}) /\ r[k] = h[k]
    OBVIOUS
  <2>1. k \in 1..Len(r) /\ r[k].kind = "returns"
    BY <1>4 DEF PartsOf
  <2>2. k # Len(h) + 1
    BY <1>1, <1>4, <2>1
  <2>3. k \in 1..Len(h)
    BY <1>2, <1>4, <2>1, <2>2
  <2> QED BY <1>2, <1>4, <2>1, <2>3 DEF PartsOf
<1>9. \A k \in PartsOf(r, {"response"}) :
        \/ k \in PartsOf(h, {"response"}) /\ r[k] = h[k] /\ r[k].says \subseteq CallsIn(h)
        \/ k = Len(h) + 1 /\ r[k].says = calls
  <2> SUFFICES ASSUME NEW k \in PartsOf(r, {"response"}), k # Len(h) + 1
               PROVE  k \in PartsOf(h, {"response"}) /\ r[k] = h[k] /\ r[k].says \subseteq CallsIn(h)
    BY <1>1, <1>4
  <2>1. k \in 1..Len(r) /\ r[k].kind = "response"
    BY <1>4 DEF PartsOf
  <2>2. k \in 1..Len(h)
    BY <1>2, <1>4, <2>1
  <2>3. k \in PartsOf(h, {"response"}) /\ r[k] = h[k]
    BY <1>2, <1>4, <2>1, <2>2 DEF PartsOf
  <2> QED BY <2>3 DEF CallsIn
<1>10. \A k \in PartsOf(h, {"response"}) : k \in PartsOf(r, {"response"}) /\ r[k] = h[k]
  <2>1. \A k \in 1..Len(h) : k \in 1..Len(r)
    BY <1>2, <1>4
  <2> QED BY <1>2, <1>4, <2>1 DEF PartsOf
<1>11. Answered(r)
  <2>1. \A l \in PartsOf(r, {"returns"}) : \A e \in r[l].says :
          \E k \in PartsOf(r, {"response"}) : k < l /\ e \in r[k].says
    <3> SUFFICES ASSUME NEW l \in PartsOf(r, {"returns"}), NEW e \in r[l].says
                 PROVE  \E k \in PartsOf(r, {"response"}) : k < l /\ e \in r[k].says
      OBVIOUS
    <3>1. PICK k \in PartsOf(h, {"response"}) : k < l /\ e \in h[k].says
      BY <1>2, <1>8 DEF Answered
    <3> QED BY <3>1, <1>10
  <2>2. \A k, l \in PartsOf(r, {"returns"}) : r[k].says \cap r[l].says # {} => k = l
    BY <1>2, <1>8 DEF Answered
  <2>3. \A k, l \in PartsOf(r, {"response"}) : r[k].says \cap r[l].says # {} => k = l
    <3> SUFFICES ASSUME NEW k \in PartsOf(r, {"response"}), NEW l \in PartsOf(r, {"response"}),
                        r[k].says \cap r[l].says # {}
                 PROVE  k = l
      OBVIOUS
    <3>1. CASE k \in PartsOf(h, {"response"}) /\ r[k] = h[k] /\ l \in PartsOf(h, {"response"}) /\ r[l] = h[l]
      BY <1>2, <3>1 DEF Answered
    <3> QED BY <1>9, <3>1
  <2> QED BY <2>1, <2>2, <2>3 DEF Answered
<1>12. calls \cap ReturnsIn(h) = {}
  BY <1>2, AnsweredWasCalled
<1>13. OpenCalls(r) = OpenCalls(h) \cup calls
  BY <1>5, <1>12 DEF OpenCalls
<1> QED BY <1>1, <1>4, <1>5, <1>6, <1>7, <1>11, <1>13 DEF WellKept, r, p

\* The calls of the last response are open.
LEMMA LastCallsOpen ==
  ASSUME NEW h, WellKept(h), h # <<>>, Last(h).kind = "response"
  PROVE  /\ Last(h).says \subseteq OpenCalls(h) /\ Last(h).says \in SUBSET Word
         /\ Last(h).says \subseteq Tells(h)
<1>1. h \in Seq(MessagePart) /\ Len(h) \in Nat /\ Answered(h) /\ Last(h) = h[Len(h)] /\ Len(h) \in 1..Len(h)
  BY DEF WellKept, Last
<1>2. Len(h) \in PartsOf(h, {"response"})
  BY <1>1 DEF PartsOf
<1>3. ASSUME NEW e \in Last(h).says, e \in ReturnsIn(h)
      PROVE  FALSE
  <2>1. PICK l \in PartsOf(h, {"returns"}) : e \in h[l].says
    BY <1>3 DEF ReturnsIn
  <2>2. PICK k \in PartsOf(h, {"response"}) : k < l /\ e \in h[k].says
    BY <1>1, <2>1 DEF Answered
  <2>3. k = Len(h)
    BY <1>1, <1>2, <1>3, <2>2 DEF Answered
  <2>4. l \in 1..Len(h)
    BY <1>1 DEF PartsOf
  <2> QED BY <1>1, <2>2, <2>3, <2>4
<1>4. Last(h).says \subseteq CallsIn(h)
  BY <1>1, <1>2 DEF CallsIn
<1>5. Last(h).says \in SUBSET Word
  <2>1. Last(h) \in MessagePart
    BY <1>1
  <2> QED BY <2>1 DEF MessagePart
<1>6. Last(h).says \subseteq Tells(h)
  BY <1>1 DEF Tells
<1> QED BY <1>3, <1>4, <1>5, <1>6 DEF OpenCalls

\* What a history tells are words.
LEMMA WordsTold ==
  ASSUME NEW h \in Seq(MessagePart)
  PROVE  /\ Tells(h) \subseteq Word /\ OpenCalls(h) \in SUBSET Word
         /\ OpenCalls(h) \subseteq Tells(h)
<1>1. DOMAIN h = 1..Len(h) /\ \A k \in 1..Len(h) : h[k].says \subseteq Word
  <2>1. DOMAIN h = 1..Len(h) /\ \A k \in 1..Len(h) : h[k] \in MessagePart
    OBVIOUS
  <2> QED BY <2>1 DEF MessagePart
<1>2. Tells(h) \subseteq Word
  BY <1>1 DEF Tells
<1>3. CallsIn(h) \subseteq Tells(h)
  BY DEF CallsIn, Tells, PartsOf
<1> QED BY <1>2, <1>3 DEF OpenCalls

\* repair_interrupted_tool_calls closes every call; nothing else changes.
LEMMA RepairedKept ==
  ASSUME NEW h, WellKept(h)
  PROVE  /\ WellKept(Repaired(h)) /\ OpenCalls(Repaired(h)) = {} /\ Tells(Repaired(h)) = Tells(h)
         /\ WellKept(Interrupted(h)) /\ Tells(Interrupted(h)) = Tells(h)
<1>1. h \in Seq(MessagePart)
  BY DEF WellKept
<1>2. OpenCalls(h) \in SUBSET Word /\ OpenCalls(h) \subseteq Tells(h)
  BY <1>1, WordsTold
<1>3. WellKept(Repaired(h)) /\ OpenCalls(Repaired(h)) = {} /\ Tells(Repaired(h)) = Tells(h)
  <2>1. CASE OpenCalls(h) = {}
    BY <2>1 DEF Repaired
  <2>2. CASE OpenCalls(h) # {}
    <3>1. /\ WellKept(Append(h, Piece("returns", OpenCalls(h))))
          /\ OpenCalls(Append(h, Piece("returns", OpenCalls(h)))) = OpenCalls(h) \ OpenCalls(h)
          /\ Tells(Append(h, Piece("returns", OpenCalls(h)))) = Tells(h) \cup OpenCalls(h)
      BY <1>2, AppendedAnswers
    <3> QED BY <1>2, <2>2, <3>1 DEF Repaired
  <2> QED BY <2>1, <2>2
<1>4. WellKept(Interrupted(h)) /\ Tells(Interrupted(h)) = Tells(h)
  <2> DEFINE p == Piece("status", {})
  <2>1. p \in MessagePart /\ p.kind = "status" /\ ~p.joined /\ Tells(<<p>>) = {}
    BY OnePart DEF PartKind
  <2> HIDE DEF p
  <2>2. WellKept(Append(Repaired(h), p)) /\ Tells(Append(Repaired(h), p)) = Tells(Repaired(h)) \cup Tells(<<p>>)
    BY <1>3, <2>1, AppendedPart
  <2> QED BY <1>3, <2>1, <2>2 DEF Interrupted, p
<1> QED BY <1>3, <1>4

\* Only the form changes: the history stays as it was.
LEMMA SameWordsKept ==
  ASSUME NEW g \in Seq(MessagePart), NEW h, WellKept(h), SameWords(g, h), g # <<>> => ~g[1].joined
  PROVE  /\ WellKept(g) /\ Tells(g) = Tells(h) /\ OpenCalls(g) = OpenCalls(h)
         /\ CallsIn(g) = CallsIn(h) /\ ReturnsIn(g) = ReturnsIn(h)
<1>1. h \in Seq(MessagePart) /\ Answered(h)
  BY DEF WellKept
<1>2. /\ Tells(g) = Tells(h) /\ CallsIn(g) = CallsIn(h) /\ ReturnsIn(g) = ReturnsIn(h)
      /\ OpenCalls(g) = OpenCalls(h)
      /\ Answered(h) => Answered(g)
  BY <1>1, SameWordsTell
<1>3. Answered(g)
  BY <1>1, <1>2
<1>4. WellKept(g)
  BY <1>3 DEF WellKept
<1> QED BY <1>2, <1>4

\* A request of the same words follows too.
LEMMA SameWordsFollow ==
  ASSUME NEW q \in Seq(MessagePart), NEW p, NEW h, Follows(p, h), SameWords(q, p), q # <<>> => ~q[1].joined
  PROVE  Follows(q, h) /\ Tells(q) = Tells(p) /\ ReturnsIn(q) = ReturnsIn(p)
<1>1. p \in Seq(MessagePart)
  BY DEF Follows
<1>2. Tells(q) = Tells(p) /\ ReturnsIn(q) = ReturnsIn(p)
  BY <1>1, SameWordsTell
<1>3. \A k \in 1..Len(p) : q[k].kind = p[k].kind /\ q[k].says = p[k].says
  BY DEF SameWords
<1>4. DOMAIN q = 1..Len(p) /\ DOMAIN p = 1..Len(p)
  BY <1>1 DEF SameWords
<1>5. PartsOf(q, {"response"}) = {}
  BY <1>3, <1>4 DEF Follows, PartsOf
<1>6. \A l \in PartsOf(q, {"returns"}) : l = 1 /\ q[l].says \subseteq OpenCalls(h)
  BY <1>3, <1>4 DEF Follows, PartsOf
<1> QED BY <1>2, <1>5, <1>6 DEF Follows

\* A history whose parts are joined otherwise.
LEMMA Rejoined ==
  ASSUME NEW h \in Seq(MessagePart), NEW g, DOMAIN g = 1..Len(h),
         \A k \in 1..Len(h) : \E j \in BOOLEAN : g[k] = [h[k] EXCEPT !.joined = j],
         g = [k \in DOMAIN g |-> g[k]]
  PROVE  g \in Seq(MessagePart) /\ Len(g) = Len(h) /\ SameWords(g, h)
<1>1. Len(h) \in Nat /\ \A k \in 1..Len(h) : h[k] \in MessagePart
  OBVIOUS
<1>2. \A k \in 1..Len(h) : g[k] \in MessagePart /\ g[k].kind = h[k].kind /\ g[k].says = h[k].says
  <2> SUFFICES ASSUME NEW k \in 1..Len(h)
               PROVE  g[k] \in MessagePart /\ g[k].kind = h[k].kind /\ g[k].says = h[k].says
    OBVIOUS
  <2>1. h[k] \in MessagePart
    BY <1>1
  <2>2. PICK j \in BOOLEAN : g[k] = [h[k] EXCEPT !.joined = j]
    OBVIOUS
  <2> QED BY <2>1, <2>2 DEF MessagePart
<1>3. g \in Seq(MessagePart) /\ Len(g) = Len(h)
  BY <1>1, <1>2
<1> QED BY <1>2, <1>3 DEF SameWords

\* The client joins messages: they tell the same.
LEMMA MergedKept ==
  ASSUME NEW h, WellKept(h)
  PROVE  /\ WellKept(Merged(h)) /\ SameWords(Merged(h), h)
         /\ Tells(Merged(h)) = Tells(h) /\ OpenCalls(Merged(h)) = OpenCalls(h)
<1> DEFINE g == Merged(h)
           joins(k) == h[k].joined \/ (k > 1 /\ \A l \in {k - 1, k} : h[l].kind \notin {"response", "status"})
<1>1. h \in Seq(MessagePart) /\ DOMAIN h = 1..Len(h)
  BY DEF WellKept
<1>2. g = [k \in 1..Len(h) |-> [h[k] EXCEPT !.joined = joins(k)]]
  BY <1>1 DEF Merged
<1>3. \A k \in 1..Len(h) : joins(k) \in BOOLEAN
  OBVIOUS
<1>4. DOMAIN g = 1..Len(h) /\ \A k \in 1..Len(h) : g[k] = [h[k] EXCEPT !.joined = joins(k)]
  BY <1>2
<1>5. g = [k \in DOMAIN g |-> g[k]]
  BY <1>2
<1>6. g # <<>> => ~joins(1) /\ 1 \in 1..Len(h)
  <2>1. g # <<>> => 1 \in 1..Len(h) /\ h # <<>>
    BY <1>1, <1>4, <1>5
  <2> QED BY <2>1 DEF WellKept
<1> HIDE DEF g, joins
<1>7. g \in Seq(MessagePart) /\ SameWords(g, h)
  BY <1>1, <1>3, <1>4, <1>5, Rejoined
<1>8. g # <<>> => ~g[1].joined
  <2> SUFFICES ASSUME g # <<>> PROVE ~g[1].joined
    OBVIOUS
  <2>1. g[1] = [h[1] EXCEPT !.joined = joins(1)] /\ h[1] \in MessagePart
    BY <1>1, <1>4, <1>6
  <2> QED BY <2>1, <1>6 DEF MessagePart
<1> QED BY <1>7, <1>8, SameWordsKept DEF g

\* Where the message of a part begins.
LEMMA BegunInside ==
  ASSUME NEW h, h # <<>> => ~h[1].joined, h \in Seq(MessagePart), NEW k \in 1..Len(h)
  PROVE  BegunAt(h, k) \in 1..k
<1> DEFINE S == {l \in 1..k : ~h[l].joined}
<1>1. Len(h) \in Nat /\ k \in Nat /\ 1 \in 1..k /\ h # <<>>
  OBVIOUS
<1>2. 1 \in S
  BY <1>1
<1>3. S \in SUBSET Nat /\ \A x \in S : x <= k
  BY <1>1
<1>4. Max(S) \in S
  <2> HIDE DEF S
  <2> QED BY <1>1, <1>2, <1>3, LargestNumber
<1> QED BY <1>4 DEF BegunAt

\* The parts of the user as units.
LEMMA UnitsKept ==
  ASSUME NEW h, WellKept(h)
  PROVE  /\ WellKept(Units(h)) /\ SameWords(Units(h), h) /\ Len(Units(h)) = Len(h)
         /\ Tells(Units(h)) = Tells(h) /\ OpenCalls(Units(h)) = OpenCalls(h)
<1> DEFINE g == Units(h)
           mixed == {BegunAt(h, k) : k \in DOMAIN h \ Asks(h)}
           joins(k) == h[k].joined /\ BegunAt(h, k) \in mixed
<1>1. h \in Seq(MessagePart) /\ DOMAIN h = 1..Len(h)
  BY DEF WellKept
<1>2. g = [k \in 1..Len(h) |-> [h[k] EXCEPT !.joined = joins(k)]]
  BY <1>1 DEF Units
<1>3. \A k \in 1..Len(h) : joins(k) \in BOOLEAN
  OBVIOUS
<1>4. DOMAIN g = 1..Len(h) /\ \A k \in 1..Len(h) : g[k] = [h[k] EXCEPT !.joined = joins(k)]
  BY <1>2
<1>5. g = [k \in DOMAIN g |-> g[k]]
  BY <1>2
<1>6. g # <<>> => ~joins(1) /\ 1 \in 1..Len(h)
  <2>1. g # <<>> => 1 \in 1..Len(h) /\ h # <<>>
    BY <1>1, <1>4, <1>5
  <2> QED BY <2>1 DEF WellKept
<1> HIDE DEF g, joins
<1>7. g \in Seq(MessagePart) /\ Len(g) = Len(h) /\ SameWords(g, h)
  BY <1>1, <1>3, <1>4, <1>5, Rejoined
<1>8. g # <<>> => ~g[1].joined
  <2> SUFFICES ASSUME g # <<>> PROVE ~g[1].joined
    OBVIOUS
  <2>1. g[1] = [h[1] EXCEPT !.joined = joins(1)] /\ h[1] \in MessagePart
    BY <1>1, <1>4, <1>6
  <2> QED BY <2>1, <1>6 DEF MessagePart
<1> QED BY <1>7, <1>8, SameWordsKept DEF g

\* messages_safe_for_new_prompt cuts a history off, and nothing else.
LEMMA SafeKept ==
  ASSUME NEW h, WellKept(h)
  PROVE  WellKept(Safe(h)) /\ Tells(Safe(h)) \subseteq Word /\ OpenCalls(Safe(h)) \subseteq Word
<1> DEFINE calling == {k \in PartsOf(h, {"response"}) : h[k].says \cap OpenCalls(h) # {}}
           prompts == {BegunAt(h, k) : k \in Asks(h) \cap 1..Min(calling)}
           cut     == IF prompts = {} THEN Min(calling) ELSE Max(prompts)
<1>1. h \in Seq(MessagePart) /\ Len(h) \in Nat /\ (h # <<>> => ~h[1].joined)
  BY DEF WellKept
<1>2. WellKept(Safe(h))
  <2>1. CASE calling = {}
    BY <2>1 DEF Safe
  <2>2. CASE calling # {}
    <3>1. calling \in SUBSET Nat /\ calling \subseteq 1..Len(h)
      BY <1>1 DEF PartsOf
    <3>2. Min(calling) \in 1..Len(h)
      <4> HIDE DEF calling
      <4> QED BY <2>2, <3>1, SmallestNumber
    <3>3. \A p \in prompts : p \in 1..Len(h)
      <4> HIDE DEF calling
      <4>1. \A k \in Asks(h) : k \in 1..Len(h)
        BY <1>1 DEF Asks, PartsOf
      <4>2. \A k \in 1..Len(h) : BegunAt(h, k) \in 1..k
        BY <1>1, BegunInside
      <4> QED BY <4>1, <4>2
    <3>4. cut \in 1..Len(h)
      <4>1. CASE prompts = {}
        BY <4>1, <3>2
      <4>2. CASE prompts # {}
        <5>1. Max(prompts) \in prompts
          <6>1. \A x \in prompts : x \in Nat /\ x <= Len(h)
            <7> HIDE DEF prompts
            <7> QED BY <1>1, <3>3
          <6> HIDE DEF prompts
          <6> QED BY <1>1, <4>2, <6>1, LargestNumber
        <5>2. Max(prompts) \in 1..Len(h)
          <6> HIDE DEF prompts
          <6> QED BY <3>3, <5>1
        <5> HIDE DEF prompts
        <5> QED BY <4>2, <5>2
      <4> QED BY <4>1, <4>2
    <3>5. Safe(h) = SubSeq(h, 1, cut - 1)
      BY <2>2 DEF Safe
    <3> HIDE DEF cut
    <3>6. cut - 1 \in 0..Len(h)
      BY <1>1, <3>4
    <3> QED BY <3>5, <3>6, FirstParts
  <2> QED BY <2>1, <2>2
<1>3. Safe(h) \in Seq(MessagePart)
  BY <1>2 DEF WellKept
<1> QED BY <1>2, <1>3, WordsTold

\* What the user said, as the parts of a request.
LEMMA PromptsTell ==
  ASSUME NEW S, S \subseteq Input
  PROVE  /\ Prompts(S) \in Seq(MessagePart)
         /\ \A k \in 1..Len(Prompts(S)) : Prompts(S)[k].kind = "user" /\ ~Prompts(S)[k].joined
         /\ Tells(Prompts(S)) = S
<1> DEFINE p == Prompts(S)
<1>1. S \in SUBSET Nat /\ IsFiniteSet(S)
  <2>1. IsFiniteSet(Input)
    BY RequestAssumption, FS_Interval DEF Input
  <2>2. Input \subseteq Nat
    BY RequestAssumption DEF Input
  <2> QED BY <2>1, <2>2, FS_Subset
<1>2. /\ Cardinality(S) \in Nat
      /\ \A n \in 1..Cardinality(S) : Nth(S, n) \in S
      /\ \A x \in S : \E n \in 1..Cardinality(S) : Nth(S, n) = x
  BY <1>1, NthNumber
<1>3. p = [n \in 1..Cardinality(S) |-> Piece("user", {Nth(S, n)})]
  BY DEF Prompts
<1>4. \A n \in 1..Cardinality(S) :
        LET q == Piece("user", {Nth(S, n)}) IN
        q \in MessagePart /\ q.kind = "user" /\ ~q.joined /\ q.says = {Nth(S, n)}
  <2> SUFFICES ASSUME NEW n \in 1..Cardinality(S)
               PROVE  LET q == Piece("user", {Nth(S, n)}) IN
                      q \in MessagePart /\ q.kind = "user" /\ ~q.joined /\ q.says = {Nth(S, n)}
    OBVIOUS
  <2>1. {Nth(S, n)} \in SUBSET Word
    BY <1>2 DEF Word
  <2>2. "user" \in PartKind
    BY DEF PartKind
  <2> HIDE DEF p
  <2> DEFINE w == {Nth(S, n)}
  <2>3. w \in SUBSET Word
    BY <2>1
  <2> HIDE DEF w
  <2>4. LET q == Piece("user", w) IN q \in MessagePart /\ q.kind = "user" /\ ~q.joined /\ q.says = w
    BY <2>2, <2>3 DEF Piece, MessagePart
  <2> QED BY <2>4 DEF w
<1>5. \A n \in 1..Cardinality(S) :
        p[n] \in MessagePart /\ p[n].kind = "user" /\ ~p[n].joined /\ p[n].says = {Nth(S, n)}
  BY <1>3, <1>4
<1>6. p \in Seq(MessagePart) /\ Len(p) = Cardinality(S) /\ DOMAIN p = 1..Cardinality(S)
  <2>1. DOMAIN p = 1..Cardinality(S) /\ \A n \in 1..Cardinality(S) : p[n] \in MessagePart
    BY <1>3, <1>5
  <2>2. p = [n \in 1..Cardinality(S) |-> p[n]]
    BY <1>3
  <2> HIDE DEF p
  <2> DEFINE m == Cardinality(S)
  <2>3. m \in Nat /\ DOMAIN p = 1..m /\ \A n \in 1..m : p[n] \in MessagePart
    BY <1>2, <2>1
  <2>4. p = [n \in 1..m |-> p[n]]
    BY <2>2
  <2> HIDE DEF m
  <2>5. p \in Seq(MessagePart) /\ Len(p) = m
    BY <2>3, <2>4
  <2> QED BY <2>1, <2>5 DEF m
<1> HIDE DEF p
<1>7. Tells(p) = S
  <2>1. Tells(p) \subseteq S
    BY <1>2, <1>5, <1>6 DEF Tells
  <2>2. \A x \in S : x \in Tells(p)
    <3> SUFFICES ASSUME NEW x \in S PROVE x \in Tells(p)
      OBVIOUS
    <3>1. PICK n \in 1..Cardinality(S) : Nth(S, n) = x
      BY <1>2
    <3>2. x \in p[n].says
      BY <1>5, <3>1
    <3> QED BY <1>6, <3>2 DEF Tells
  <2> QED BY <2>1, <2>2
<1> QED BY <1>5, <1>6, <1>7 DEF p

\* What the user said follows any history, alone or with a request.
LEMMA PromptsFollow ==
  ASSUME NEW S, S \subseteq Input, NEW h, WellKept(h)
  PROVE  /\ Follows(Prompts(S), h) /\ ReturnsIn(Prompts(S)) = {}
         /\ \A p : Follows(p, h) =>
              LET q == Joined(p \o Prompts(S)) IN
                Follows(q, h) /\ ReturnsIn(q) = ReturnsIn(p) /\ Tells(q) = Tells(p) \cup S
<1> DEFINE u == Prompts(S)
<1>1. u \in Seq(MessagePart) /\ DOMAIN u = 1..Len(u) /\ Len(u) \in Nat
      /\ \A k \in 1..Len(u) : u[k].kind = "user" /\ ~u[k].joined
  BY PromptsTell
<1>2. Tells(u) = S
  BY PromptsTell
<1> HIDE DEF u
<1>3. PartsOf(u, {"response"}) = {} /\ PartsOf(u, {"returns"}) = {}
  BY <1>1 DEF PartsOf
<1>4. u # <<>> => ~u[1].joined
  <2>1. u # <<>> => 1 \in 1..Len(u)
    BY <1>1
  <2> QED BY <1>1, <2>1
<1>5. Follows(u, h) /\ ReturnsIn(u) = {}
  BY <1>1, <1>3, <1>4 DEF Follows, ReturnsIn
<1>6. ASSUME NEW p, Follows(p, h)
      PROVE  LET q == Joined(p \o u) IN
             Follows(q, h) /\ ReturnsIn(q) = ReturnsIn(p) /\ Tells(q) = Tells(p) \cup S
  <2> DEFINE j == p \o u
             q == Joined(j)
  <2>1. p \in Seq(MessagePart) /\ Len(p) \in Nat
    BY <1>6 DEF Follows
  <2>2. /\ j \in Seq(MessagePart) /\ Len(j) = Len(p) + Len(u)
        /\ \A k \in 1..Len(p) : j[k] = p[k]
        /\ \A k \in 1..Len(u) : j[Len(p) + k] = u[k]
        /\ Tells(j) = Tells(p) \cup Tells(u)
        /\ ReturnsIn(j) = ReturnsIn(p) \cup ReturnsIn(u)
    BY <1>1, <2>1, JoinedHistories
  <2> HIDE DEF j
  <2>3. \A k \in 1..Len(j) : (k \in 1..Len(p) /\ j[k] = p[k]) \/ j[k].kind = "user"
    <3> SUFFICES ASSUME NEW k \in 1..Len(j), k \notin 1..Len(p) PROVE j[k].kind = "user"
      BY <2>2
    <3>1. k - Len(p) \in 1..Len(u) /\ Len(p) + (k - Len(p)) = k
      BY <1>1, <2>1, <2>2
    <3>2. j[k] = u[k - Len(p)]
      BY <2>2, <3>1
    <3> QED BY <1>1, <3>1, <3>2
  <2>4. PartsOf(j, {"response"}) = {}
    BY <1>6, <2>1, <2>2, <2>3 DEF PartsOf, Follows
  <2>5. \A l \in PartsOf(j, {"returns"}) : l = 1 /\ j[l].says \subseteq OpenCalls(h)
    BY <1>6, <2>1, <2>2, <2>3 DEF PartsOf, Follows
  <2>6. q = [k \in 1..Len(j) |-> [j[k] EXCEPT !.joined = k > 1]]
    BY <2>2 DEF Joined
  <2>7. DOMAIN q = 1..Len(j) /\ \A k \in 1..Len(j) : q[k] = [j[k] EXCEPT !.joined = k > 1]
    BY <2>6
  <2>8. q = [k \in DOMAIN q |-> q[k]]
    BY <2>6
  <2> HIDE DEF q
  <2>9. q \in Seq(MessagePart) /\ Len(q) = Len(j) /\ SameWords(q, j)
    <3>1. \A k \in 1..Len(j) : (k > 1) \in BOOLEAN
      OBVIOUS
    <3> QED BY <2>2, <2>7, <2>8, <3>1, Rejoined
  <2>10. q # <<>> => ~q[1].joined
    <3> SUFFICES ASSUME q # <<>> PROVE ~q[1].joined
      OBVIOUS
    <3>1. 1 \in 1..Len(j)
      BY <2>2, <2>9
    <3>2. q[1] = [j[1] EXCEPT !.joined = 1 > 1] /\ j[1] \in MessagePart
      BY <2>2, <2>7, <3>1
    <3>3. ~(1 > 1)
      OBVIOUS
    <3> QED BY <3>2, <3>3 DEF MessagePart
  <2>11. Tells(q) = Tells(j) /\ ReturnsIn(q) = ReturnsIn(j)
    BY <2>2, <2>9, SameWordsTell
  <2>12. \A k \in 1..Len(j) : q[k].kind = j[k].kind /\ q[k].says = j[k].says
    BY <2>9 DEF SameWords
  <2>13. DOMAIN q = 1..Len(j) /\ DOMAIN j = 1..Len(j)
    BY <2>2, <2>7
  <2>14. PartsOf(q, {"response"}) = {}
    BY <2>4, <2>12, <2>13 DEF PartsOf
  <2>15. \A l \in PartsOf(q, {"returns"}) : l = 1 /\ q[l].says \subseteq OpenCalls(h)
    BY <2>5, <2>12, <2>13 DEF PartsOf
  <2>16. Follows(q, h)
    BY <2>9, <2>10, <2>14, <2>15 DEF Follows
  <2> QED BY <1>2, <1>5, <2>2, <2>11, <2>16 DEF q, j
<1> QED BY <1>5, <1>6 DEF u

-----------------------------------------------------------------------------
(* Compression: the bounds cut no call from its answer.                    *)

\* The calls of the first n parts are answered there.
ClosedAt(h, n) ==
  \A k \in PartsOf(h, {"response"}) : k <= n =>
    \A e \in h[k].says : \E m \in PartsOf(h, {"returns"}) : m <= n /\ e \in h[m].says

\* The same, unless nothing is left behind them.
ClosedOrEnd(h, n) == n = Len(h) \/ ClosedAt(h, n)

\* _closed_boundaries are closed, and the beginning is one of them.
LEMMA BoundariesClosed ==
  ASSUME NEW h, WellKept(h)
  PROVE  /\ Boundaries(h) \subseteq 0..Len(h) /\ 0 \in Boundaries(h)
         /\ \A n \in Boundaries(h) : ClosedAt(h, n)
<1>1. h \in Seq(MessagePart) /\ Len(h) \in Nat /\ DOMAIN h = 1..Len(h)
  BY DEF WellKept
<1>2. Boundaries(h) \subseteq 0..Len(h)
  BY DEF Boundaries
<1>3. 0 \in Boundaries(h)
  <2>1. SubSeq(h, 1, 0) = <<>>
    BY <1>1
  <2>2. OpenCalls(SubSeq(h, 1, 0)) = {}
    BY <2>1 DEF OpenCalls, CallsIn, PartsOf
  <2>3. 0 \in 0..Len(h) /\ 0 \notin 1..(Len(h) - 1)
    BY <1>1
  <2> QED BY <2>2, <2>3 DEF Boundaries
<1>4. ASSUME NEW n \in Boundaries(h)
      PROVE  ClosedAt(h, n)
  <2> DEFINE s == SubSeq(h, 1, n)
  <2>1. n \in 0..Len(h) /\ OpenCalls(s) = {}
    BY DEF Boundaries
  <2>2. s \in Seq(MessagePart) /\ Len(s) = n /\ \A k \in 1..n : s[k] = h[k]
    <3>1. WellKept(s) /\ Len(s) = n /\ \A k \in 1..n : s[k] = h[k]
      BY <2>1, FirstParts
    <3> QED BY <3>1 DEF WellKept
  <2> HIDE DEF s
  <2>3. \A kinds : \A k : k \in PartsOf(s, kinds) <=> k \in PartsOf(h, kinds) /\ k \in 1..n
    BY <1>1, <2>1, <2>2 DEF PartsOf
  <2> SUFFICES ASSUME NEW k \in PartsOf(h, {"response"}), k <= n, NEW e \in h[k].says
               PROVE  \E m \in PartsOf(h, {"returns"}) : m <= n /\ e \in h[m].says
    BY DEF ClosedAt
  <2>4. k \in 1..n
    BY <1>1, <2>1 DEF PartsOf
  <2>5. k \in PartsOf(s, {"response"}) /\ e \in s[k].says
    BY <2>2, <2>3, <2>4
  <2>6. e \in ReturnsIn(s)
    BY <2>1, <2>5 DEF OpenCalls, CallsIn
  <2>7. PICK m \in PartsOf(s, {"returns"}) : e \in s[m].says
    BY <2>6 DEF ReturnsIn
  <2>8. m \in PartsOf(h, {"returns"}) /\ m \in 1..n /\ s[m] = h[m]
    BY <2>2, <2>3
  <2> QED BY <2>1, <2>7, <2>8
<1> QED BY <1>2, <1>3, <1>4

\* What lies between the bounds can be taken out.
LEMMA BoundsClosed ==
  ASSUME NEW h, WellKept(h), NEW retain \in BOOLEAN, Bounds(h, retain) # <<>>
  PROVE  LET b == Bounds(h, retain) IN
         /\ b[1] \in 0..Len(h) /\ b[2] \in b[1]..Len(h)
         /\ ClosedAt(h, b[1]) /\ ClosedOrEnd(h, b[2])
<1> DEFINE S      == {BegunAt(h, k) - 1 : k \in Asks(h)}
           starts == Sorted(S) \o <<Len(h)>>
           n      == Len(starts)
           head   == IF n = 1 THEN 0 ELSE starts[Min({HeadTurns, n - 1}) + 1]
           tail   == starts[Max({0, n - 1 - TailTurns}) + 1]
           lower  == {k \in Boundaries(h) : k <= head}
           upper  == {k \in Boundaries(h) : k >= tail} \cup {Len(h)}
           first  == Max(lower)
           last   == Min(upper)
           inner  == Boundaries(h) \ {0, Len(h)}
           b      == Bounds(h, retain)
<1>1. h \in Seq(MessagePart) /\ Len(h) \in Nat /\ (h # <<>> => ~h[1].joined)
  BY DEF WellKept
<1>2. /\ Boundaries(h) \subseteq 0..Len(h) /\ 0 \in Boundaries(h)
      /\ \A k \in Boundaries(h) : ClosedAt(h, k)
  BY BoundariesClosed
<1>3. b = CASE ~retain -> <<0, Len(h)>>
            [] retain /\ first < last -> <<first, last>>
            [] retain /\ first >= last /\ inner # {} -> <<0, Max(inner)>>
            [] OTHER -> <<>>
  BY DEF Bounds
<1>4. S \in SUBSET Nat /\ IsFiniteSet(S) /\ \A x \in S : x \in 0..Len(h)
  <2>1. \A k \in Asks(h) : k \in 1..Len(h)
    BY <1>1 DEF Asks, PartsOf
  <2>2. \A k \in 1..Len(h) : BegunAt(h, k) \in 1..k
    BY <1>1, BegunInside
  <2>3. \A k \in Asks(h) : BegunAt(h, k) - 1 \in 0..Len(h)
    BY <1>1, <2>1, <2>2
  <2>4. S \subseteq 0..Len(h)
    BY <2>3
  <2>5. IsFiniteSet(0..Len(h))
    BY <1>1, FS_Interval
  <2>6. IsFiniteSet(S)
    BY <2>4, <2>5, FS_Subset
  <2> HIDE DEF S
  <2> QED BY <1>1, <2>4, <2>6
<1>5. Cardinality(S) \in Nat /\ \A i \in 1..Cardinality(S) : Nth(S, i) \in S
  <2> HIDE DEF S
  <2> QED BY <1>4, NthNumber
<1>6. n = Cardinality(S) + 1 /\ \A i \in 1..n : starts[i] \in 0..Len(h)
  <2> DEFINE m == Cardinality(S)
             q == Sorted(S)
  <2>1. q = [i \in 1..m |-> Nth(S, i)]
    BY DEF Sorted
  <2>2. \A i \in 1..m : Nth(S, i) \in 0..Len(h)
    <3> HIDE DEF S
    <3> QED BY <1>4, <1>5
  <2>3. m \in Nat /\ q = [i \in 1..m |-> q[i]] /\ \A i \in 1..m : q[i] \in 0..Len(h)
    BY <1>5, <2>1, <2>2
  <2> HIDE DEF q, m
  <2>4. q \in Seq(0..Len(h)) /\ Len(q) = m
    BY <2>3
  <2>5. <<Len(h)>> \in Seq(0..Len(h)) /\ Len(<<Len(h)>>) = 1
    BY <1>1
  <2>6. starts \in Seq(0..Len(h)) /\ Len(starts) = m + 1
    <3>1. starts = q \o <<Len(h)>>
      BY DEF q
    <3> HIDE DEF starts
    <3> QED BY <2>4, <2>5, <3>1
  <2> HIDE DEF starts
  <2>7. \A i \in 1..Len(starts) : starts[i] \in 0..Len(h)
    BY <2>6
  <2> QED BY <2>6, <2>7 DEF m
<1>7. head \in Nat
  <2> DEFINE N == {HeadTurns, n - 1}
  <2> HIDE DEF starts, S
  <2>1. n \in Nat /\ n >= 1
    BY <1>5, <1>6
  <2> HIDE DEF n
  <2>2. N \in SUBSET Nat /\ N # {} /\ n - 1 \in N
    BY <2>1, RequestAssumption
  <2>3. Min(N) \in N /\ \A y \in N : Min(N) <= y
    <3> HIDE DEF N
    <3> QED BY <2>2, SmallestNumber
  <2>4. Min(N) \in Nat /\ Min(N) <= n - 1
    <3> HIDE DEF N
    <3> QED BY <2>2, <2>3
  <2> DEFINE i == Min(N) + 1
  <2>5. i \in 1..n
    <3> HIDE DEF N
    <3> QED BY <2>1, <2>4
  <2>6. starts[i] \in 0..Len(h)
    <3> HIDE DEF i
    <3> QED BY <1>6, <2>5
  <2> QED BY <1>1, <2>6
<1> HIDE DEF head, tail
<1>8. first \in Boundaries(h)
  <2>1. 0 \in lower /\ lower \in SUBSET Nat /\ \A x \in lower : x <= Len(h)
    BY <1>1, <1>2, <1>7
  <2>2. lower \subseteq Boundaries(h)
    OBVIOUS
  <2> HIDE DEF lower
  <2> QED BY <1>1, <2>1, <2>2, LargestNumber
<1>9. last \in Boundaries(h) \cup {Len(h)}
  <2>1. upper # {} /\ upper \in SUBSET Nat
    BY <1>1, <1>2
  <2>2. upper \subseteq Boundaries(h) \cup {Len(h)}
    OBVIOUS
  <2> HIDE DEF upper
  <2> QED BY <2>1, <2>2, SmallestNumber
<1>10. inner # {} => Max(inner) \in Boundaries(h)
  <2>1. inner \in SUBSET Nat /\ \A x \in inner : x <= Len(h)
    BY <1>1, <1>2
  <2>2. inner \subseteq Boundaries(h)
    OBVIOUS
  <2> HIDE DEF inner
  <2> QED BY <1>1, <2>1, <2>2, LargestNumber
<1> HIDE DEF first, last, inner, b
<1>11. CASE ~retain
  <2>1. b[1] = 0 /\ b[2] = Len(h)
    BY <1>3, <1>11
  <2> QED BY <1>1, <1>2, <2>1 DEF b, ClosedOrEnd
<1>12. CASE retain /\ first < last
  <2>0. ~(~retain) /\ ~(retain /\ first >= last /\ inner # {})
    <3>1. first \in Nat /\ last \in Nat
      BY <1>1, <1>2, <1>8, <1>9
    <3> QED BY <1>12, <3>1
  <2>1. b = <<first, last>>
    BY <1>3, <1>12, <2>0
  <2>2. first \in 0..Len(h) /\ last \in first..Len(h)
    BY <1>1, <1>2, <1>8, <1>9, <1>12
  <2> QED BY <1>2, <1>8, <1>9, <2>1, <2>2 DEF b, ClosedOrEnd
<1>13. CASE retain /\ ~(first < last)
  <2>1. first \in Nat /\ last \in Nat
    BY <1>1, <1>2, <1>8, <1>9
  <2>2. first >= last
    BY <1>13, <2>1
  <2>3. inner # {}
    BY <1>3, <1>13, <2>2 DEF b
  <2>4. b[1] = 0 /\ b[2] = Max(inner)
    BY <1>3, <1>13, <2>2, <2>3
  <2>5. Max(inner) \in 0..Len(h)
    BY <1>2, <1>10, <2>3
  <2> QED BY <1>1, <1>2, <1>10, <2>3, <2>4, <2>5 DEF b, ClosedOrEnd
<1> QED BY <1>11, <1>12, <1>13

\* A summary takes the place of what lies between two such bounds.
LEMMA CutOut ==
  ASSUME NEW g, WellKept(g), NEW w, w \subseteq Word,
         NEW x \in Nat, NEW y \in Nat, x <= y, y <= Len(g),
         ClosedAt(g, x), ClosedOrEnd(g, y)
  PROVE  LET r == SubSeq(g, 1, x) \o <<Piece("summary", w)>> \o SubSeq(g, y + 1, Len(g)) IN
         /\ WellKept(r) /\ OpenCalls(r) \subseteq OpenCalls(g) /\ r # <<>>
         /\ w \subseteq Tells(r)
         /\ \A k \in 1..Len(g) : k <= x \/ k > y => g[k].says \subseteq Tells(r)
<1> DEFINE s == Piece("summary", w)
           r == SubSeq(g, 1, x) \o <<s>> \o SubSeq(g, y + 1, Len(g))
           from(k) == IF k <= x THEN k ELSE k - (x + 1) + y
<1>1. g \in Seq(MessagePart) /\ Len(g) \in Nat /\ DOMAIN g = 1..Len(g) /\ Answered(g)
      /\ x \in Nat /\ y \in Nat /\ x <= y /\ y <= Len(g)
  BY DEF WellKept
<1>16. \A i \in 1..Len(g) : i > y => y # Len(g)
  <2>1. Len(g) \in Nat
    BY <1>1
  <2>2. ASSUME NEW L \in Nat, NEW i \in 1..L, i > y
        PROVE  y # L
    BY <2>2
  <2> QED BY <2>1, <2>2
<1>0. s \in MessagePart /\ s.kind = "summary" /\ s.says = w /\ ~s.joined
  BY DEF Piece, MessagePart, PartKind
<1> HIDE DEF s
<1>2. /\ r \in Seq(MessagePart) /\ Len(r) = x + 1 + (Len(g) - y)
      /\ \A k \in 1..x : r[k] = g[k]
      /\ r[x + 1] = s
      /\ \A k \in 1..(Len(g) - y) : r[x + 1 + k] = g[y + k]
  <2> DEFINE a == SubSeq(g, 1, x)
             z == SubSeq(g, y + 1, Len(g))
  <2>1. a \in Seq(MessagePart) /\ Len(a) = x /\ \A k \in 1..x : a[k] = g[k]
    BY <1>1
  <2>2. z \in Seq(MessagePart) /\ Len(z) = Len(g) - y /\ \A k \in 1..(Len(g) - y) : z[k] = g[y + k]
    <3> DEFINE L == Len(g)
    <3>1. L \in Nat /\ y + 1 \in 1..(L + 1) /\ L - y \in Nat /\ y <= L
      BY <1>1
    <3>2. \A k \in 1..(L - y) : y + k \in 1..L /\ k + (y + 1) - 1 = y + k
      BY <1>1, <3>1
    <3> HIDE DEF L
    <3>3. g \in Seq(MessagePart) /\ DOMAIN g = 1..L /\ L = Len(g)
      BY <1>1 DEF L
    <3>4. z = SubSeq(g, y + 1, L)
      BY DEF L
    <3> HIDE DEF z
    <3>5. z \in Seq(MessagePart) /\ Len(z) = L - y
      <4>1. y + 1 \in Int /\ L \in Int /\ \A i \in (y + 1)..L : g[i] \in MessagePart
        BY <1>1, <3>1, <3>3
      <4>2. /\ SubSeq(g, y + 1, L) \in Seq(MessagePart)
            /\ Len(SubSeq(g, y + 1, L)) = IF y + 1 <= L THEN L - (y + 1) + 1 ELSE 0
        BY <4>1, SubSeqProperties, SMTT(40)
      <4>3. (IF y + 1 <= L THEN L - (y + 1) + 1 ELSE 0) = L - y
        BY <1>1, <3>1
      <4> QED BY <3>4, <4>2, <4>3
    <3>6. \A k \in 1..(L - y) : z[k] = g[y + k]
      <4>1. y + 1 \in Int /\ L \in Int /\ \A i \in (y + 1)..L : g[i] \in MessagePart
        BY <1>1, <3>1, <3>3
      <4>2. \A i \in 1..(L - (y + 1) + 1) : z[i] = g[(y + 1) + i - 1]
        <5>1. \A i \in 1..(L - (y + 1) + 1) : SubSeq(g, y + 1, L)[i] = g[(y + 1) + i - 1]
          BY <4>1, SubSeqProperties, SMTT(40)
        <5> QED BY <3>4, <5>1
      <4>3. \A k \in 1..(L - y) : k \in 1..(L - (y + 1) + 1) /\ (y + 1) + k - 1 = y + k
        BY <1>1, <3>1
      <4> QED BY <4>2, <4>3
    <3> QED BY <3>5, <3>6 DEF L
  <2>3. <<s>> \in Seq(MessagePart) /\ Len(<<s>>) = 1 /\ <<s>>[1] = s
    BY <1>0
  <2>4. r = (a \o <<s>>) \o z
    OBVIOUS
  <2> HIDE DEF a, z, r
  <2> DEFINE as == a \o <<s>>
  <2>5. /\ as \in Seq(MessagePart) /\ Len(as) = x + 1
        /\ \A k \in 1..x : as[k] = g[k]
        /\ as[x + 1] = s
    BY <1>1, <2>1, <2>3
  <2>6. r = as \o z
    BY <2>4
  <2> HIDE DEF as
  <2>7. r \in Seq(MessagePart) /\ Len(r) = x + 1 + (Len(g) - y)
        /\ (\A k \in 1..Len(as) : r[k] = as[k]) /\ \A k \in 1..Len(z) : r[Len(as) + k] = z[k]
    <3>1. as \in Seq(MessagePart) /\ z \in Seq(MessagePart)
      BY <2>2, <2>5
    <3>2. /\ as \o z \in Seq(MessagePart) /\ Len(as \o z) = Len(as) + Len(z)
          /\ \A k \in 1..Len(as) : (as \o z)[k] = as[k]
          /\ \A k \in 1..Len(z) : (as \o z)[Len(as) + k] = z[k]
      BY <3>1, JoinedHistories
    <3>3. Len(as) + Len(z) = x + 1 + (Len(g) - y)
      BY <2>2, <2>5
    <3> QED BY <2>6, <3>2, <3>3
  <2>8. \A k \in 1..(x + 1) : r[k] = as[k]
    BY <2>5, <2>7
  <2>9. \A k \in 1..(Len(g) - y) : r[x + 1 + k] = z[k]
    BY <2>2, <2>5, <2>7
  <2>10. \A k \in 1..x : k \in 1..(x + 1)
    BY <1>1
  <2>11. x + 1 \in 1..(x + 1)
    BY <1>1
  <2> QED BY <2>2, <2>5, <2>7, <2>8, <2>9, <2>10, <2>11
<1> HIDE DEF r
<1>3. \A k \in 1..Len(r) : k # x + 1 =>
        from(k) \in 1..Len(g) /\ r[k] = g[from(k)] /\ (from(k) <= x \/ from(k) > y)
  <2> SUFFICES ASSUME NEW k \in 1..Len(r), k # x + 1
               PROVE  from(k) \in 1..Len(g) /\ r[k] = g[from(k)] /\ (from(k) <= x \/ from(k) > y)
    OBVIOUS
  <2>1. CASE k <= x
    BY <1>1, <1>2, <2>1
  <2>2. CASE k > x
    <3> DEFINE i == k - (x + 1)
    <3>1. i \in 1..(Len(g) - y) /\ k = x + 1 + i /\ from(k) = y + i
      BY <1>1, <1>2, <2>2
    <3> HIDE DEF i, from
    <3>2. r[k] = g[y + i]
      BY <1>2, <3>1
    <3>3. y + i \in 1..Len(g) /\ y + i > y
      BY <1>1, <3>1
    <3> QED BY <3>1, <3>2, <3>3
  <2> QED BY <1>1, <2>1, <2>2
<1>4. \A k, l \in 1..Len(r) : k # x + 1 /\ l # x + 1 =>
        (from(k) = from(l) => k = l) /\ (from(k) < from(l) => k < l)
  BY <1>1, <1>2
<1>5. ASSUME NEW m \in 1..Len(g), m <= x \/ m > y
      PROVE  \E k \in 1..Len(r) : k # x + 1 /\ from(k) = m /\ r[k] = g[m]
  <2>1. CASE m <= x
    <3>1. m \in 1..Len(r) /\ m # x + 1 /\ from(m) = m
      BY <1>1, <1>2, <2>1
    <3> HIDE DEF from
    <3> QED BY <1>3, <3>1
  <2>2. CASE m > y
    <3> DEFINE k == m - y + (x + 1)
    <3>1. k \in 1..Len(r) /\ k # x + 1 /\ from(k) = m
      BY <1>1, <1>2, <2>2
    <3> HIDE DEF from, k
    <3> QED BY <1>3, <3>1
  <2> QED BY <1>5, <2>1, <2>2
<1> HIDE DEF from
<1>6. DOMAIN r = 1..Len(r) /\ x + 1 \in 1..Len(r) /\ r[x + 1].kind = "summary"
  <2>1. DOMAIN r = 1..Len(r) /\ x + 1 \in 1..Len(r)
    BY <1>1, <1>2
  <2> QED BY <1>0, <1>2, <2>1
<1>7. \A kind \in {"response", "returns"} :
        /\ \A k \in PartsOf(r, {kind}) :
             /\ k \in 1..Len(r) /\ k # x + 1 /\ r[k] = g[from(k)]
             /\ from(k) \in PartsOf(g, {kind}) /\ (from(k) <= x \/ from(k) > y)
        /\ \A m \in PartsOf(g, {kind}) : (m <= x \/ m > y) =>
             \E k \in PartsOf(r, {kind}) : from(k) = m /\ r[k] = g[m]
  <2> SUFFICES ASSUME NEW kind \in {"response", "returns"}
               PROVE  /\ \A k \in PartsOf(r, {kind}) :
                           /\ k \in 1..Len(r) /\ k # x + 1 /\ r[k] = g[from(k)]
                           /\ from(k) \in PartsOf(g, {kind}) /\ (from(k) <= x \/ from(k) > y)
                      /\ \A m \in PartsOf(g, {kind}) : (m <= x \/ m > y) =>
                           \E k \in PartsOf(r, {kind}) : from(k) = m /\ r[k] = g[m]
    OBVIOUS
  <2>1. ASSUME NEW k \in PartsOf(r, {kind})
        PROVE  /\ k \in 1..Len(r) /\ k # x + 1 /\ r[k] = g[from(k)]
               /\ from(k) \in PartsOf(g, {kind}) /\ (from(k) <= x \/ from(k) > y)
    <3>1. k \in 1..Len(r) /\ r[k].kind = kind
      BY <1>6 DEF PartsOf
    <3>2. k # x + 1
      BY <1>6, <3>1
    <3>3. from(k) \in 1..Len(g) /\ r[k] = g[from(k)] /\ (from(k) <= x \/ from(k) > y)
      BY <1>3, <3>1, <3>2
    <3> QED BY <1>1, <3>1, <3>2, <3>3 DEF PartsOf
  <2>2. ASSUME NEW m \in PartsOf(g, {kind}), m <= x \/ m > y
        PROVE  \E k \in PartsOf(r, {kind}) : from(k) = m /\ r[k] = g[m]
    <3>1. m \in 1..Len(g) /\ g[m].kind = kind
      BY <1>1 DEF PartsOf
    <3>2. PICK k \in 1..Len(r) : from(k) = m /\ r[k] = g[m]
      BY <1>5, <2>2, <3>1
    <3> QED BY <1>6, <3>1, <3>2 DEF PartsOf
  <2> QED BY <2>1, <2>2
<1>8. \A l \in PartsOf(r, {"returns"}) : \A e \in r[l].says :
        \E k \in PartsOf(r, {"response"}) : k < l /\ e \in r[k].says
  <2> SUFFICES ASSUME NEW l \in PartsOf(r, {"returns"}), NEW e \in r[l].says
               PROVE  \E k \in PartsOf(r, {"response"}) : k < l /\ e \in r[k].says
    OBVIOUS
  <2>1. /\ l \in 1..Len(r) /\ l # x + 1 /\ r[l] = g[from(l)]
        /\ from(l) \in PartsOf(g, {"returns"}) /\ (from(l) <= x \/ from(l) > y)
    BY <1>7
  <2>2. PICK j \in PartsOf(g, {"response"}) : j < from(l) /\ e \in g[j].says
    BY <1>1, <2>1 DEF Answered
  <2>3. j \in 1..Len(g) /\ from(l) \in 1..Len(g)
    BY <1>1, <2>1 DEF PartsOf
  <2>4. j <= x \/ j > y
    <3>1. CASE from(l) <= x
      BY <1>1, <2>2, <2>3, <3>1
    <3>2. CASE from(l) > y /\ j <= y
      <4>1. ClosedAt(g, y)
        <5>1. y # Len(g)
          BY <1>16, <2>3, <3>2
        <5> QED BY <5>1 DEF ClosedOrEnd
      <4>2. PICK m \in PartsOf(g, {"returns"}) : m <= y /\ e \in g[m].says
        BY <2>2, <3>2, <4>1 DEF ClosedAt
      <4>3. m = from(l)
        BY <1>1, <2>1, <4>2 DEF Answered
      <4> QED BY <1>1, <2>3, <3>2, <4>2, <4>3
    <3> QED BY <1>1, <2>1, <2>3, <3>1, <3>2
  <2>5. PICK k \in PartsOf(r, {"response"}) : from(k) = j /\ r[k] = g[j]
    BY <1>7, <2>4
  <2>6. k \in 1..Len(r) /\ k # x + 1
    BY <1>7
  <2>7. k < l
    BY <1>4, <2>1, <2>2, <2>5, <2>6
  <2> QED BY <2>2, <2>5, <2>7
<1>9. \A k, l \in PartsOf(r, {"returns"}) : r[k].says \cap r[l].says # {} => k = l
  <2> SUFFICES ASSUME NEW k \in PartsOf(r, {"returns"}), NEW l \in PartsOf(r, {"returns"}),
                      r[k].says \cap r[l].says # {}
               PROVE  k = l
    OBVIOUS
  <2>1. /\ k \in 1..Len(r) /\ k # x + 1 /\ r[k] = g[from(k)] /\ from(k) \in PartsOf(g, {"returns"})
        /\ l \in 1..Len(r) /\ l # x + 1 /\ r[l] = g[from(l)] /\ from(l) \in PartsOf(g, {"returns"})
    BY <1>7
  <2>2. from(k) = from(l)
    BY <1>1, <2>1 DEF Answered
  <2> QED BY <1>4, <2>1, <2>2
<1>10. \A k, l \in PartsOf(r, {"response"}) : r[k].says \cap r[l].says # {} => k = l
  <2> SUFFICES ASSUME NEW k \in PartsOf(r, {"response"}), NEW l \in PartsOf(r, {"response"}),
                      r[k].says \cap r[l].says # {}
               PROVE  k = l
    OBVIOUS
  <2>1. /\ k \in 1..Len(r) /\ k # x + 1 /\ r[k] = g[from(k)] /\ from(k) \in PartsOf(g, {"response"})
        /\ l \in 1..Len(r) /\ l # x + 1 /\ r[l] = g[from(l)] /\ from(l) \in PartsOf(g, {"response"})
    BY <1>7
  <2>2. from(k) = from(l)
    BY <1>1, <2>1 DEF Answered
  <2> QED BY <1>4, <2>1, <2>2
<1>11. ~r[1].joined
  <2>1. CASE x = 0
    BY <1>0, <1>2, <2>1
  <2>2. CASE x # 0
    <3>1. 1 \in 1..x /\ g # <<>>
      BY <1>1, <2>2
    <3> QED BY <1>2, <3>1 DEF WellKept
  <2> QED BY <2>1, <2>2
<1>12. WellKept(r)
  BY <1>2, <1>8, <1>9, <1>10, <1>11 DEF WellKept, Answered
<1>13. OpenCalls(r) \subseteq OpenCalls(g)
  <2> SUFFICES ASSUME NEW e \in OpenCalls(r) PROVE e \in OpenCalls(g)
    OBVIOUS
  <2>1. PICK k \in PartsOf(r, {"response"}) : e \in r[k].says
    BY DEF OpenCalls, CallsIn
  <2>2. \A m \in PartsOf(r, {"returns"}) : e \notin r[m].says
    BY DEF OpenCalls, ReturnsIn
  <2>3. r[k] = g[from(k)] /\ from(k) \in PartsOf(g, {"response"}) /\ (from(k) <= x \/ from(k) > y)
    BY <1>7
  <2>4. \A m \in PartsOf(g, {"returns"}) : (m <= x \/ m > y) => e \notin g[m].says
    BY <1>7, <2>2
  <2>5. e \in CallsIn(g)
    BY <2>1, <2>3 DEF CallsIn
  <2>6. ASSUME NEW m \in PartsOf(g, {"returns"}), e \in g[m].says
        PROVE  FALSE
    <3>1. ~(m <= x \/ m > y)
      BY <2>4, <2>6
    <3>2. m \in 1..Len(g) /\ from(k) \in 1..Len(g)
      BY <1>1, <2>3 DEF PartsOf
    <3>3. CASE from(k) <= x
      <4>1. PICK i \in PartsOf(g, {"returns"}) : i <= x /\ e \in g[i].says
        BY <2>1, <2>3, <3>3 DEF ClosedAt
      <4> QED BY <2>4, <4>1
    <3>4. CASE from(k) > y
      <4>1. PICK j \in PartsOf(g, {"response"}) : j < m /\ e \in g[j].says
        BY <1>1, <2>6 DEF Answered
      <4>2. j = from(k)
        BY <1>1, <2>1, <2>3, <4>1 DEF Answered
      <4> QED BY <1>1, <3>1, <3>2, <3>4, <4>1, <4>2
    <3> QED BY <2>3, <3>3, <3>4
  <2> QED BY <2>5, <2>6 DEF OpenCalls, ReturnsIn
<1>14. w \subseteq Tells(r) /\ r # <<>>
  <2>1. r[x + 1].says = w
    BY <1>0, <1>2
  <2> QED BY <1>2, <1>6, <2>1 DEF Tells
<1>15. \A k \in 1..Len(g) : k <= x \/ k > y => g[k].says \subseteq Tells(r)
  <2> SUFFICES ASSUME NEW k \in 1..Len(g), k <= x \/ k > y PROVE g[k].says \subseteq Tells(r)
    OBVIOUS
  <2>1. PICK l \in 1..Len(r) : r[l] = g[k]
    BY <1>5
  <2> QED BY <1>6, <2>1 DEF Tells
<1> QED BY <1>12, <1>13, <1>14, <1>15 DEF r, s

\* compress_summary_state: the summary that the next one is told.
LEMMA EarlierTold ==
  ASSUME NEW h, WellKept(h)
  PROVE  Earlier(h) \subseteq Word
<1> DEFINE summaries == PartsOf(h, {"summary"})
           begun  == {BegunAt(h, l) : l \in summaries}
           newest == {k \in summaries : BegunAt(h, k) = Max(begun)}
<1>1. h \in Seq(MessagePart) /\ Len(h) \in Nat /\ (h # <<>> => ~h[1].joined)
  BY DEF WellKept
<1>2. Earlier(h) = IF summaries = {} THEN {} ELSE h[Min(newest)].says
  BY DEF Earlier
<1>3. CASE summaries = {}
  BY <1>2, <1>3
<1>4. CASE summaries # {}
  <2>1. \A k \in summaries : k \in 1..Len(h)
    BY <1>1 DEF PartsOf
  <2>2. \A k \in 1..Len(h) : BegunAt(h, k) \in 1..k
    BY <1>1, BegunInside
  <2>3. \A k \in summaries : BegunAt(h, k) \in Nat /\ BegunAt(h, k) <= Len(h)
    BY <1>1, <2>1, <2>2
  <2>4. Max(begun) \in begun
    <3>1. begun \in SUBSET Nat /\ begun # {} /\ \A x \in begun : x <= Len(h)
      BY <1>4, <2>3
    <3> HIDE DEF begun
    <3> QED BY <1>1, <3>1, LargestNumber
  <2>5. newest # {}
    BY <2>4
  <2>6. newest \in SUBSET Nat /\ newest \subseteq 1..Len(h)
    BY <2>1
  <2>7. Min(newest) \in 1..Len(h)
    <3> HIDE DEF newest
    <3> QED BY <2>5, <2>6, SmallestNumber
  <2> HIDE DEF newest
  <2>8. h[Min(newest)] \in MessagePart
    BY <1>1, <2>7
  <2> QED BY <1>2, <1>4, <2>8 DEF MessagePart
<1> QED BY <1>3, <1>4

\* What compression makes of a history is well kept, opens no call, and tells
\* all but what it overlooked.
LEMMA CompressionKept ==
  ASSUME NEW h, WellKept(h), NEW retain \in BOOLEAN, Compression(h, retain).messages # <<>>
  PROVE  LET c == Compression(h, retain) IN
         /\ WellKept(c.messages) /\ OpenCalls(c.messages) \subseteq OpenCalls(h)
         /\ Tells(h) \subseteq Tells(c.messages) \cup c.overlooked
<1> DEFINE units   == Units(h)
           bounds  == Bounds(units, retain)
           range   == (bounds[1] + 1)..bounds[2]
           heads   == {BegunAt(units, k) : k \in PartsOf(units, {"summary"})}
           leftOut == {k \in range : BegunAt(units, k) \in heads}
           counted == [k \in DOMAIN units |-> [units[k] EXCEPT !.fresh = FALSE]]
           summed  == Earlier(h) \cup UNION {units[k].says : k \in range \ leftOut}
           result  == SubSeq(counted, 1, bounds[1]) \o <<Piece("summary", summed)>>
                        \o SubSeq(counted, bounds[2] + 1, Len(units))
           over    == UNION {units[k].says : k \in leftOut}
           passed  == over \ Tells(result)
           c       == Compression(h, retain)
<1>1. c = IF units = <<>> \/ bounds = <<>> \/ (retain /\ \A k \in 2..Len(units) : units[k].joined)
            THEN [messages |-> <<>>, overlooked |-> {}]
            ELSE [messages |-> result, overlooked |-> passed]
  BY DEF Compression
<1>2. /\ WellKept(units) /\ Len(units) = Len(h)
      /\ Tells(units) = Tells(h) /\ OpenCalls(units) = OpenCalls(h)
  BY UnitsKept
<1> HIDE DEF c, result, passed, counted, units
<1>3. c.messages = result /\ c.overlooked = passed /\ bounds # <<>>
  <2>1. c.messages # <<>>
    BY DEF c
  <2> HIDE DEF bounds
  <2>2. ~(units = <<>> \/ bounds = <<>> \/ (retain /\ \A k \in 2..Len(units) : units[k].joined))
    BY <1>1, <2>1
  <2> QED BY <1>1, <2>2
<1>4. /\ bounds[1] \in 0..Len(units) /\ bounds[2] \in bounds[1]..Len(units)
      /\ ClosedAt(units, bounds[1]) /\ ClosedOrEnd(units, bounds[2])
  BY <1>2, <1>3, BoundsClosed
<1>5. units \in Seq(MessagePart) /\ DOMAIN units = 1..Len(units) /\ Len(units) \in Nat
      /\ \A k \in 1..Len(units) : units[k] \in MessagePart
  BY <1>2 DEF WellKept
<1>6. /\ counted \in Seq(MessagePart) /\ Len(counted) = Len(units)
      /\ \A k \in 1..Len(units) : /\ counted[k].kind = units[k].kind /\ counted[k].says = units[k].says
                                  /\ counted[k].joined = units[k].joined
  <2> DEFINE L == Len(units)
  <2>1. DOMAIN counted = 1..L /\ \A k \in 1..L : counted[k] = [units[k] EXCEPT !.fresh = FALSE]
    BY <1>5 DEF counted
  <2>2. counted = [k \in 1..L |-> counted[k]]
    BY <1>5 DEF counted
  <2>3. \A k \in 1..L : /\ counted[k] \in MessagePart
                        /\ counted[k].kind = units[k].kind /\ counted[k].says = units[k].says
                        /\ counted[k].joined = units[k].joined
    <3> SUFFICES ASSUME NEW k \in 1..L
                 PROVE  /\ counted[k] \in MessagePart
                        /\ counted[k].kind = units[k].kind /\ counted[k].says = units[k].says
                        /\ counted[k].joined = units[k].joined
      OBVIOUS
    <3>1. units[k] \in MessagePart /\ counted[k] = [units[k] EXCEPT !.fresh = FALSE]
      BY <1>5, <2>1
    <3> QED BY <3>1 DEF MessagePart
  <2>4. L \in Nat
    BY <1>5
  <2> HIDE DEF L
  <2>5. counted \in Seq(MessagePart) /\ Len(counted) = L
    BY <2>2, <2>3, <2>4
  <2> QED BY <2>3, <2>5 DEF L
<1>7. SameWords(counted, units)
  BY <1>6 DEF SameWords
<1>8. counted # <<>> => ~counted[1].joined
  <2> SUFFICES ASSUME counted # <<>> PROVE ~counted[1].joined
    OBVIOUS
  <2>1. 1 \in 1..Len(units) /\ units # <<>>
    BY <1>5, <1>6
  <2>2. ~units[1].joined
    BY <1>2, <2>1 DEF WellKept
  <2> QED BY <1>6, <2>1, <2>2
<1>9. /\ WellKept(counted) /\ Tells(counted) = Tells(units) /\ OpenCalls(counted) = OpenCalls(units)
  BY <1>2, <1>6, <1>7, <1>8, SameWordsKept
<1>10. \A kinds : PartsOf(counted, kinds) = PartsOf(units, kinds)
  <2>1. DOMAIN counted = DOMAIN units /\ DOMAIN units = 1..Len(units)
    BY <1>5, <1>6
  <2> QED BY <1>6, <2>1 DEF PartsOf
<1>11. \A n : ClosedAt(units, n) => ClosedAt(counted, n)
  <2>1. \A kinds : \A k \in PartsOf(units, kinds) : counted[k].says = units[k].says
    BY <1>5, <1>6 DEF PartsOf
  <2> QED BY <1>10, <2>1 DEF ClosedAt
<1>12. summed \subseteq Word
  <2>1. Earlier(h) \subseteq Word
    BY EarlierTold
  <2>2. range \subseteq 1..Len(units)
    BY <1>4, <1>5
  <2>3. \A k \in 1..Len(units) : units[k].says \subseteq Word
    BY <1>5 DEF MessagePart
  <2> HIDE DEF range, leftOut
  <2> QED BY <2>1, <2>2, <2>3
<1>13. ClosedAt(counted, bounds[1]) /\ ClosedOrEnd(counted, bounds[2])
  BY <1>4, <1>6, <1>11 DEF ClosedOrEnd
<1>14. /\ WellKept(result) /\ OpenCalls(result) \subseteq OpenCalls(counted)
       /\ summed \subseteq Tells(result)
       /\ \A k \in 1..Len(counted) : k <= bounds[1] \/ k > bounds[2] => counted[k].says \subseteq Tells(result)
  <2> DEFINE x == bounds[1]
             y == bounds[2]
  <2>1. x \in Nat /\ y \in Nat /\ x <= y /\ y <= Len(counted)
    BY <1>4, <1>5, <1>6
  <2>2. ClosedAt(counted, x) /\ ClosedOrEnd(counted, y)
    BY <1>13
  <2>3. result = SubSeq(counted, 1, x) \o <<Piece("summary", summed)>> \o SubSeq(counted, y + 1, Len(counted))
    BY <1>6 DEF result
  <2> HIDE DEF x, y, summed, bounds
  <2>4. /\ WellKept(result) /\ OpenCalls(result) \subseteq OpenCalls(counted)
        /\ summed \subseteq Tells(result)
        /\ \A k \in 1..Len(counted) : k <= x \/ k > y => counted[k].says \subseteq Tells(result)
    BY <1>9, <1>12, <2>1, <2>2, <2>3, CutOut
  <2> QED BY <2>4 DEF x, y
<1>15. Tells(units) \subseteq Tells(result) \cup passed
  <2> SUFFICES ASSUME NEW k \in 1..Len(units), NEW e \in units[k].says
               PROVE  e \in Tells(result) \cup passed
    BY <1>5 DEF Tells
  <2>1. CASE k <= bounds[1] \/ k > bounds[2]
    BY <1>6, <1>14, <2>1
  <2>2. CASE k \in range /\ k \notin leftOut
    <3>1. e \in summed
      BY <2>2
    <3> QED BY <1>14, <3>1
  <2>3. CASE k \in leftOut
    <3>2. e \in over
      <4> HIDE DEF leftOut
      <4> QED BY <2>3
    <3> HIDE DEF over
    <3> QED BY <3>2 DEF passed
  <2>4. k <= bounds[1] \/ k > bounds[2] \/ k \in range
    BY <1>4, <1>5
  <2> QED BY <2>1, <2>2, <2>3, <2>4
<1> QED BY <1>2, <1>3, <1>9, <1>14, <1>15 DEF c

-----------------------------------------------------------------------------
(* Every step keeps the invariant.                                         *)

\* Nothing is well kept and follows everything.
LEMMA NothingKept ==
  /\ WellKept(<<>>) /\ Tells(<<>>) = {} /\ ReturnsIn(<<>>) = {} /\ OpenCalls(<<>>) = {}
  /\ \A h : Follows(<<>>, h)
<1>1. <<>> \in Seq(MessagePart) /\ DOMAIN <<>> = {}
  OBVIOUS
<1>2. \A kinds : PartsOf(<<>>, kinds) = {}
  BY <1>1 DEF PartsOf
<1>3. Tells(<<>>) = {}
  BY <1>1 DEF Tells
<1>4. ReturnsIn(<<>>) = {} /\ OpenCalls(<<>>) = {}
  BY <1>2 DEF ReturnsIn, OpenCalls, CallsIn
<1>5. Answered(<<>>)
  BY <1>2 DEF Answered
<1>6. \A h : Follows(<<>>, h)
  BY <1>1, <1>2 DEF Follows
<1> QED BY <1>1, <1>3, <1>4, <1>5, <1>6 DEF WellKept

\* No turn runs any more.
LEMMA NoRunKept ==
  ASSUME run' = NoRun
  PROVE  /\ RunKept' /\ CallsClosed' /\ run'.at = "idle" /\ run'.request = <<>>
         /\ Tells(run'.request) = {}
<1>1. /\ run'.at = "idle" /\ run'.original = <<>> /\ run'.history = <<>> /\ run'.request = <<>>
      /\ run'.results = {} /\ run'.retried = FALSE /\ run'.responded = FALSE
  BY DEF NoRun
<1>2. run' \in RunRecord
  BY DEF NoRun, RunRecord, RunPlace
<1>3. WellKept(run'.original) /\ WellKept(run'.history) /\ Follows(run'.request, run'.history)
  BY <1>1, NothingKept
<1>4. RunKept'
  BY <1>1, <1>2, <1>3 DEF RunKept
<1>5. CallsClosed'
  BY <1>1 DEF CallsClosed
<1> QED BY <1>1, <1>4, <1>5, NothingKept

\* While a turn runs the context is not compressed by a command.
LEMMA NoSqueeze ==
  ASSUME RequestInv, run.at # "idle" \/ squeeze.at = "none"
  PROVE  squeeze = NoJob /\ squeeze.at = "none"
<1>1. SqueezeKept
  BY DEF RequestInv
<1>2. squeeze = NoJob
  BY <1>1 DEF SqueezeKept
<1> QED BY <1>2 DEF NoJob

\* The fields of the record of a run.
LEMMA RunFields ==
  ASSUME RequestInv
  PROVE  /\ run \in RunRecord /\ run.at \in RunPlace
         /\ run.original \in Seq(MessagePart) /\ run.history \in Seq(MessagePart)
         /\ run.request \in Seq(MessagePart) /\ run.results \subseteq Word
         /\ WellKept(run.original) /\ WellKept(run.history) /\ Follows(run.request, run.history)
BY DEF RequestInv, RunKept, RunRecord

\* When nothing is kept, nothing has to be told.
LEMMA RequestInitInv == ASSUME RequestInit PROVE RequestInv
<1>1. run = NoRun /\ kept = <<>> /\ onDisk = <<>> /\ squeeze = NoJob
      /\ said = {} /\ executed = {} /\ given = {} /\ waiting = {}
  BY DEF RequestInit
<1>2. /\ run.at = "idle" /\ run.original = <<>> /\ run.history = <<>> /\ run.request = <<>>
      /\ run.results = {} /\ run.retried = FALSE /\ run.responded = FALSE
  BY <1>1 DEF NoRun
<1>3. run \in RunRecord
  BY <1>1 DEF NoRun, RunRecord, RunPlace
<1>4. RunKept
  BY <1>2, <1>3, NothingKept DEF RunKept
<1>5. CallsClosed
  BY <1>2 DEF CallsClosed
<1>6. SqueezeKept /\ squeeze.at = "none"
  BY <1>1 DEF SqueezeKept, NoJob
<1>7. KeptIsTold
  BY <1>1, <1>2, <1>6, NothingKept DEF KeptIsTold
<1>8. AllIsTold
  BY <1>1 DEF AllIsTold
<1> QED BY <1>1, <1>4, <1>5, <1>6, <1>7, <1>8, NothingKept DEF RequestInv

\* A new turn: what it does not take over is given up.
LEMMA BeginStep == ASSUME RequestInv, NEW i \in Input, Begin(i) PROVE RequestInv'
<1> DEFINE safe == Safe(kept)
<1>0. squeeze = NoJob /\ squeeze.at = "none"
  BY NoSqueeze DEF Begin
<1>1. WellKept(kept) /\ WellKept(onDisk) /\ KeptIsTold /\ AllIsTold
  BY DEF RequestInv
<1>2. run.at = "idle" /\ run.request = <<>> /\ run \in RunRecord
  BY DEF Begin, RequestInv, RunKept
<1>3. /\ said' = said \cup {i} /\ waiting' = {} /\ kept' = kept /\ onDisk' = onDisk
      /\ squeeze' = squeeze /\ executed' = executed
      /\ given' = given \cup waiting \cup Forgotten(kept, safe) \cup OpenCalls(safe)
  BY DEF Begin
<1>4. run' = [[run EXCEPT !.at = "take", !.request = Prompts({i}), !.history = safe] EXCEPT !.original = safe]
  BY DEF Begin, StartRun, Take
<1>5. WellKept(safe)
  BY <1>1, SafeKept
<1>6. Follows(Prompts({i}), safe) /\ ReturnsIn(Prompts({i})) = {} /\ Tells(Prompts({i})) = {i}
      /\ Prompts({i}) \in Seq(MessagePart)
  <2>1. {i} \subseteq Input
    OBVIOUS
  <2> QED BY <1>5, <2>1, PromptsFollow, PromptsTell
<1> HIDE DEF safe
<1>7. safe \in Seq(MessagePart)
  BY <1>5 DEF WellKept
<1>8. /\ run'.at = "take" /\ run'.request = Prompts({i}) /\ run'.history = safe /\ run'.original = safe
      /\ run' \in RunRecord
  BY <1>2, <1>4, <1>6, <1>7 DEF RunRecord, RunPlace
<1>9. RunKept'
  BY <1>5, <1>6, <1>8 DEF RunKept
<1>10. CallsClosed'
  BY <1>3, <1>8 DEF CallsClosed
<1>11. SqueezeKept'
  BY <1>0, <1>3 DEF SqueezeKept
<1>12. KeptIsTold'
  <2>1. Tells(kept) \subseteq Tells(onDisk) \cup given
    BY <1>1 DEF KeptIsTold
  <2>2. Tells(kept) \subseteq Tells(safe) \cup given'
    BY <1>3 DEF Forgotten
  <2> QED BY <1>0, <1>3, <1>8, <2>1, <2>2 DEF KeptIsTold
<1>13. AllIsTold'
  <2>1. /\ said \subseteq Input /\ executed \subseteq Tells(kept) \cup given
        /\ said \subseteq Tells(kept) \cup waiting \cup given
    BY <1>1, <1>2, NothingKept DEF AllIsTold
  <2> QED BY <1>3, <1>6, <1>8, <2>1 DEF AllIsTold
<1> QED BY <1>1, <1>3, <1>9, <1>10, <1>11, <1>12, <1>13 DEF RequestInv

\* A resumed turn takes over everything, with its calls closed.
LEMMA ResumeStep == ASSUME RequestInv, ResumeRun PROVE RequestInv'
<1> DEFINE whole == Repaired(kept)
           cmd   == Piece("command", {})
<1>0. squeeze = NoJob /\ squeeze.at = "none"
  BY NoSqueeze DEF ResumeRun
<1>1. WellKept(kept) /\ WellKept(onDisk) /\ KeptIsTold /\ AllIsTold
  BY DEF RequestInv
<1>2. run.at = "idle" /\ run.request = <<>> /\ run \in RunRecord
  BY DEF ResumeRun, RequestInv, RunKept
<1>3. /\ said' = said /\ waiting' = waiting /\ kept' = whole /\ onDisk' = onDisk
      /\ squeeze' = squeeze /\ executed' = executed /\ given' = given
  BY DEF ResumeRun
<1>4. run' = [[run EXCEPT !.at = "take", !.request = <<cmd>>, !.history = whole] EXCEPT !.original = whole]
  BY <1>3 DEF ResumeRun, StartRun, Take
<1>5. WellKept(whole) /\ OpenCalls(whole) = {} /\ Tells(whole) = Tells(kept)
  BY <1>1, RepairedKept
<1>6. Follows(<<cmd>>, whole) /\ ReturnsIn(<<cmd>>) = {} /\ Tells(<<cmd>>) = {} /\ <<cmd>> \in Seq(MessagePart)
  <2>1. cmd \in MessagePart /\ cmd.kind = "command" /\ ~cmd.joined /\ Tells(<<cmd>>) = {}
        /\ ReturnsIn(<<cmd>>) = {} /\ <<cmd>> \in Seq(MessagePart)
    BY OnePart DEF PartKind
  <2> HIDE DEF cmd, whole
  <2> QED BY <1>5, <2>1, AppendedPart
<1> HIDE DEF whole, cmd
<1>7. whole \in Seq(MessagePart)
  BY <1>5 DEF WellKept
<1>8. /\ run'.at = "take" /\ run'.request = <<cmd>> /\ run'.history = whole /\ run'.original = whole
      /\ run' \in RunRecord
  BY <1>2, <1>4, <1>6, <1>7 DEF RunRecord, RunPlace
<1>9. RunKept'
  BY <1>5, <1>6, <1>8 DEF RunKept
<1>10. CallsClosed'
  BY <1>3, <1>5, <1>8 DEF CallsClosed
<1>11. SqueezeKept'
  BY <1>0, <1>3 DEF SqueezeKept
<1>12. KeptIsTold'
  BY <1>0, <1>1, <1>3, <1>5, <1>8 DEF KeptIsTold
<1>13. AllIsTold'
  BY <1>1, <1>2, <1>3, <1>5, <1>6, <1>8, NothingKept DEF AllIsTold
<1> QED BY <1>1, <1>3, <1>5, <1>9, <1>10, <1>11, <1>12, <1>13 DEF RequestInv

\* A supplement waits for a request.
LEMMA SayStep == ASSUME RequestInv, NEW i \in Input, Say(i) PROVE RequestInv'
<1>1. /\ said' = said \cup {i} /\ waiting' = waiting \cup {i} /\ kept' = kept /\ onDisk' = onDisk
      /\ run' = run /\ squeeze' = squeeze /\ executed' = executed /\ given' = given
  BY DEF Say
<1>2. RunKept' /\ CallsClosed' /\ SqueezeKept' /\ KeptIsTold'
  BY <1>1 DEF RequestInv, RunKept, LastCalls, CallsClosed, SqueezeKept, KeptIsTold
<1>3. AllIsTold'
  BY <1>1 DEF RequestInv, AllIsTold
<1> QED BY <1>1, <1>2, <1>3 DEF RequestInv

\* The supplements that waited go with the request.
LEMMA TakeInputsStep == ASSUME RequestInv, TakeInputs PROVE RequestInv'
<1> DEFINE q == Joined(run.request \o Prompts(waiting))
<1>0. squeeze = NoJob /\ squeeze.at = "none"
  BY NoSqueeze DEF TakeInputs
<1>1. WellKept(kept) /\ WellKept(onDisk) /\ KeptIsTold /\ AllIsTold /\ CallsClosed
  BY DEF RequestInv
<1>2. run.at = "take" /\ run' = [run EXCEPT !.at = "audit", !.request = q]
  BY DEF TakeInputs
<1>3. /\ said' = said /\ waiting' = {} /\ kept' = kept /\ onDisk' = onDisk
      /\ squeeze' = squeeze /\ executed' = executed /\ given' = given
  BY DEF TakeInputs
<1>4. run \in RunRecord /\ WellKept(run.original) /\ WellKept(run.history) /\ Follows(run.request, run.history)
  BY RunFields
<1>5. /\ Follows(q, run.history) /\ ReturnsIn(q) = ReturnsIn(run.request)
      /\ Tells(q) = Tells(run.request) \cup waiting
  <2>1. waiting \subseteq Input
    BY <1>1 DEF AllIsTold
  <2> QED BY <1>4, <2>1, PromptsFollow
<1> HIDE DEF q
<1>6. q \in Seq(MessagePart)
  BY <1>5 DEF Follows
<1>7. /\ run'.at = "audit" /\ run'.request = q /\ run'.history = run.history /\ run'.original = run.original
      /\ run' \in RunRecord
  BY <1>2, <1>4, <1>6 DEF RunRecord, RunPlace
<1>8. RunKept'
  BY <1>4, <1>5, <1>7 DEF RunKept
<1>9. CallsClosed'
  BY <1>1, <1>2, <1>3, <1>5, <1>7 DEF CallsClosed
<1>10. SqueezeKept'
  BY <1>0, <1>3 DEF SqueezeKept
<1>11. KeptIsTold'
  BY <1>0, <1>1, <1>2, <1>3, <1>7 DEF KeptIsTold
<1>12. AllIsTold'
  BY <1>1, <1>3, <1>5, <1>7 DEF AllIsTold
<1> QED BY <1>1, <1>3, <1>8, <1>9, <1>10, <1>11, <1>12 DEF RequestInv

\* The request is recorded: its answers close the calls of the history.
LEMMA AuditStep == ASSUME RequestInv, Audit PROVE RequestInv'
<1> DEFINE j == run.history \o run.request
           m == Merged(j)
<1>0. squeeze = NoJob /\ squeeze.at = "none"
  BY NoSqueeze DEF Audit
<1>1. WellKept(kept) /\ WellKept(onDisk) /\ KeptIsTold /\ AllIsTold /\ CallsClosed
  BY DEF RequestInv
<1>2. run.at = "audit" /\ run' = [run EXCEPT !.at = "ready", !.history = m, !.request = <<>>, !.retried = FALSE]
  BY DEF Audit
<1>3. /\ said' = said /\ waiting' = waiting /\ kept' = j /\ onDisk' = j
      /\ squeeze' = squeeze /\ executed' = executed /\ given' = given
  BY DEF Audit
<1>4. run \in RunRecord /\ WellKept(run.original) /\ WellKept(run.history) /\ Follows(run.request, run.history)
  BY RunFields
<1>5. /\ WellKept(j) /\ OpenCalls(j) = OpenCalls(run.history) \ ReturnsIn(run.request)
      /\ Tells(j) = Tells(run.history) \cup Tells(run.request)
  BY <1>4, FollowedHistory
<1> HIDE DEF j
<1>6. WellKept(m) /\ SameWords(m, j) /\ Tells(m) = Tells(j) /\ OpenCalls(m) = OpenCalls(j)
  BY <1>5, MergedKept
<1> HIDE DEF m
<1>7. m \in Seq(MessagePart) /\ j \in Seq(MessagePart)
  BY <1>5, <1>6 DEF WellKept
<1>8. /\ run'.at = "ready" /\ run'.request = <<>> /\ run'.history = m /\ run'.original = run.original
      /\ run' \in RunRecord
  <2>1. <<>> \in Seq(MessagePart) /\ "ready" \in RunPlace
    BY DEF RunPlace
  <2> QED BY <1>2, <1>4, <1>7, <2>1 DEF RunRecord
<1>9. RunKept'
  BY <1>4, <1>6, <1>8, NothingKept DEF RunKept
<1>10. OpenCalls(j) \subseteq given
  BY <1>1, <1>2, <1>5 DEF CallsClosed
<1>11. CallsClosed'
  BY <1>3, <1>6, <1>8, <1>10 DEF CallsClosed
<1>12. SqueezeKept'
  BY <1>0, <1>3 DEF SqueezeKept
<1>13. SameWords(j, m)
  BY <1>6, <1>7 DEF SameWords
<1>14. KeptIsTold'
  BY <1>0, <1>3, <1>6, <1>8, <1>13 DEF KeptIsTold
<1>15. AllIsTold'
  <2>1. Tells(kept) \subseteq Tells(run.history) \cup given
    BY <1>1, <1>2 DEF KeptIsTold
  <2> QED BY <1>1, <1>3, <1>5, <1>8, <2>1, NothingKept DEF AllIsTold
<1> QED BY <1>3, <1>5, <1>9, <1>11, <1>12, <1>14, <1>15 DEF RequestInv


\* A compression before a request: nothing but the messages of the turn, and of
\* the disk, is replaced.
LEMMA CompressedKept ==
  ASSUME RequestInv, run.at \in {"ready", "sent"}, NEW retain \in BOOLEAN, NEW c,
         c = Compression(run.history, retain), c.messages # <<>>,
         onDisk' = c.messages, given' = given \cup c.overlooked,
         run' \in RunRecord, run'.at = "ready", run'.history = c.messages,
         run'.request = run.request, run'.original = run.original,
         kept' = kept, waiting' = waiting, squeeze' = squeeze, said' = said, executed' = executed
  PROVE  RequestInv'
<1>0. squeeze = NoJob /\ squeeze.at = "none"
  BY NoSqueeze
<1>1. WellKept(kept) /\ RunKept /\ KeptIsTold /\ AllIsTold /\ CallsClosed
  BY DEF RequestInv
<1>2. WellKept(run.original) /\ WellKept(run.history) /\ run.request = <<>>
  BY <1>1 DEF RunKept
<1>3. /\ WellKept(c.messages) /\ OpenCalls(c.messages) \subseteq OpenCalls(run.history)
      /\ Tells(run.history) \subseteq Tells(c.messages) \cup c.overlooked
  BY <1>2, CompressionKept
<1>4. RunKept'
  BY <1>2, <1>3, NothingKept DEF RunKept
<1>5. OpenCalls(run.history) \subseteq given
  BY <1>1 DEF CallsClosed
<1>6. CallsClosed'
  BY <1>3, <1>5 DEF CallsClosed
<1>7. SqueezeKept'
  BY <1>0 DEF SqueezeKept
<1>8. Tells(kept) \subseteq Tells(run.history) \cup given
  BY <1>1 DEF KeptIsTold
<1>9. SameWords(c.messages, c.messages)
  BY DEF SameWords
<1>10. KeptIsTold'
  BY <1>0, <1>3, <1>8, <1>9 DEF KeptIsTold
<1>11. AllIsTold'
  BY <1>1 DEF AllIsTold
<1> QED BY <1>1, <1>3, <1>4, <1>6, <1>7, <1>10, <1>11 DEF RequestInv

\* The context is compressed before a request, or after one that was too long.
LEMMA CompressStep == ASSUME RequestInv, CompressFirst \/ TooLong PROVE RequestInv'
<1>1. run \in RunRecord /\ WellKept(run.history)
  BY RunFields
<1>2. CASE CompressFirst
  <2>1. PICK c \in {Compression(run.history, TRUE)} :
          /\ c.messages # <<>> /\ onDisk' = c.messages
          /\ run' = [run EXCEPT !.history = c.messages]
          /\ given' = given \cup c.overlooked
    BY <1>2 DEF CompressFirst
  <2>2. c.messages \in Seq(MessagePart)
    BY <1>1, <2>1, CompressionKept DEF WellKept
  <2>3. /\ run' \in RunRecord /\ run'.at = run.at /\ run'.history = c.messages
        /\ run'.request = run.request /\ run'.original = run.original
    BY <1>1, <2>1, <2>2 DEF RunRecord
  <2>4. run.at = "ready" /\ kept' = kept /\ waiting' = waiting /\ squeeze' = squeeze
        /\ said' = said /\ executed' = executed
    BY <1>2 DEF CompressFirst
  <2> QED BY <2>1, <2>3, <2>4, CompressedKept
<1>3. CASE TooLong
  <2>1. PICK c \in {Compression(run.history, Len(run.history) > 1)} :
          /\ c.messages # <<>> /\ onDisk' = c.messages
          /\ run' = [run EXCEPT !.at = "ready", !.history = c.messages, !.retried = TRUE]
          /\ given' = given \cup c.overlooked
    BY <1>3 DEF TooLong
  <2>2. PICK retain \in BOOLEAN : c = Compression(run.history, retain)
    <3>1. (Len(run.history) > 1) \in BOOLEAN
      OBVIOUS
    <3> QED BY <2>1, <3>1
  <2>3. c.messages \in Seq(MessagePart)
    BY <1>1, <2>1, <2>2, CompressionKept DEF WellKept
  <2>4. /\ run' \in RunRecord /\ run'.at = "ready" /\ run'.history = c.messages
        /\ run'.request = run.request /\ run'.original = run.original
    <3>1. "ready" \in RunPlace
      BY DEF RunPlace
    <3> QED BY <1>1, <2>1, <2>3, <3>1 DEF RunRecord
  <2>5. run.at = "sent" /\ kept' = kept /\ waiting' = waiting /\ squeeze' = squeeze
        /\ said' = said /\ executed' = executed
    BY <1>3 DEF TooLong
  <2> QED BY <2>1, <2>2, <2>4, <2>5, CompressedKept
<1> QED BY <1>2, <1>3

\* The request goes out.
LEMMA SendStep == ASSUME RequestInv, Send PROVE RequestInv'
<1>0. squeeze = NoJob /\ squeeze.at = "none"
  BY NoSqueeze DEF Send
<1>1. WellKept(kept) /\ WellKept(onDisk) /\ RunKept /\ KeptIsTold /\ AllIsTold /\ CallsClosed
  BY DEF RequestInv
<1>2. run.at = "ready" /\ run' = [run EXCEPT !.at = "sent"]
      /\ said' = said /\ waiting' = waiting /\ kept' = kept /\ onDisk' = onDisk
      /\ squeeze' = squeeze /\ executed' = executed /\ given' = given
  BY DEF Send
<1>3. run \in RunRecord /\ "sent" \in RunPlace
  BY RunFields DEF RunPlace
<1>4. /\ run'.at = "sent" /\ run'.request = run.request /\ run'.history = run.history
      /\ run'.original = run.original /\ run' \in RunRecord
  BY <1>2, <1>3 DEF RunRecord
<1>5. RunKept'
  BY <1>1, <1>2, <1>4 DEF RunKept
<1>6. CallsClosed'
  BY <1>1, <1>2, <1>4 DEF CallsClosed
<1>7. SqueezeKept'
  BY <1>0, <1>2 DEF SqueezeKept
<1>8. KeptIsTold'
  BY <1>0, <1>1, <1>2, <1>4 DEF KeptIsTold
<1>9. AllIsTold'
  BY <1>1, <1>2, <1>4 DEF AllIsTold
<1> QED BY <1>1, <1>2, <1>5, <1>6, <1>7, <1>8, <1>9 DEF RequestInv

\* The model responds; its calls are new.
LEMMA RespondStep == ASSUME RequestInv, NEW calls \in SUBSET Tool, Respond(calls) PROVE RequestInv'
<1> DEFINE r == Append(run.history, Piece("response", calls))
<1>0. squeeze = NoJob /\ squeeze.at = "none"
  BY NoSqueeze DEF Respond
<1>1. WellKept(kept) /\ WellKept(onDisk) /\ RunKept /\ KeptIsTold /\ AllIsTold /\ CallsClosed
  BY DEF RequestInv
<1>2. /\ run.at = "sent" /\ calls \cap CallsIn(run.history) = {}
      /\ run' = [run EXCEPT !.at = "answered", !.responded = TRUE, !.original = <<>>, !.history = r]
      /\ said' = said /\ waiting' = waiting /\ kept' = kept /\ onDisk' = onDisk
      /\ squeeze' = squeeze /\ executed' = executed /\ given' = given
  BY DEF Respond
<1>3. run \in RunRecord /\ WellKept(run.history) /\ run.request = <<>>
  BY <1>1, <1>2 DEF RunKept
<1>4. calls \subseteq Word
  BY DEF Word
<1>5. /\ WellKept(r) /\ OpenCalls(r) = OpenCalls(run.history) \cup calls
      /\ Tells(r) = Tells(run.history) \cup calls
      /\ r # <<>> /\ Last(r).kind = "response" /\ Last(r).says = calls
  BY <1>2, <1>3, <1>4, AppendedResponse
<1> HIDE DEF r
<1>6. /\ run'.at = "answered" /\ run'.request = <<>> /\ run'.history = r
      /\ run'.original = <<>> /\ run' \in RunRecord
  <2>1. "answered" \in RunPlace /\ <<>> \in Seq(MessagePart) /\ r \in Seq(MessagePart)
    BY <1>5 DEF RunPlace, WellKept
  <2> QED BY <1>2, <1>3, <2>1 DEF RunRecord
<1>7. RunKept'
  BY <1>5, <1>6, NothingKept DEF RunKept
<1>8. LastCalls' = calls
  BY <1>5, <1>6 DEF LastCalls
<1>9. OpenCalls(run.history) \subseteq given
  BY <1>1, <1>2 DEF CallsClosed
<1>10. CallsClosed'
  BY <1>2, <1>5, <1>6, <1>8, <1>9 DEF CallsClosed
<1>11. SqueezeKept'
  BY <1>0, <1>2 DEF SqueezeKept
<1>12. KeptIsTold'
  BY <1>0, <1>1, <1>2, <1>5, <1>6 DEF KeptIsTold
<1>13. AllIsTold'
  BY <1>1, <1>2, <1>3, <1>6 DEF AllIsTold
<1> QED BY <1>1, <1>2, <1>7, <1>10, <1>11, <1>12, <1>13 DEF RequestInv

\* The response is saved before its tools start.
LEMMA StartToolsStep == ASSUME RequestInv, StartTools PROVE RequestInv'
<1>0. squeeze = NoJob /\ squeeze.at = "none"
  BY NoSqueeze DEF StartTools
<1>1. WellKept(kept) /\ WellKept(onDisk) /\ RunKept /\ KeptIsTold /\ AllIsTold /\ CallsClosed
  BY DEF RequestInv
<1>2. /\ run.at = "answered" /\ run' = [run EXCEPT !.at = "tools", !.results = {}]
      /\ said' = said /\ waiting' = waiting /\ kept' = run.history /\ onDisk' = run.history
      /\ squeeze' = squeeze /\ executed' = executed \cup LastCalls /\ given' = given
  BY DEF StartTools
<1>3. run \in RunRecord /\ WellKept(run.history) /\ run.request = <<>>
      /\ run.history # <<>> /\ Last(run.history).kind = "response"
  BY <1>1, <1>2 DEF RunKept
<1>4. LastCalls \subseteq Tells(run.history)
  BY <1>3, LastCallsOpen DEF LastCalls
<1>5. /\ run'.at = "tools" /\ run'.request = <<>> /\ run'.history = run.history
      /\ run'.original = run.original /\ run' \in RunRecord /\ run'.results = {}
  <2>1. "tools" \in RunPlace
    BY DEF RunPlace
  <2> QED BY <1>2, <1>3, <2>1 DEF RunRecord
<1>6. LastCalls' = LastCalls
  BY <1>5 DEF LastCalls
<1>7. RunKept'
  BY <1>1, <1>3, <1>5, NothingKept DEF RunKept
<1>8. CallsClosed'
  BY <1>1, <1>2, <1>5, <1>6 DEF CallsClosed
<1>9. SqueezeKept'
  BY <1>0, <1>2 DEF SqueezeKept
<1>10. KeptIsTold'
  BY <1>0, <1>2, <1>5 DEF KeptIsTold
<1>11. Tells(kept) \subseteq Tells(run.history) \cup given
  BY <1>1, <1>2 DEF KeptIsTold
<1>12. AllIsTold'
  BY <1>1, <1>2, <1>3, <1>4, <1>5, <1>11, NothingKept DEF AllIsTold
<1> QED BY <1>2, <1>3, <1>7, <1>8, <1>9, <1>10, <1>12 DEF RequestInv

\* The result of a tool comes.
LEMMA ResultStep == ASSUME RequestInv, NEW t \in Tool, Result(t) PROVE RequestInv'
<1>0. squeeze = NoJob /\ squeeze.at = "none"
  BY NoSqueeze DEF Result
<1>1. WellKept(kept) /\ WellKept(onDisk) /\ RunKept /\ KeptIsTold /\ AllIsTold /\ CallsClosed
  BY DEF RequestInv
<1>2. /\ run.at = "tools" /\ t \in LastCalls /\ run' = [run EXCEPT !.results = @ \cup {t}]
      /\ said' = said /\ waiting' = waiting /\ kept' = kept /\ onDisk' = onDisk
      /\ squeeze' = squeeze /\ executed' = executed /\ given' = given
  BY DEF Result
<1>3. run \in RunRecord /\ t \in Word /\ run.results \subseteq LastCalls
  BY <1>1, <1>2 DEF RunKept, Word
<1>4. /\ run'.at = "tools" /\ run'.request = run.request /\ run'.history = run.history
      /\ run'.original = run.original /\ run' \in RunRecord /\ run'.results = run.results \cup {t}
  BY <1>2, <1>3 DEF RunRecord
<1>5. LastCalls' = LastCalls
  BY <1>4 DEF LastCalls
<1>6. RunKept'
  BY <1>1, <1>2, <1>3, <1>4, <1>5 DEF RunKept
<1>7. CallsClosed'
  BY <1>1, <1>2, <1>4, <1>5 DEF CallsClosed
<1>8. SqueezeKept'
  BY <1>0, <1>2 DEF SqueezeKept
<1>9. KeptIsTold'
  BY <1>0, <1>1, <1>2, <1>4 DEF KeptIsTold
<1>10. AllIsTold'
  BY <1>1, <1>2, <1>4 DEF AllIsTold
<1> QED BY <1>1, <1>2, <1>6, <1>7, <1>8, <1>9, <1>10 DEF RequestInv

\* All tools are done: their results are the next request.
LEMMA ToolsDoneStep == ASSUME RequestInv, ToolsDone PROVE RequestInv'
<1> DEFINE q == <<Piece("returns", LastCalls)>>
<1>0. squeeze = NoJob /\ squeeze.at = "none"
  BY NoSqueeze DEF ToolsDone
<1>1. WellKept(kept) /\ WellKept(onDisk) /\ RunKept /\ KeptIsTold /\ AllIsTold /\ CallsClosed
  BY DEF RequestInv
<1>2. /\ run.at = "tools" /\ run' = [run EXCEPT !.at = "take", !.request = q, !.history = run.history]
      /\ said' = said /\ waiting' = waiting /\ kept' = kept /\ onDisk' = onDisk
      /\ squeeze' = squeeze /\ executed' = executed /\ given' = given
  BY DEF ToolsDone, Take
<1>3. run \in RunRecord /\ WellKept(run.history) /\ run.request = <<>>
      /\ run.history # <<>> /\ Last(run.history).kind = "response"
  BY <1>1, <1>2 DEF RunKept
<1>4. LastCalls \subseteq OpenCalls(run.history) /\ LastCalls \subseteq Word
  BY <1>3, LastCallsOpen DEF LastCalls
<1>5. Follows(q, run.history) /\ ReturnsIn(q) = LastCalls
  BY <1>3, <1>4, AppendedAnswers
<1> HIDE DEF q
<1>6. /\ run'.at = "take" /\ run'.request = q /\ run'.history = run.history
      /\ run'.original = run.original /\ run' \in RunRecord
  <2>1. "take" \in RunPlace /\ q \in Seq(MessagePart) /\ run.history \in Seq(MessagePart)
    BY <1>3, <1>5 DEF RunPlace, Follows, WellKept
  <2> QED BY <1>2, <1>3, <2>1 DEF RunRecord
<1>7. RunKept'
  BY <1>1, <1>3, <1>5, <1>6 DEF RunKept
<1>8. CallsClosed'
  BY <1>1, <1>2, <1>5, <1>6 DEF CallsClosed
<1>9. SqueezeKept'
  BY <1>0, <1>2 DEF SqueezeKept
<1>10. KeptIsTold'
  BY <1>0, <1>1, <1>2, <1>6 DEF KeptIsTold
<1>11. AllIsTold'
  BY <1>1, <1>2, <1>3, NothingKept DEF AllIsTold
<1> QED BY <1>1, <1>2, <1>7, <1>8, <1>9, <1>10, <1>11 DEF RequestInv

\* What was said while the last response came is the next request.
LEMMA GoOnStep == ASSUME RequestInv, GoOn PROVE RequestInv'
<1> DEFINE q == Joined(Prompts(waiting))
<1>0. squeeze = NoJob /\ squeeze.at = "none"
  BY NoSqueeze DEF GoOn
<1>1. WellKept(kept) /\ WellKept(onDisk) /\ RunKept /\ KeptIsTold /\ AllIsTold /\ CallsClosed
  BY DEF RequestInv
<1>2. /\ run.at = "answered" /\ LastCalls = {}
      /\ run' = [[run EXCEPT !.at = "take", !.request = q, !.history = run.history] EXCEPT !.at = "audit"]
      /\ said' = said /\ waiting' = {} /\ kept' = run.history /\ onDisk' = run.history
      /\ squeeze' = squeeze /\ executed' = executed /\ given' = given
  BY DEF GoOn, Take
<1>3. run \in RunRecord /\ WellKept(run.history) /\ run.request = <<>> /\ WellKept(run.original)
  BY <1>1, <1>2 DEF RunKept
<1>4. Follows(q, run.history) /\ Tells(q) = waiting
  <2>1. waiting \subseteq Input
    BY <1>1 DEF AllIsTold
  <2>2. <<>> \o Prompts(waiting) = Prompts(waiting)
    BY <2>1, PromptsTell
  <2>3. Follows(<<>>, run.history) /\ Tells(<<>>) = {}
    BY NothingKept
  <2>4. LET p == Joined(<<>> \o Prompts(waiting)) IN
          Follows(p, run.history) /\ Tells(p) = Tells(<<>>) \cup waiting
    BY <1>3, <2>1, <2>3, PromptsFollow
  <2> QED BY <2>2, <2>3, <2>4
<1> HIDE DEF q
<1>5. /\ run'.at = "audit" /\ run'.request = q /\ run'.history = run.history
      /\ run'.original = run.original /\ run' \in RunRecord
  <2>1. "audit" \in RunPlace /\ q \in Seq(MessagePart) /\ run.history \in Seq(MessagePart)
    BY <1>3, <1>4 DEF RunPlace, Follows, WellKept
  <2> QED BY <1>2, <1>3, <2>1 DEF RunRecord
<1>6. RunKept'
  BY <1>3, <1>4, <1>5 DEF RunKept
<1>7. CallsClosed'
  BY <1>1, <1>2, <1>5 DEF CallsClosed
<1>8. SqueezeKept'
  BY <1>0, <1>2 DEF SqueezeKept
<1>9. KeptIsTold'
  BY <1>0, <1>2, <1>5 DEF KeptIsTold
<1>10. Tells(kept) \subseteq Tells(run.history) \cup given
  BY <1>1, <1>2 DEF KeptIsTold
<1>11. AllIsTold'
  BY <1>1, <1>2, <1>3, <1>4, <1>5, <1>10, NothingKept DEF AllIsTold
<1> QED BY <1>2, <1>3, <1>6, <1>7, <1>8, <1>9, <1>11 DEF RequestInv

\* The turn ends; all is saved.
LEMMA EndRunStep == ASSUME RequestInv, EndRun PROVE RequestInv'
<1>0. squeeze = NoJob /\ squeeze.at = "none"
  BY NoSqueeze DEF EndRun
<1>1. WellKept(run.history) /\ RunKept /\ KeptIsTold /\ AllIsTold
  BY RunFields DEF RequestInv
<1>2. /\ run.at = "answered" /\ run' = NoRun
      /\ said' = said /\ waiting' = waiting /\ kept' = run.history /\ onDisk' = run.history
      /\ squeeze' = squeeze /\ executed' = executed /\ given' = given
  BY DEF EndRun
<1>3. RunKept' /\ CallsClosed' /\ run'.at = "idle" /\ Tells(run'.request) = {}
  BY <1>2, NoRunKept
<1>4. SqueezeKept'
  BY <1>0, <1>2 DEF SqueezeKept
<1>5. KeptIsTold'
  BY <1>0, <1>2, <1>3 DEF KeptIsTold
<1>6. Tells(kept) \subseteq Tells(run.history) \cup given /\ run.request = <<>>
  BY <1>1, <1>2 DEF KeptIsTold, RunKept
<1>7. AllIsTold'
  BY <1>1, <1>2, <1>3, <1>6, NothingKept DEF AllIsTold
<1> QED BY <1>1, <1>2, <1>3, <1>4, <1>5, <1>7 DEF RequestInv

\* The turn is cut off: what it recorded stays, with its calls closed; what it
\* was not sent yet waits for the turn to be resumed or is given up.
LEMMA CutOffStep ==
  ASSUME RequestInv, NEW transport \in BOOLEAN, NEW recorded \in BOOLEAN, CutOff(transport, recorded)
  PROVE  RequestInv'
<1> DEFINE pending == IF run.at = "audit" THEN run.request ELSE <<>>
           whole   == run.history \o pending
           closed  == Interrupted(whole)
           left    == waiting \cup ((Tells(run.request) \cap Input) \ Tells(kept'))
<1>0. squeeze = NoJob /\ squeeze.at = "none"
  BY NoSqueeze DEF CutOff
<1>1. WellKept(kept) /\ WellKept(onDisk) /\ KeptIsTold /\ AllIsTold /\ WellKept(run.history)
      /\ Follows(run.request, run.history)
  BY RunFields DEF RequestInv
<1>2. /\ run.at # "idle" /\ run' = NoRun
      /\ IF recorded THEN kept' = closed /\ onDisk' = closed ELSE kept' = kept /\ onDisk' = onDisk
      /\ waiting' = IF transport THEN left ELSE {}
      /\ given' = given \cup (left \ waiting')
      /\ squeeze' = squeeze /\ said' = said /\ executed' = executed
  BY DEF CutOff
<1>3. RunKept' /\ CallsClosed' /\ run'.at = "idle" /\ Tells(run'.request) = {}
  BY <1>2, NoRunKept
<1>4. WellKept(closed) /\ Tells(run.history) \subseteq Tells(closed)
  <2>1. Follows(pending, run.history)
    BY <1>1, NothingKept
  <2> HIDE DEF pending
  <2>2. WellKept(whole) /\ Tells(run.history) \subseteq Tells(whole)
    BY <1>1, <2>1, FollowedHistory
  <2> HIDE DEF whole
  <2> QED BY <2>2, RepairedKept
<1> HIDE DEF pending, whole, closed
<1>5. Tells(kept) \subseteq Tells(run.history) \cup given /\ Tells(kept) \subseteq Tells(onDisk) \cup given
  BY <1>1, <1>2 DEF KeptIsTold
<1>6. /\ WellKept(kept') /\ WellKept(onDisk') /\ Tells(kept) \subseteq Tells(kept') \cup given
      /\ Tells(kept') \subseteq Tells(onDisk') \cup given
  BY <1>1, <1>2, <1>4, <1>5
<1>7. SqueezeKept'
  BY <1>0, <1>2 DEF SqueezeKept
<1>8. KeptIsTold'
  BY <1>0, <1>2, <1>3, <1>6 DEF KeptIsTold
<1>9. /\ said \subseteq Input /\ waiting \subseteq Input
      /\ executed \subseteq Tells(kept) \cup given
      /\ said \subseteq Tells(kept) \cup Tells(run.request) \cup waiting \cup given
  BY <1>1 DEF AllIsTold
<1>10. left \subseteq Input /\ left \subseteq waiting' \cup given' /\ given \subseteq given'
      /\ waiting' \subseteq left
  BY <1>2, <1>9
<1>11. said \subseteq Tells(kept') \cup left \cup given
  BY <1>6, <1>9
<1> HIDE DEF left
<1>12. AllIsTold'
  BY <1>2, <1>3, <1>6, <1>9, <1>10, <1>11 DEF AllIsTold
<1> QED BY <1>3, <1>6, <1>7, <1>8, <1>12 DEF RequestInv

\* The request is rejected: the messages are those of before the turn.
LEMMA RejectInputStep == ASSUME RequestInv, RejectInput PROVE RequestInv'
<1>0. squeeze = NoJob /\ squeeze.at = "none"
  BY NoSqueeze DEF RejectInput
<1>1. KeptIsTold /\ AllIsTold /\ RunKept /\ WellKept(run.original)
  BY RunFields DEF RequestInv
<1>2. /\ run.at = "ready" /\ run' = NoRun /\ kept' = run.original /\ onDisk' = run.original
      /\ waiting' = {}
      /\ given' = given \cup waiting \cup (Tells(run.history) \ Tells(run.original))
      /\ squeeze' = squeeze /\ said' = said /\ executed' = executed
  BY DEF RejectInput, Forgotten
<1>3. RunKept' /\ CallsClosed' /\ run'.at = "idle" /\ Tells(run'.request) = {}
  BY <1>2, NoRunKept
<1>4. SqueezeKept'
  BY <1>0, <1>2 DEF SqueezeKept
<1>5. KeptIsTold'
  BY <1>0, <1>2, <1>3 DEF KeptIsTold
<1>6. Tells(kept) \subseteq Tells(run.history) \cup given /\ Tells(run.request) = {}
  BY <1>1, <1>2, NothingKept DEF KeptIsTold, RunKept
<1>7. AllIsTold'
  BY <1>1, <1>2, <1>3, <1>6 DEF AllIsTold
<1> QED BY <1>1, <1>2, <1>3, <1>4, <1>5, <1>7 DEF RequestInv

\* The process dies: what is on disk is kept, with its calls closed.
LEMMA RestartStep == ASSUME RequestInv, Restart PROVE RequestInv'
<1> DEFINE whole == Repaired(onDisk)
           lost  == waiting \cup (Tells(run.request) \cap Input)
<1>1. WellKept(onDisk) /\ KeptIsTold /\ AllIsTold
  BY DEF RequestInv
<1>2. /\ run' = NoRun /\ squeeze' = NoJob /\ kept' = whole /\ onDisk' = whole
      /\ waiting' = IF resumable THEN waiting ELSE {}
      /\ given' = given \cup (lost \ (waiting' \cup Tells(kept')))
      /\ said' = said /\ executed' = executed
  BY DEF Restart
<1>3. RunKept' /\ CallsClosed' /\ run'.at = "idle" /\ Tells(run'.request) = {}
  BY <1>2, NoRunKept
<1>4. WellKept(whole) /\ Tells(whole) = Tells(onDisk)
  BY <1>1, RepairedKept
<1> HIDE DEF whole
<1>5. SqueezeKept' /\ squeeze'.at = "none"
  BY <1>2 DEF SqueezeKept, NoJob
<1>6. KeptIsTold'
  BY <1>2, <1>3, <1>5 DEF KeptIsTold
<1>7. /\ said \subseteq Input /\ waiting \subseteq Input
      /\ executed \subseteq Tells(kept) \cup given
      /\ said \subseteq Tells(kept) \cup Tells(run.request) \cup waiting \cup given
      /\ Tells(kept) \subseteq Tells(kept') \cup given
  BY <1>1, <1>2, <1>4 DEF AllIsTold, KeptIsTold
<1>8. said \subseteq Tells(kept') \cup lost \cup given
  BY <1>7
<1> HIDE DEF lost
<1>9. AllIsTold'
  BY <1>2, <1>3, <1>7, <1>8 DEF AllIsTold
<1> QED BY <1>2, <1>3, <1>4, <1>5, <1>6, <1>9 DEF RequestInv

\* /compress makes a candidate of all that is kept.
LEMMA SqueezeStep == ASSUME RequestInv, Squeeze PROVE RequestInv'
<1>1. WellKept(kept) /\ WellKept(onDisk) /\ RunKept /\ KeptIsTold /\ AllIsTold /\ CallsClosed
  BY DEF RequestInv
<1>2. PICK c \in {Compression(kept, FALSE)} :
        c.messages # <<>> /\ squeeze' = [at |-> "made", candidate |-> c]
  BY DEF Squeeze
<1>3. /\ run.at = "idle" /\ run' = run /\ kept' = kept /\ onDisk' = onDisk /\ given' = given
      /\ said' = said /\ waiting' = waiting /\ executed' = executed
  BY DEF Squeeze
<1>4. WellKept(c.messages) /\ Tells(kept) \subseteq Tells(c.messages) \cup c.overlooked
  BY <1>1, <1>2, CompressionKept
<1>5. squeeze'.at = "made" /\ squeeze'.candidate = c
  BY <1>2
<1>6. RunKept' /\ CallsClosed'
  BY <1>1, <1>3 DEF RunKept, CallsClosed, LastCalls
<1>7. SqueezeKept'
  BY <1>2, <1>3, <1>4, <1>5 DEF SqueezeKept
<1>8. KeptIsTold'
  BY <1>1, <1>3, <1>4, <1>5 DEF KeptIsTold
<1>9. AllIsTold'
  BY <1>1, <1>3 DEF AllIsTold
<1> QED BY <1>1, <1>3, <1>6, <1>7, <1>8, <1>9 DEF RequestInv

\* The candidate is saved, then takes the place of what is kept, or is dropped.
LEMMA SqueezedSteps ==
  ASSUME RequestInv, SqueezeSaved \/ Squeezed \/ SqueezeDropped
  PROVE  RequestInv'
<1> DEFINE c == squeeze.candidate
<1>1. WellKept(kept) /\ WellKept(onDisk) /\ RunKept /\ KeptIsTold /\ AllIsTold /\ CallsClosed
  BY DEF RequestInv
<1>2. /\ run' = run /\ said' = said /\ waiting' = waiting /\ executed' = executed
      /\ squeeze.at # "none" /\ given \subseteq given'
  BY DEF SqueezeSaved, Squeezed, SqueezeDropped
<1>3. RunKept' /\ CallsClosed'
  BY <1>1, <1>2 DEF RunKept, CallsClosed, LastCalls
<1>4. /\ run.at = "idle" /\ squeeze = [at |-> squeeze.at, candidate |-> c] /\ WellKept(c.messages)
      /\ squeeze.at = "saved" => c.overlooked \subseteq given /\ onDisk = c.messages
  <2>1. SqueezeKept /\ squeeze # NoJob
    BY <1>2 DEF RequestInv, NoJob
  <2> QED BY <2>1 DEF SqueezeKept
<1>5. Tells(kept) \subseteq Tells(c.messages) \cup c.overlooked \cup given
  BY <1>1, <1>2 DEF KeptIsTold
<1>6. CASE SqueezeSaved
  <2>1. /\ kept' = kept /\ onDisk' = c.messages /\ given' = given \cup c.overlooked
        /\ squeeze' = [squeeze EXCEPT !.at = "saved"]
    BY <1>6 DEF SqueezeSaved
  <2>2. squeeze' = [at |-> "saved", candidate |-> c]
    BY <1>4, <2>1
  <2>3. squeeze'.at = "saved" /\ squeeze'.candidate = c
    BY <2>2
  <2>4. SqueezeKept'
    BY <1>2, <1>4, <2>1, <2>2, <2>3 DEF SqueezeKept
  <2>5. KeptIsTold'
    BY <1>2, <1>4, <1>5, <2>1, <2>3 DEF KeptIsTold
  <2>6. AllIsTold'
    BY <1>1, <1>2, <2>1 DEF AllIsTold
  <2> QED BY <1>1, <1>3, <1>4, <2>1, <2>4, <2>5, <2>6 DEF RequestInv
<1>7. CASE Squeezed
  <2>1. /\ kept' = c.messages /\ onDisk' = onDisk /\ given' = given /\ squeeze' = NoJob
        /\ squeeze.at = "saved"
    BY <1>7 DEF Squeezed
  <2>2. SqueezeKept' /\ squeeze'.at = "none"
    BY <2>1 DEF SqueezeKept, NoJob
  <2>3. Tells(kept) \subseteq Tells(kept') \cup given
    BY <1>4, <1>5, <2>1
  <2>4. KeptIsTold'
    BY <1>2, <1>4, <2>1, <2>2 DEF KeptIsTold
  <2>5. AllIsTold'
    BY <1>1, <1>2, <2>1, <2>3 DEF AllIsTold
  <2> QED BY <1>1, <1>3, <1>4, <2>1, <2>2, <2>4, <2>5 DEF RequestInv
<1>8. CASE SqueezeDropped
  <2>1. kept' = kept /\ onDisk' = onDisk /\ given' = given /\ squeeze' = NoJob
    BY <1>8 DEF SqueezeDropped
  <2>2. SqueezeKept' /\ squeeze'.at = "none"
    BY <2>1 DEF SqueezeKept, NoJob
  <2>3. KeptIsTold'
    BY <1>1, <1>2, <1>4, <2>1, <2>2 DEF KeptIsTold
  <2>4. AllIsTold'
    BY <1>1, <1>2, <2>1 DEF AllIsTold
  <2> QED BY <1>1, <1>3, <2>1, <2>2, <2>3, <2>4 DEF RequestInv
<1> QED BY <1>6, <1>7, <1>8

\* Every step keeps the invariant.
LEMMA RequestSteps == ASSUME RequestInv, [RequestNext]_requestVars PROVE RequestInv'
<1>1. CASE \E i \in Input : Begin(i) \/ Say(i)
  BY <1>1, BeginStep, SayStep
<1>2. CASE ResumeRun
  BY <1>2, ResumeStep
<1>3. CASE TakeInputs
  BY <1>3, TakeInputsStep
<1>4. CASE Audit
  BY <1>4, AuditStep
<1>5. CASE CompressFirst \/ TooLong
  BY <1>5, CompressStep
<1>6. CASE Send
  BY <1>6, SendStep
<1>7. CASE \E calls \in SUBSET Tool : Respond(calls)
  BY <1>7, RespondStep
<1>8. CASE StartTools
  BY <1>8, StartToolsStep
<1>9. CASE ToolsDone
  BY <1>9, ToolsDoneStep
<1>10. CASE GoOn
  BY <1>10, GoOnStep
<1>11. CASE EndRun
  BY <1>11, EndRunStep
<1>12. CASE \E c \in Tool : Result(c)
  BY <1>12, ResultStep
<1>13. CASE \E transport, recorded \in BOOLEAN : CutOff(transport, recorded)
  BY <1>13, CutOffStep
<1>14. CASE RejectInput
  BY <1>14, RejectInputStep
<1>15. CASE Restart
  BY <1>15, RestartStep
<1>16. CASE Squeeze
  BY <1>16, SqueezeStep
<1>17. CASE SqueezeSaved \/ Squeezed \/ SqueezeDropped
  BY <1>17, SqueezedSteps
<1>18. CASE UNCHANGED requestVars
  <2>1. /\ run' = run /\ kept' = kept /\ onDisk' = onDisk /\ squeeze' = squeeze /\ given' = given
        /\ said' = said /\ waiting' = waiting /\ executed' = executed
    BY <1>18 DEF requestVars
  <2> QED BY <2>1 DEF RequestInv, RunKept, LastCalls, CallsClosed, SqueezeKept, KeptIsTold, AllIsTold
<1> QED
  BY <1>1, <1>2, <1>3, <1>4, <1>5, <1>6, <1>7, <1>8, <1>9, <1>10, <1>11, <1>12, <1>13, <1>14,
     <1>15, <1>16, <1>17, <1>18 DEF RequestNext

\* In the invariant a request that goes out is whole.
LEMMA WholeRequests == ASSUME RequestInv PROVE RequestsAreWhole
<1> DEFINE h == run.history
           answers(c) == {k \in PartsOf(h, {"returns"}) : c \in h[k].says}
<1>1. WellKept(h) /\ KeptIsTold /\ AllIsTold /\ CallsClosed /\ WellKept(onDisk) /\ RunKept
  BY RunFields DEF RequestInv
<1>2. StartedIsOnRecord
  BY <1>1 DEF StartedIsOnRecord, KeptIsTold, AllIsTold
<1>3. ASSUME run.at = "sent"
      PROVE  /\ OpenCalls(h) \subseteq given
             /\ \A c \in Tool : \A k, l \in answers(c) : k = l /\ c \in CallsIn(SubSeq(h, 1, k - 1))
             /\ (said \ waiting) \cup executed \subseteq Tells(h) \cup given
             /\ [k \in DOMAIN onDisk |-> onDisk[k].says] = [k \in DOMAIN h |-> h[k].says]
  <2>1. OpenCalls(h) \subseteq given
    BY <1>1, <1>3 DEF CallsClosed
  <2>2. ASSUME NEW c \in Tool, NEW k \in answers(c), NEW l \in answers(c)
        PROVE  k = l /\ c \in CallsIn(SubSeq(h, 1, k - 1))
    <3>1. k \in PartsOf(h, {"returns"}) /\ l \in PartsOf(h, {"returns"}) /\ c \in h[k].says /\ c \in h[l].says
      OBVIOUS
    <3> HIDE DEF h, answers
    <3>2. k = l
      BY <1>1, <3>1 DEF WellKept, Answered
    <3>3. PICK m \in PartsOf(h, {"response"}) : m < k /\ c \in h[m].says
      BY <1>1, <3>1 DEF WellKept, Answered
    <3>4. k \in 1..Len(h) /\ m \in 1..Len(h) /\ h[m].kind = "response"
      BY <1>1, <3>1, <3>3, PartsByNumber DEF WellKept
    <3>5. k - 1 \in 0..Len(h) /\ m \in 1..(k - 1)
      BY <1>1, <3>3, <3>4, PartsByNumber DEF WellKept
    <3>6. /\ SubSeq(h, 1, k - 1) \in Seq(MessagePart) /\ Len(SubSeq(h, 1, k - 1)) = k - 1
          /\ SubSeq(h, 1, k - 1)[m] = h[m]
      BY <1>1, <3>5, FirstParts DEF WellKept
    <3>7. m \in PartsOf(SubSeq(h, 1, k - 1), {"response"})
      BY <3>4, <3>5, <3>6, PartsByNumber
    <3> QED BY <3>2, <3>3, <3>6, <3>7 DEF CallsIn
  <2>3. Tells(kept) \subseteq Tells(h) \cup given /\ SameWords(onDisk, h) /\ run.request = <<>>
    BY <1>1, <1>3 DEF KeptIsTold, RunKept
  <2>4. (said \ waiting) \cup executed \subseteq Tells(h) \cup given
    BY <1>1, <2>3, NothingKept DEF AllIsTold
  <2>5. [k \in DOMAIN onDisk |-> onDisk[k].says] = [k \in DOMAIN h |-> h[k].says]
    <3> HIDE DEF h
    <3>1. DOMAIN onDisk = 1..Len(onDisk) /\ DOMAIN h = 1..Len(h)
      BY <1>1, PartsByNumber DEF WellKept
    <3> QED BY <2>3, <3>1 DEF SameWords
  <2> QED BY <2>1, <2>2, <2>4, <2>5
<1> QED BY <1>2, <1>3 DEF RequestsAreWhole

\* For all that the user can say, all sets of tools and all bounds of a
\* compression: every request is closed and tells, verbatim or in a summary, all
\* that was said and done and not given up; it is what a restart would find; and
\* every started tool is on the record.
THEOREM RequestsAreWholeCorrect == RequestSpec => []RequestsAreWhole
<1>1. RequestInit => RequestInv
  BY RequestInitInv
<1>2. RequestInv /\ [RequestNext]_requestVars => RequestInv'
  BY RequestSteps
<1>3. RequestInv => RequestsAreWhole
  BY WholeRequests
<1> QED BY <1>1, <1>2, <1>3, PTL DEF RequestSpec
===============================================================================
