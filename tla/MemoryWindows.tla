---------------------------- MODULE MemoryWindows ----------------------------
(* The perception of completed turns (memory/service.py, memory/records.py,   *)
(* memory/perception.py): the owner seals windows of completed turns into     *)
(* jobs of the session's journal; a background drain in a thread of its own,  *)
(* or the user's /STM retry, produces, publishes, covers, indexes and prunes. *)
(*                                                                            *)
(* A step goes from one lock or await to the next.  `file' is the journal;    *)
(* `store' and `core' are the formal records and MEMORY.md, by job.           *)
EXTENDS Naturals, FiniteSets

CONSTANTS Size,         \* window_turns
          Overlap,      \* overlap_turns
          MaxTurns,     \* bound on completed turns
          MaxTroubles   \* bound on failures (of a production, publication or
                        \* indexing), rebinds of the session and deaths together

ASSUME WindowsAssumption ==
  /\ {Size, Overlap, MaxTurns, MaxTroubles} \subseteq Nat
  /\ Overlap < Size

VARIABLES
  file,        \* the journal: turns, cursors and jobs
  store,       \* ids of the jobs whose records are in the record table
  core,        \* ids of the jobs whose records are projected to MEMORY.md
  context,     \* turns with messages in the Coordinator's present context
  owner,       \* the owner's place in its turn and in schedule_processing
  pendingEnd,  \* MemoryService._pending_end
  background,  \* the drain that _background_running speaks of, or NoWorker
  worker,      \* place and locals of each drain and of /STM retry
  lock,        \* holder of processing.lock
  troubles,    \* failures, rebinds and deaths so far
  slipped,     \* history: turns that ended while a drain was about to move the
               \* cursor
  strayed      \* history: a death left more beyond the cursor than OneBeyond

mishaps == <<slipped, strayed>>
windowVars == <<file, store, core, context, owner, pendingEnd, background, worker, lock, troubles, mishaps>>

Turn == 1..MaxTurns
Drain == {"drain1", "drain2"}
Worker == Drain \cup {"retry"}
NoWorker == "none"
WindowId == (0..MaxTurns) \X Turn
Stage == {"registered", "produced", "committed", "done", "indexed"}
Job == [id : WindowId, new : SUBSET Turn, events : SUBSET Turn, stage : Stage]
Away == [at |-> "off", bound |-> FALSE, through |-> 0, todo |-> {}, job |-> <<0, 1>>, scan |-> {}]
Place == {"off", "look", "wait", "pick", "produce", "publish", "checkpoint",
          "project", "scan", "cover", "index", "prune", "compact", "compare"}

Lowest(S, n) == {t \in S : Cardinality({u \in S : u < t}) < n}
Highest(S, n) == {t \in S : Cardinality({u \in S : u > t}) < n}
Greatest(S) == CHOOSE t \in S : \A u \in S : u <= t
Least(S) == CHOOSE t \in S : \A u \in S : t <= u

JobOf(id) == CHOOSE j \in file.jobs : j.id = id
Pending == {j \in file.jobs : j.stage # "indexed"}
\* Windows whose turns the cursor does not know to be reserved.
Beyond == {j \in file.jobs : j.id[2] > file.reserved}
\* Without an overlap nothing protects the evidence of a turn that slipped past
\* a drain.
Unprotected == IF Overlap = 0 THEN slipped ELSE {}
\* At most one, of protected turns.
OneBeyond == \A j, k \in Beyond : j = k /\ j.new \cap Unprotected = {}
Advance(id, s) ==
  [file EXCEPT !.jobs = {IF j.id # id THEN j
                         ELSE [j EXCEPT !.stage = s, !.events = IF s = "indexed" THEN {} ELSE j.events] :
                         j \in file.jobs}]
Go(w, p) == worker' = [worker EXCEPT ![w].at = p]

WindowsTypeOK ==
  /\ file.completed \in 0..MaxTurns /\ file.consumed \in 0..MaxTurns /\ file.reserved \in 0..MaxTurns
  /\ file.covered \subseteq Turn /\ file.ready \subseteq Turn /\ file.jobs \subseteq Job
  /\ file.blocked \in BOOLEAN /\ store \subseteq WindowId /\ core \subseteq WindowId /\ context \subseteq Turn
  /\ owner.at \in {"idle", "turn", "rows", "jobs", "reserve", "kick"}
  /\ pendingEnd \in 0..MaxTurns /\ background \in Drain \cup {NoWorker}
  /\ lock \in Worker \cup {NoWorker}
  /\ \A w \in Worker : worker[w].at \in Place /\ worker[w].scan \subseteq Turn
  /\ slipped \subseteq Turn /\ strayed \in BOOLEAN

Rest == [at |-> "idle", start |-> 0, rows |-> {}, end |-> 0]

WindowsInit ==
  /\ file = [completed |-> 0, consumed |-> 0, reserved |-> 0, covered |-> {}, ready |-> {},
             jobs |-> {}, blocked |-> FALSE]
  /\ store = {} /\ core = {} /\ context = {} /\ owner = Rest
  /\ pendingEnd = 0 /\ background = NoWorker /\ lock = NoWorker
  /\ worker = [w \in Worker |-> Away]
  /\ troubles = 0 /\ slipped = {} /\ strayed = FALSE

-----------------------------------------------------------------------------
(* The owner: a turn, and schedule_processing after it.                       *)

\* Two adjacent statements of a drain, with a lock taken for each.  A turn may
\* end between them; that one begins and ends there, model requests included,
\* is left out.
BetweenStatements == \E w \in Worker : worker[w].at \in {"cover", "compact"}

BeginTurn ==
  /\ owner.at = "idle" /\ file.completed < MaxTurns /\ ~BetweenStatements
  /\ owner' = [Rest EXCEPT !.at = "turn"]
  /\ UNCHANGED <<file, store, core, context, pendingEnd, background, worker, lock, troubles, mishaps>>

\* The final answer's checkpoint counts the turn and makes its evidence ready.
CompleteTurn ==
  /\ owner.at = "turn"
  /\ LET n == file.completed + 1 IN
       /\ file' = [file EXCEPT !.completed = n, !.ready = @ \cup {n},
                               !.consumed = IF @ < n THEN @ ELSE n - 1,
                               !.reserved = IF @ < n THEN @ ELSE n - 1]
       /\ context' = context \cup {n}
       /\ slipped' = IF \E w \in Worker : worker[w].at = "cover" THEN slipped \cup {n} ELSE slipped
  /\ owner' = [Rest EXCEPT !.at = "rows", !.start = file'.reserved]
  /\ UNCHANGED <<store, core, pendingEnd, background, worker, lock, troubles, strayed>>

\* A turn that ends without a final answer is not counted, but schedules too.
TurnEndsUncounted ==
  /\ owner.at = "turn"
  /\ owner' = [Rest EXCEPT !.at = "rows", !.start = file.reserved]
  /\ UNCHANGED <<file, store, core, context, pendingEnd, background, worker, lock, troubles, mishaps>>

\* Older messages of the context are replaced by a summary.
CompressContext ==
  /\ owner.at = "turn" /\ context # {} /\ ~BetweenStatements
  /\ context' = {}
  /\ UNCHANGED <<file, store, core, owner, pendingEnd, background, worker, lock, troubles, mishaps>>

Rows == {t \in file.ready : t <= file.completed}

SealRows ==
  /\ owner.at = "rows"
  /\ owner' = [owner EXCEPT !.at = "jobs", !.rows = {t \in Rows : t \notin file.covered \/ t <= owner.start}]
  /\ UNCHANGED <<file, store, core, context, pendingEnd, background, worker, lock, troubles, mishaps>>

Reserved == UNION {j.new : j \in Pending}
Fresh == Lowest({t \in owner.rows : t > owner.start} \ Reserved, Size)

SealJob ==
  /\ owner.at = "jobs"
  /\ IF Cardinality(Fresh) < Size
     THEN owner' = [owner EXCEPT !.at = "kick"] /\ UNCHANGED file
     ELSE LET id == <<owner.start, Greatest(Fresh)>>
              old == Highest({t \in owner.rows : t <= owner.start}, Overlap)
          IN /\ owner' = [owner EXCEPT !.at = "reserve", !.end = Greatest(Fresh)]
             /\ file' = IF \E j \in file.jobs : j.id = id THEN file
                        ELSE [file EXCEPT !.jobs = @ \cup {[id |-> id, new |-> Fresh,
                                                           events |-> Fresh \cup old, stage |-> "registered"]}]
  /\ UNCHANGED <<store, core, context, pendingEnd, background, worker, lock, troubles, mishaps>>

Reserve ==
  /\ owner.at = "reserve"
  /\ file' = [file EXCEPT !.reserved = owner.end]
  /\ owner' = [owner EXCEPT !.at = "rows", !.start = owner.end]
  /\ UNCHANGED <<store, core, context, pendingEnd, background, worker, lock, troubles, mishaps>>

\* Mutant: a drain that runs is expected to find the new jobs by itself.
KickIdle ==
  /\ owner.at = "kick"
  /\ owner' = Rest
  /\ IF background # NoWorker \/ Pending = {}
     THEN UNCHANGED <<background, worker, pendingEnd>>
     ELSE \E d \in Drain :
            /\ worker[d].at = "off"
            /\ background' = d /\ pendingEnd' = file.completed
            /\ worker' = [worker EXCEPT ![d] = [Away EXCEPT !.at = "look", !.bound = TRUE]]
  /\ UNCHANGED <<file, store, core, context, lock, troubles, mishaps>>

\* Under _schedule_lock: a drain that runs sees the new end, else one is started.
Kick ==
  /\ owner.at = "kick"
  /\ pendingEnd' = file.completed
  /\ owner' = Rest
  /\ IF background # NoWorker \/ Pending = {}
     THEN UNCHANGED <<background, worker>>
     ELSE \E d \in Drain :
            /\ worker[d].at = "off"
            /\ background' = d
            /\ worker' = [worker EXCEPT ![d] = [Away EXCEPT !.at = "look", !.bound = TRUE]]
  /\ UNCHANGED <<file, store, core, context, lock, troubles, mishaps>>

\* /STM retry runs process_pending(recover=True) on the owner's loop.
StartRetry ==
  /\ owner.at \in {"idle", "turn"} /\ worker["retry"].at = "off"
  /\ file.blocked \/ troubles > 0
  /\ worker' = [worker EXCEPT !["retry"] = [Away EXCEPT !.at = "wait", !.bound = TRUE]]
  /\ UNCHANGED <<file, store, core, context, owner, pendingEnd, background, lock, troubles, mishaps>>

\* Leave the session and load it again: volatile state goes, the old drain's
\* thread goes on until it looks or is cancelled.
Rebind ==
  /\ owner.at = "idle" /\ troubles < MaxTroubles
  /\ troubles' = troubles + 1
  /\ background' = NoWorker /\ pendingEnd' = 0 /\ context' = {}
  /\ worker' = [w \in Worker |-> [worker[w] EXCEPT !.bound = FALSE]]
  /\ UNCHANGED <<file, store, core, owner, lock, mishaps>>

-----------------------------------------------------------------------------
(* A drain: _drain_background and process_pending.                            *)

Awaits == {"look", "wait", "pick", "produce", "publish", "index", "compare"}
Release(w) == lock' = IF lock = w THEN NoWorker ELSE lock

\* cancel_all reaches a drain of a session that was left, at an await.
CancelDrain(w) ==
  /\ worker[w].at \in Awaits /\ ~worker[w].bound
  /\ worker' = [worker EXCEPT ![w] = Away]
  /\ Release(w)
  /\ UNCHANGED <<file, store, core, context, owner, pendingEnd, background, troubles, mishaps>>

\* The child's thread is admitted and reaches its loop at some time.
Look(w) ==
  /\ worker[w].at = "look"
  /\ worker' = [worker EXCEPT ![w] = IF ~worker[w].bound THEN Away
                                     ELSE [@ EXCEPT !.at = "wait", !.through = pendingEnd]]
  /\ UNCHANGED <<file, store, core, context, owner, pendingEnd, background, lock, troubles, mishaps>>

Leave(w) == IF w = "retry" THEN Away ELSE [worker[w] EXCEPT !.at = "compare", !.todo = {}]

TakeLock(w) ==
  /\ worker[w].at = "wait" /\ lock = NoWorker
  /\ LET recover == w = "retry" IN
       /\ file' = [file EXCEPT !.blocked = @ /\ ~recover]
       /\ IF file'.blocked
          THEN worker' = [worker EXCEPT ![w] = Leave(w)] /\ UNCHANGED lock
          ELSE /\ lock' = w
               /\ worker' = [worker EXCEPT ![w].at = "pick",
                                           ![w].through = IF recover THEN file.completed ELSE @,
                                           ![w].todo = {j.id : j \in Pending}]
  /\ UNCHANGED <<store, core, context, owner, pendingEnd, background, troubles, mishaps>>

\* Mutant: records that are committed count as projected too.
AfterCommitted(stage) == CASE stage = "registered" -> "produce"
                           [] stage = "produced" -> "publish"
                           [] stage = "committed" -> "scan"
                           [] stage = "done" -> "index"
                           [] OTHER -> "pick"

After(stage) == CASE stage = "registered" -> "produce"
                  [] stage \in {"produced", "committed"} -> "publish"
                  [] stage = "done" -> "index"
                  [] OTHER -> "pick"

\* The jobs that were pending are tried in the order of their windows.
Pick(w) ==
  /\ worker[w].at = "pick"
  /\ \/ /\ worker[w].todo = {}
        /\ worker' = [worker EXCEPT ![w] = Leave(w)] /\ Release(w)
     \/ /\ \E id \in worker[w].todo :
             /\ \A other \in worker[w].todo : id[2] <= other[2]
             /\ worker' = [worker EXCEPT ![w].todo = @ \ {id}, ![w].job = id,
                                         ![w].at = IF id[2] > worker[w].through THEN "pick"
                                                   ELSE After(JobOf(id).stage)]
        /\ UNCHANGED lock
  /\ UNCHANGED <<file, store, core, context, owner, pendingEnd, background, troubles, mishaps>>

Produce(w) ==
  /\ worker[w].at = "produce"
  /\ file' = Advance(worker[w].job, "produced")
  /\ Go(w, "publish")
  /\ UNCHANGED <<store, core, context, owner, pendingEnd, background, lock, troubles, mishaps>>

\* The error is kept with the job; a refusal of the service blocks its route.
ExecuteFails(w) ==
  /\ worker[w].at \in {"produce", "publish"} /\ troubles < MaxTroubles
  /\ \E refused \in IF worker[w].at = "produce" THEN BOOLEAN ELSE {FALSE} :
       LET job == JobOf(worker[w].job) IN
       file' = [Advance(job.id, IF job.stage = "produced" THEN "registered" ELSE job.stage)
                 EXCEPT !.blocked = refused]
  /\ troubles' = troubles + 1
  /\ worker' = [worker EXCEPT ![w] = Leave(w)]
  /\ Release(w)
  /\ UNCHANGED <<store, core, context, owner, pendingEnd, background, mishaps>>

\* _publish: the records, the phase, the projection; in that order.
StoreRecords(w) ==
  /\ worker[w].at = "publish"
  /\ IF JobOf(worker[w].job).stage = "committed"
     THEN Go(w, "project") /\ UNCHANGED store
     ELSE Go(w, "checkpoint") /\ store' = store \cup {worker[w].job}
  /\ UNCHANGED <<file, core, context, owner, pendingEnd, background, lock, troubles, mishaps>>

Checkpoint(w) ==
  /\ worker[w].at = "checkpoint"
  /\ file' = Advance(worker[w].job, "committed")
  /\ Go(w, "project")
  /\ UNCHANGED <<store, core, context, owner, pendingEnd, background, lock, troubles, mishaps>>

Project(w) ==
  /\ worker[w].at = "project"
  /\ core' = core \cup {worker[w].job}
  /\ Go(w, "scan")
  /\ UNCHANGED <<file, store, context, owner, pendingEnd, background, lock, troubles, mishaps>>

\* ObservationStore.commit reads the uncovered turns ...
ScanUncovered(w) ==
  /\ worker[w].at = "scan"
  /\ worker' = [worker EXCEPT ![w].at = "cover",
                              ![w].scan = file.ready \ (file.covered \cup JobOf(worker[w].job).new)]
  /\ UNCHANGED <<file, store, core, context, owner, pendingEnd, background, lock, troubles, mishaps>>

\* ... and, with the number of completed turns as it is by now, moves the cursor.
Cover(w) ==
  /\ worker[w].at = "cover"
  /\ file' = [Advance(worker[w].job, "done")
               EXCEPT !.covered = @ \cup JobOf(worker[w].job).new,
                      !.consumed = IF worker[w].scan = {} THEN file.completed ELSE Least(worker[w].scan) - 1]
  /\ worker' = [worker EXCEPT ![w].at = "index", ![w].scan = {}]
  /\ UNCHANGED <<store, core, context, owner, pendingEnd, background, lock, troubles, mishaps>>

Index(w) ==
  /\ worker[w].at = "index"
  /\ file' = Advance(worker[w].job, "indexed")
  /\ Go(w, "prune")
  /\ UNCHANGED <<store, core, context, owner, pendingEnd, background, lock, troubles, mishaps>>

\* Retrieval is not configured or the embedding fails: the next job is tried.
IndexFails(w) ==
  /\ worker[w].at = "index" /\ troubles < MaxTroubles
  /\ troubles' = troubles + 1
  /\ Go(w, "pick")
  /\ UNCHANGED <<file, store, core, context, owner, pendingEnd, background, lock, mishaps>>

Kept == {t \in file.ready : t + Overlap > file.consumed}
          \cup (IF owner.at = "turn" THEN {file.completed + 1} ELSE {})

PruneScan(w) ==
  /\ worker[w].at = "prune"
  /\ worker' = IF Pending # {} THEN [worker EXCEPT ![w].at = "pick"]
               ELSE [worker EXCEPT ![w].at = "compact", ![w].scan = Kept]
  /\ UNCHANGED <<file, store, core, context, owner, pendingEnd, background, lock, troubles, mishaps>>

\* SessionFile.compact keeps the evidence of open jobs and of the context too.
Compact(w) ==
  /\ worker[w].at = "compact"
  /\ file' = [file EXCEPT !.ready = @ \cap (worker[w].scan \cup context \cup UNION {j.events : j \in Pending})]
  /\ worker' = [worker EXCEPT ![w].at = "pick", ![w].scan = {}]
  /\ UNCHANGED <<store, core, context, owner, pendingEnd, background, lock, troubles, mishaps>>

\* Under _schedule_lock: nothing came meanwhile, or once more.
Compare(w) ==
  /\ worker[w].at = "compare"
  /\ IF ~worker[w].bound \/ worker[w].through = pendingEnd
     THEN worker' = [worker EXCEPT ![w] = Away]
     ELSE Go(w, "look")
  /\ background' = IF worker'[w].at = "off" /\ worker[w].bound THEN NoWorker ELSE background
  /\ UNCHANGED <<file, store, core, context, owner, pendingEnd, lock, troubles, mishaps>>

-----------------------------------------------------------------------------
Death ==
  /\ troubles < MaxTroubles
  /\ troubles' = troubles + 1
  /\ worker' = [w \in Worker |-> Away]
  /\ owner' = Rest /\ pendingEnd' = 0 /\ background' = NoWorker /\ lock' = NoWorker
  /\ strayed' = (strayed \/ ~OneBeyond)
  /\ UNCHANGED <<file, store, core, context, slipped>>

Seal == SealRows \/ SealJob \/ Reserve \/ Kick
Work(w) == \/ Look(w) \/ TakeLock(w) \/ Pick(w) \/ Produce(w) \/ StoreRecords(w)
           \/ Checkpoint(w) \/ Project(w) \/ ScanUncovered(w) \/ Cover(w) \/ Index(w)
           \/ PruneScan(w) \/ Compact(w) \/ Compare(w)

WindowsNext ==
  \/ BeginTurn \/ CompleteTurn \/ TurnEndsUncounted \/ CompressContext \/ Seal
  \/ StartRetry \/ Rebind \/ Death
  \/ \E w \in Worker : Work(w) \/ CancelDrain(w) \/ ExecuteFails(w) \/ IndexFails(w)

WindowsSpec == WindowsInit /\ [][WindowsNext]_windowVars

\* Threads run, a released file lock is taken by whoever asks again, and the
\* model service answers; nobody is obliged to begin or finish a turn.
WindowsFairness ==
  /\ WF_windowVars(Seal)
  /\ \A d \in Drain : WF_windowVars(Work(d)) /\ SF_windowVars(TakeLock(d))

-----------------------------------------------------------------------------
(* No turn is new in two windows, so that nothing is learnt from it twice:    *)
(* although a death between saving a job and reserving its turns leaves the   *)
(* cursor behind, and the owner reads turns and jobs one after the other while*)
(* a drain moves both.  Two such deaths in a row are too many for it.         *)
TurnsPerceivedOnce ==
  \A j, k \in file.jobs : j = k \/ j.new \cap k.new = {}

(* Pruning never drops the evidence of a completed turn that was not          *)
(* perceived yet: its window is still to come, or still open.                 *)
UnperceivedKeepsEvidence ==
  \A t \in 1..file.completed : t \in file.covered \cup file.ready \cup Unprotected

(* A turn that counts as covered has its window's records in the formal table *)
(* and in MEMORY.md, whatever died in between; so no evidence is given up for *)
(* a publication that did not happen.                                         *)
CoveredIsPublished ==
  \A t \in file.covered : \E j \in file.jobs : t \in j.new /\ j.id \in store \cap core

(* What a turn told is found in its evidence until it is found in MEMORY.md,  *)
(* and it is learnt from once.                                                *)
EvidenceKept == /\ UnperceivedKeepsEvidence /\ CoveredIsPublished
                /\ strayed \/ TurnsPerceivedOnce

(* A sealed window is indexed at last although the drain may be about to end  *)
(* when it is sealed: unless something failed, died or left the session.      *)
Disturbed == troubles > 0
SealedIsIndexed == Pending # {} ~> Disturbed \/ Pending = {}
=============================================================================
