# RedLotus: a TLA+ model of its core

This directory holds a formal model of RedLotus (`src/src/redlotus`, version of this
repository): TLA+ modules written from the source, TLC configurations that check them on
small instances, and proofs checked by TLAPS. Paths below are relative to
`src/src/redlotus/`, `docs/design.md` is `src/docs/design.md`; `PROJECT.json` maps each definition to the lines it models.

RedLotus is a command-line and chat-channel assistant. A user's input becomes a *turn* of a
*session*; a Coordinator Agent works on it, may hand a list of tasks to a Manager, which
runs them in batches of Worker Agents on threads of their own. Turns can be stopped, paused
by the user or by a broken connection, supplemented while they run, and resumed after a
restart from the session's journal. It listens and speaks, shows a desktop pet and remembers
what was said. What is hard about it is not any computation but the
many awaits between which a stop, a pause, another input, a crash or a second process
comes in. That is what the model is about.

## 1. Inventory

| Component | State | Operations | Talks to | Hard behaviour | Correct when |
|---|---|---|---|---|---|
| Task plan, Worker batches (`core/tasks.py`, `tools/worker_tools.py`) | `TaskManager.tasks`, planning lock, save lock, input cursors | plan, create list, dispatch, finish, resume, restore, report | journal (snapshots of the plan), child Agents, session inputs | a TaskGroup of children each saving twice; cancellation at any await; crash | no Worker runs on results a crash can take back; nothing reruns unasked; no task is stuck; each input reaches a resumed Worker once |
| Child Agents (`core/agents.py`) | semaphore per session, handles, flag/loop/task/future of each thread | run, dispatch, cancel (one, turn, session, all), stop, close | turns, perception | two threads share a handle without a lock; cancel during boot, during cleanup, twice | limit respected; a cancellation is never lost; nobody returns while the thread acts; close drains |
| User turns (`sessions/control.py`, `core/system.py`, `core/gateway.py`, `ui/console.py`) | queue, current item, inbox of supplements, two generations, pause in memory and in the journal, locks, the console's gate, open questions | submit, supply, take, checkpoint, final answer, stop, pause, resume, clear, load, ask, answer | journal, model, child Agents | overlapping control commands, each several awaits long; boundary races; an answer that meets a stop | inputs reach the model once and in order, in the conversation they were typed into; nothing cleared revives; no turn beside a cancelled one's children; an answer belongs to its question |
| Session journal (`sessions/journal.py`, `sessions/storage.py`) | file, offset, version, pending batch per loaded instance | append, refresh, recover, retry, compact, load | every component that saves | uncertain writes, torn tails, several processes, perception's thread | committed batches stay, once, in order; a reported save survives |
| Storage reclamation (`sessions/cleanup.py`, `runtime/resources.py`) | journal locks, `.use-*` locks, ages | delete old sessions or caches, retry the write | all sessions of a project | runs inside another session's write; loading races deletion | a session in use, paused or with open work is never deleted |
| Model requests, compression, context (`core/gateway.py`, `core/history.py`, `sessions/context.py`) | message history, checkpoints, what is on record | request, steer, run tools, compress, interrupt, record | model service, journal, tools | a cut through open calls; an interruption or a lost record at each step | calls and results stay paired; nothing said or done is lost; a started tool is on record |
| Memory service, perception (`memory/service.py`, `memory/perception.py`) | cursors, jobs, background drain | seal windows, produce, publish, index, prune | journal, store, child Agents | hand-over between a turn's end and the drain's end; crash between stages | every completed turn is perceived once; evidence stays until then |
| Memory store (`memory/store.py`, `memory/records.py`, `memory/retrieval.py`) | records, revisions, vector index | save, search, reconcile, clear | perception, tools | vectors computed outside the lock; models change | one record per subject; a clear is final; vectors that are trusted are true |
| File access (`runtime/access.py`, `tools/base_tools.py`, `ui/tui.py`) | approvals, pending reviews | plan, authorize, verify, commit, decide | user, disk | the file or the turn changes while the user is asked | what is written is what was approved, and can be undone |
| Commands and processes (`tools/execution.py`) | owned processes, the command lock, browser | run, time out, cancel, release | turns | cancellation and time limits in the middle of a cleanup | no process outlives its owner |
| References (`tools/references.py`) | snapshots by digest, locks, records | register, read, show, record, restore | inputs, memory | concurrent readers, death in the middle | what is recorded can be restored |
| Skills and command checks (`tools/registry.py`) | registry | discover, check | tools | parsing | - |
| Settings (`runtime/config.py`) | three layers, file locks | read, update | all | concurrent updates, edits by hand | an update keeps other changes; a snapshot is of one time |
| Network, logging (`runtime/network.py`, `runtime/logging.py`) | clients, log files | - | model service | library I/O | - |
| Speech models (`TTS/service.py`, `TTS/__init__.py`) | installed versions, leases, engines | download, install, acquire, switch, roll back, clean | other processes | crash at each stage; a lease during cleaning | no half version is used; the one in use is not removed; no circle of locks |
| Speech replies and input (`TTS/tts.py`, `TTS/audio.py`, `TTS/inference.py`, `TTS/native/mambo_worker.cpp`) | text filter and segments, bounded queues, native worker's pipe, microphone stream | feed, segment, synthesise, play, record, cancel | turns, devices | back-pressure, cancellation, threads and callbacks | what is said is what was written; nothing plays after a stop; a recording is heard whole and ends |
| Desktop pet (`pets/`) | request revision, process, reply channel | start, stop, reload, publish, close | child process | overlapping requests, exits, full pipe | the last request decides; the bubble shows the last reply |
| Channels (`api/`) | session per chat, questions in flight | admit, ask, answer, reset, load | turns, transports | preparation at different speeds | order kept, nothing after a reset |
| Terminal interface (`ui/`) | widgets | render, parse commands | turns | rendering | - |
| Prompts (`prompts/`) | texts | assemble | - | - | - |

Sequence of one input: `process_line` -> gate -> queue -> `SessionController.start` ->
`_run_user_turn` -> `AgentRunner.run`: [boundary: take supplements -> checkpoint in the journal
-> model -> tools] until a final answer -> checkpoint -> next input. A tool of the Coordinator may
be `execute_plan`, which holds the planning lock and runs Worker batches through the
factory; each step of a batch is saved through the same journal. The deltas of an answer go through the
text filter to the voice and to the pet; completed turns become windows of the memory.

## 2. Modules

| Module | Models | Run |
|---|---|---|
| `TaskPlan` | plan, batches, persistence and recovery | `turn_work`, `tasks_turns` |
| `ModelRequests` | requests, tools' calls, compression, interruption, recording | `turn_work` |
| `ToolProcesses` | commands, scripts, their process trees, the browser | `turn_work` |
| `References` | snapshots, readers, recorded links | `turn_work` |
| `Settings` | layers, updates, snapshots | `turn_work` |
| `SubagentPool` | factory, handles and threads of child Agents | `pool`, `endings` |
| `InputGate` | lines typed beside `/clear`, `/load`, `/cd` and `/stop` | `pool` |
| `TurnControl` | turns of one session and the commands that control them | `turns`, `turns_lost`, `turns_again` |
| `Questions` | questions to the user within a turn, and what answers them | `turns` |
| `DurableLog` | what a journal promises (abstract) | `journal_writers` |
| `SessionJournal` | the journal file, its instances, the owner's write loop; implements `DurableLog` | `journal_writers` |
| `MemoryWindows` | sealing, jobs, drain and its hand-over, publication, pruning | `memory` |
| `MemoryStore` | records, the vector index, clearing, several processes | `memory`, `memory_rebound` |
| `SpeechModels` | versions on disk, leases, engines, switches | `speech` |
| `SpeechReplies` | the queue of spoken replies and their threads | `speech` |
| `SpokenText` | control markers and segments of a streamed text | `speech` |
| `VoiceInput` | choice of a microphone, one recording, the player beside it | `speech`, `endings` |
| `NativeVoice` | the synthesiser's worker process and its pipe | `endings` |
| `PetProcess`, `PetReplies` | the pet's process by revision; what its bubble shows | `services` |
| `ChannelTurns` | messages of one chat through resets, pauses and loads | `services` |
| `SessionCleanup` | deletion of old sessions under locks | `services` |
| `FileReview` | changes of files, their approval and review | `services` |
| `CoordinatorProofs`, `TurnControlProofs`, `SubagentPoolProofs`, `SessionJournalProofs`, `MemoryProofs`, `SpeechModelsProofs`, `ServicesProofs`, `TurnWorkProofs` | theorems (section 4) | - |
| `MC*` | instances for TLC; where components share no state one run checks several, each behaviour belonging to one of them (`part`) | - |

### TaskPlan

`plan` and `disk` are two copies of every task: `TaskManager.tasks` and the journal's
`metadata["tasks"]`. A save takes a snapshot under the save lock (`snap`) and writes it
later, so the copies differ while it is under way. `job` is the program counter of each child of
the `asyncio.TaskGroup`: `created -> startWait -> startSave -> running -> finWait -> finSave ->
done`; `fate` is what the child does when its outcome is saved (return, raise, end
cancelled, end with another error), because one that raises aborts the group. A Worker that cannot be set up after its dispatch
was saved (`SetupFails`) raises without an outcome. `phase` is the program counter of
whoever holds the planning lock. User turns appear only as far as the plan sees them:
`inputs` grows by admitted inputs, a pause saves them (`saved`), a resume or a load
brings them back. A stop cancels every child at its await: a write that has started is
finished by `finish_io`, one that waits for the lock is dropped (`SaveLost`). `Crash` keeps
the disk, with or without the write in progress; `Load` is `TaskManager.restore`.
Dependency checks use the definition of acyclicity instead of `graphlib`'s algorithm. The
Worker's conversation, retries and texts are abstracted to "it runs, then has an outcome".
`told`, `unset` and `stale` are history: what a Worker was told, which tasks' Workers could not be set up, and that a load brought back the pause of an earlier turn;
`ResumedInputsAreTheNew` says what holds without the two divergences of section 6.

### ModelRequests

A message is the set of what it tells (`says`): inputs, calls, results or the contents of a summary. The
histories in memory and on disk are followed separately. One request goes through building, sending,
an answer with calls, their execution one by one, and recording; it may be cut by a stop, a rejection or a
death at each step. Compression keeps a head and a tail and replaces the middle by a
summary of what it was given to read. Token counts are a choice whether a request is too long.

### ToolProcesses, References, Settings

`ToolProcesses`: a call takes the command lock (scripts do not), is approved for a turn, creates its process in one
step, and ends by itself, by its time limit or by a cancellation, whose cleanup is several steps. A process may
start others that leave its tree, hold none of the call's pipes, or both; `communicate()` returns when the root has exited and nobody
holds the pipes, whoever else is alive. What a call owns (`Owned`) is who holds its pipes, and its tree once that was killed. The browser is a set of parts (page, driver) that an action starts and a
close ends. `References`: a digest is the content itself; a directory per digest with a source, page images
and lock files; readers and recorders hold the locks the code takes. `Settings`: a value is the number of
the change that made it, a blank one is looked for in the next layer; an update reads, waits for the locks, compares and writes.

### SubagentPool and InputGate

The owner's event loop and each child's thread interleave freely, but two coroutines of one
loop do not: `Busy` keeps the steps of `cancel` together. `adm` is where `_dispatch` is,
`thr` where the thread's `_run` is, `fut` the future both may resolve, `call` where the caller of
`run` is. The semaphore is asyncio's: first come, first served, a freed place handed to the
first waiter. It is dropped when a session has no handle left, and made anew: why
`AtMostLimit` is not obvious. The child's own code is one step that ends by itself or by a
delivered cancellation.

`InputGate` follows each line from admission through the resolving of its references and its
preparation to its run, beside commands that shut the gate, cancel preparations, discard or restore a conversation and open
the gate again, possibly after failing. What overlapping or failing commands do to it is excused where section 6 says so (`upset`).

### TurnControl and Questions

A step goes from one await to the next. `item` is `TurnQueue.current`, `at` the place of its
turn; `op` is the place of each of the three callers of `cancel_current_turn`; `lock` the holder of
the console's admission lock. `paused` is `SessionController.paused` and `saved` the journal's
`paused_turn`: most of the difficulty is that they differ. `gen` and `tgen` are the two
generation counters by which code that waited finds out that it is late. Histories
(`order`, `born`, `seen`, `lost`, `stopped`) exist only for the properties.

Abstractions: journal writes do not fail here (they do in `SessionJournal`) but can be cut by a
crash; the winding down of a cancelled task is one step (`TurnCancelled`) with every outcome its
cleanup can have; child Agents may linger after it because the SDK does not wait for cancelled
tool calls (`KidsEnd`); an asyncio lock that has been handed to a waiter counts as held.
The model's answer is a choice between a tool call, a final answer, an error and a broken
connection. `Questions` looks into the tool calls of one turn: the Coordinator and a child may ask, on the
terminal (one question at a time under a lock) or on a channel (the next message answers).

### SessionJournal and DurableLog

Everything an instance does from its refresh to its end happens under the file lock, so it is
one step; the owner's `retry_pending` and the operation after it are two, and perception's
direct save (`Background`) may come between them. `file` is what processes see, `disk`
what survives a loss of power: a write that was not flushed is in the first only. A failed
write leaves the file as it was, torn, or complete. A file is abstracted to the batches it tells
of (`log`), the number of transactions that hold them (`count`, which compaction sets to one), the
last one's name, and whether a torn write follows. `prior` remembers what each batch was
prepared against. Assumptions about the file system: replacing a file is atomic and durable after
the flush of the new one, and an append does not damage earlier blocks. What a
batch contains is abstracted; `SaveKnown` is `_append` finding nothing new after the retry saved it. Every instance
compacts; `passed` remembers the batches that were uncertain when another instance did.

`DurableLog` is the promise: a log that only grows, holds each batch once but for those excused, and holds every
reported batch. `JournalIsLog` is the refinement, with `log <- disk.log` and `excused <- passed`, together with `BasedOnLatest`.

### MemoryWindows and MemoryStore

`MemoryWindows`: the owner seals windows of `Size` turns that repeat `Overlap` of them; a drain, which a
rebind may leave behind for a second one, takes a job under the lock through producing, publishing to the table and to MEMORY.md,
checkpointing and pruning; each of these is a step, and a death may fall between any two. What perception says
to its model is one choice. `MemoryStore`: `rows` are the records of one subject, `vec` the tables of vectors per
model, `mark` the text and model a record was indexed under; jobs search, draft and apply, an indexer
reads, embeds outside the lock and writes under it, a clear discards, a recall rebinds the index object at any time. Histories say what
went amiss: turns that ended while a drain was about to move its cursor (`slipped`), a death with two windows beyond it (`strayed`), an index
rebound under a write (`rebound`) and the vectors such a write left (`mixed`).

### Speech, pet, channels, cleanup, files

`SpeechModels` has a program counter per operation and the locks of engines, downloads, updates and installed.json as
variables; a gate held within one step is none. To find a version whole (`Check`) and to make it active once installed.json is free
(`Choose`) are two steps; `overtaken` is the history of a clean in between. `SpeechReplies` chains replies by predecessor; each has
a thread with a queue of `QueueSize`. `SpokenText` is an exact model of the two text machines over tokens; the Markdown
parser between them is left out, so texts have none, and comments longer than `MAX_PENDING` are excluded (`Loose`).
`VoiceInput` has the library's lock, the callback and the player; `NativeVoice` the worker's request and
response frames with their sequence numbers. `PetProcess` gives each request a revision and follows the guard of each
child; `PetReplies` the messages that fit into the pipe, snapshots that replace what did not, and bubbles the user closes.
`ChannelTurns` gives each reset a new session of the chat. `SessionCleanup` has a journal lock per session and a use lock per
session and process. `FileReview` follows a call from plan over question and check to commit, and the review entry with its
versions; other programs write at any time except between the check and the replacement under the lock.

## 3. Runs

All configurations set `CHECK_DEADLOCK FALSE`: the bounds on turns, inputs, pauses, crashes
and faults let each system come to rest when the users have done all they may, and a
waiting process with no user is a legitimate end. Liveness properties, and `SomeOperationGoesOn`, `NobodyStuck` (in
`AnswersReachTheirQuestion`) and `NobodyWaits` (in `PiecesAreOfTheirSegments`), say by `ENABLED` what must not rest.

| Run | Instance | Shows |
|---|---|---|
| `turn_work` | plan: two siblings and a task that depends on both, a cyclic redefinition, unknown names; one turn, input and crash, no failing setup after it. Requests: three inputs, two tools (symmetric), one cut, two compressions, head and tail of one turn. Tools: three calls, two of them at a time, two processes alive at a time, one change of turn, two cancellations, one mishap, of which two meet, two browser actions. References: two jobs, two media types, one change of the file, three uses, one stop. Settings: two writers with three updates, or a writer with two beside a reader; two fields, one change by hand | `TypeOK`, `DependenciesDurable`, `NoOrphanRunning`, `NoSilentRerun`; `RequestsAreWhole`; `ToolsOwnTheirProcesses`; `ReferencesAreKept`; `SettingsAreKept` |
| `tasks_turns` | two tasks in a chain; two turns; three inputs, or two and a crash, no failing setup after it; fair | `ResumedInputsAreTheNew` across pause, resume and new turns; `ExecutionEnds` |
| `pool` | three children, one place, symmetric, callers of two cancelled up to twice. Gate: three lines and commands, at most two of each, one stop | `CancelReachesChild`, `EndedChildIsStill` (with `AtMostLimit`); `InputsStayInTheirConversation` |
| `endings` | two children; a recording of one block beside a play, one trouble; a native stream of one segment and one of two, queue and pipe of one, one mishap; fair | `PoolSettles`, `RecordingsEnd`, `PiecesAreOfTheirSegments` |
| `turns` | three sets of bounds: two requests and two supplements with a pause; two requests and a supplement with a pause, stop and clear; three requests with two pauses and a crash. Questions: two calls, one of a child, two messages, one control. Fair | `InputsReachTheModelOnce`, `NoTurnBesideChildren`, `InOrder`, `AnswersReachTheirQuestion`, `QueueFollowsTheUser`, `QueueMoves` |
| `journal_writers` | two processes, three batches, two failing writes of one of them, one crash or loss of power, one compaction by either; fair | `JournalIsLog`, `HeldSavesProceed` |
| `memory` | four turns, windows of two that repeat one, one trouble; two processes with two jobs, a clear, two models, recalls at any time, a failure; fair | `EvidenceKept`, `SealedIsIndexed`; `TrustedVectorsAreCurrent`, `OneRecordPerSubject`, `ClearedStaysForgotten` |
| `speech` | models: three versions, two processes; three operations with a fault or a damaged file, or two with both. Replies: two, of two deltas, one stop, one failure. Voice: three lists of devices, one reset, one recording of two blocks, one trouble. Text: 111 texts of at most 24 tokens, cut into deltas in every way, two switches of the voice | `VoiceStays`, `SomeOperationGoesOn`, `HeardUntilStopped`, `RepliesEnd`, `MicrophoneIsHeard`, `SpokenAsWritten` |
| `services` | pet: three requests, two characters, two breaks. Replies: two of up to three pieces, two kept, two children, one upset. Channel: three messages and a reset or two of each, one hold. Cleanup: two sessions, two processes, three writes, one death. Files: one below WorkDatabase with two parts and two values, or one outside with two calls in two turns; one edit by another program | `SettledAsAsked`, `PetTellsReplies`, `ChatKeepsItsMessages`, `UsedSessionStays`, `ReviewIsFaithful` |
| `turns_lost`, `turns_again`, `memory_rebound` | as small as the violation needs | the divergences of section 6 |

Why the bounds are enough. Children, handles and requests are interchangeable apart from
their order, and every guard in the code speaks of at most two of them (the holder and the next,
the one that raised and the rest), so two or three reach all combinations of places; three
are used where a third party matters (a newcomer at the semaphore, a queue saved with a pause
while one is current). Two pauses, two failures and one crash reach every pair of nested
recoveries the code tells apart: a resumed turn that is paused again, a retry that fails, a
restart in the middle of either. A buffer of one is full and empty with two blocks. Larger instances were passed
once apart from the runs: two controls and three messages of `Questions`, two native streams of two segments of two frames, texts of three
fragments, two lines beside two commands of `InputGate`, three compressions, three messages beside two resets of a channel, a fault
beside a damaged file and three operations. Symmetry is used only where the values are interchangeable and no liveness is checked.

Fairness. `TaskPlan`: saves, batch loop and Workers make progress; Workers because usage
limits end them, saves because the asyncio lock is first come, first served (strong
fairness for a child that competes for it). `SubagentPool`: threads are scheduled; owner callbacks are
only delayed by others (strong). `TurnControl`: the event loop runs every runnable task;
preparations of references and children end; the model, asked again and again, at some time
gives a final answer (strong fairness of `FinalAnswer`; `request_limit` guarantees it when
configured). `SessionJournal`: threads finish, and a user who was told that saving failed sends
another input. `MemoryWindows`: the owner's seal and the drains' steps go on, and a drain gets the lock it competes for. `RepliesFairness`,
`VoiceFairness`: loops and threads go on, and a play that was cancelled ends. `PetReplies` needs none: it says what is shown when
everything rests. Users' inputs, stops, pauses, crashes and faults are never assumed.


## 4. Proofs

Every theorem is about the specification of its module, for all values of its constants and
without a bound on states; what it rests on besides the constants' ASSUME is said. The conjuncts of each
inductive invariant were invariants of TLC runs before they were proved.

**`CoordinatorProofs`**, part A (`TaskPlan`), for every set of tasks and definitions and any number of turns, inputs and crashes:
`TypeCorrect`, `DependenciesDurableCorrect`, `NoOrphanRunningCorrect` and the action property
`NoSilentRerunCorrect`. `DependenciesDurable` is about the disk when a Worker runs, but
what is on disk is a snapshot taken earlier, and before that the plan made the task ready. `Inv`
follows a dispatch along that way: `DispatchedIsReady` (a task whose child exists is ready and
stays so), `SnapshotShowsDispatches` (a snapshot taken under the lock shows the dispatch it was
taken for and every Worker that runs), `OneWriter` (so the snapshot that lands is that one),
`RunningHasChild` (but for tasks whose Worker could not be set up, `unset`, which `NoOrphanRunning` excuses and nothing else), and `QueuedNeverRan`, which says of plan, disk and the snapshot in flight
that nothing queued in them has run: a crash may load any of the three. `AbortingStartsNothing`,
`NoChildrenOutside` and `DownIsIdle` close the cases of a stop and a crash.

`ResumedInputsAreTheNewCorrect` needs a second invariant, `InputInv`. `HandedInOrder` says of each copy of a task, in memory,
in the snapshot being written and in the journal, that what it was handed is in the order of admission and older than what it
would be handed next; a crash may load any of the three. So that a load does not hand it out again, the pause on record must be the beginning of the turn's
inputs (`PauseIsBeginning`); the proof of `Load` failed where that pause belongs to an earlier turn, which TLC then reached (section 6),
and the theorem is stated without it (`stale`). `BoundaryIsTold`, without crashes: the inputs up to a task's
cursor were told to it, whichever turn set the cursor. `PlanStepKeeps` reduces the actions to what they do to the copies.

Part B (`ModelRequests`), for anything the user says, any tools, head and tail of a compression, cuts, deaths and compressions:
`RequestsAreWholeCorrect`. `RequestInv`: the messages kept, on disk, of the turn and of a candidate of `/compress` are well kept
(`WellKept`: each answer stands behind its call and is the only one, each call is made once), and the next request can follow the
history of its turn (`Follows`, `RunKept`); what is still open is what the request answers, what the tools at work will answer, or given
up (`CallsClosed`); disk, history and candidate each tell all that is kept but what was given up or passed over (`KeptIsTold`), so it does
not matter which of them a cut, a death or a stop leaves; and all that was said and done is kept, in the request, or waits (`AllIsTold`). The
lemmas say what each operator on messages does to this, last `CompressionKept`: `BoundsClosed` finds the calls answered at both ends of what a
compression takes out (or nothing behind its end), and `CutOut` shows that then no answer loses its call. `Sorted` and `Nth` of
the module stand for the order of `starts` because the library's `SortSeq` has no definition the provers can use.

**`TurnControlProofs`**, for every set of requests and supplements and any number of pauses, stops, clears and
crashes: `NoTurnBesideChildrenCorrect`, `InOrderCorrect` and the action property `QueueFollowsTheUserCorrect`.
`TurnInv` says: the cancel lock has one holder, who has it while children wind down, and while it is taken
a turn is only there to be cancelled (`LockKept`); while the conversation is being replaced, the queue and the pause
are empty, and the item and the resume in progress carry an earlier generation (`NothingOfTheOld`); who completes a pause or a resume
finds the pause he began with, or finds himself late, and the queue is closed while it rests (`PauseHeld`); the queue, the current item, the
pause in memory and the one in the journal are each in the order of submission, and the queue is behind
item and pause (`Ordered`). The last is needed of the journal too, because a restart fills the queue from it. `StepCases`
first reduces the 40 actions to what they do to these variables. `QueueFollowsTheUser` needs that
everything queued or paused was given in this generation (`OfThisConversation`) and that the queue has what a pause saved
(`QueueHoldsSaved`). Its hypothesis `ClearsComplete` (the process does not die during `/clear`) is needed: until the
new conversation exists, the journal of the old one still holds its pause, and a restart offers it again,
as it should for a conversation whose replacement never happened. The run `turns` has no crash beside a clear.

**`SubagentPoolProofs`**, part A (`SubagentPool`), for any children, sessions, places and cancellations: `PoolTypeCorrect`,
`CancelReachesChildCorrect`, `EndedChildIsStillCorrect`. `Places`: a session's free places and holders add up to `Limit`, a fact
about cardinalities that makes `AtMostLimit` follow although the semaphore is dropped and made anew. `Queues`: its waiters are a sequence
without repetition and are exactly the children that wait. `Phases` and `Callers` say which combinations of admission, thread,
future and caller occur; `Reached`: a flagged child whose thread runs user code has the cancellation on its way.

Part B (`InputGate`), for any number of lines, commands and stops: `GateTypeCorrect` and `InputsStayInTheirConversationCorrect`.
The gate is a counter that nested commands raise and lower by different amounts; `GateCounts` says that it is the number of shares the
commands hold (a cardinality), so it is open if and only if none is at work. `LinesKnowTheGate`: a line that still has the gate's count was
typed into this conversation and saw at most the list of a `/load`; `AcceptedAreOfNow`: so was a line of this generation, and there is none
between a discarding and the next conversation. Order is about places: lines that have begun, are prepared, wait, are resolved, wait for
the lock and are to come precede each other (`LinesInOrder`), and a line only moves to the next place when nobody is there
before it (`OneAtATime`). Whatever a line's checks may find amiss has a reason already (`AsideForAReason`). `NonePastTheGate` and
`OneCommand` let `FirstIsFresh` say when `is_first_input` and the missing title agree: not while `/cd` lets the user choose, and after
`/load` only because what it installs has a title, which the step of `Released` needs.

**`ServicesProofs`**, part A (`SessionCleanup`), for any sessions and processes: `CleanupTypeCorrect`, `UsedSessionStaysCorrect`. A journal lock
says what its holder does with the session (`LockMeansWork`), a use lock that the session is there
(`UseMeansThere`), who is about to write holds the lock and has not lost it (`OwnIsKnown`), and a deleted session
is in nobody's hands (`DeletedIsGone`).

**`MemoryProofs`**, part A (`MemoryStore`), for any processes and bounds: `StoreTypeCorrect`, `OneRecordPerSubjectCorrect`,
`ClearedStaysForgottenCorrect` and `TrustedVectorsCorrect`. `PublishInv`: what each process holds of the two locks
(`LocksOK`), what its job has seen (`JobOK`) and what of it is still true because the lock was kept
(`StillTrue`, `ClearsAll`). `IndexInv` adds that a mark that matches its record's text and a vector under it speak of the same
text, unless the vector is `mixed`: `BoundOrNoted` says that an index about to be written is bound to the model of its vectors, or that the history
knows of the recall that rebound it (`rebound`), and `MixedFacts` that a later sound write takes its vectors out of `mixed` again.
Recalls come at any time; `memory_rebound` shows what the excuse is for.

Part B (`MemoryWindows`), for any window size, overlap, number of turns and number of troubles:
`EvidenceUntilPublishedCorrect` (the first two parts of `EvidenceKept`, whatever dies) and `EvidenceKeptCorrect` (all of it). `WindowsInv`:
a drain that works holds processing.lock, and its place tells the stage of its job and what of it is stored and
projected (`StageAt`, `OnJobOK`); a sealed window has one job, and a finished one is covered, stored and projected (`SealedOK`); neither
cursor passes a turn that is not covered (`CursorsOK`), for which a drain that is about to move one has to know of every such turn but one
that ended after it looked, and the overlap keeps that one's evidence. With `Overlap = 0` nothing does, and exactly those turns
(`slipped`) are excused (section 6). The same
invariant with `once` set adds that no turn is in two windows: at most one job lies beyond the reserved cursor outside of a reservation, it took
every turn from there on (`BeyondOK`), and what the owner read before it seals leaves such a job's turns out altogether or
holds them all (`OwnerOK`); so what it seals next is new or the very window that is there. It holds until a death
leaves two jobs beyond the cursor, or one with an unprotected turn (`OneBeyond`); from then on the history `strayed` is set, the third part of
`EvidenceKept` says nothing, and the first two are still proved (`KeptInv` carries both forms of the invariant). That takes two deaths, or no
overlap and a slip before one, so in the run `memory`, which has one, the third part holds throughout. The two forms were
TLC-checked with two troubles and with overlaps of none and one before they were proved.

**`SpeechModelsProofs`**, for any processes, tasks, versions and bounds: `ModelsTypeCorrect` and `VoiceStaysCorrect`. Who
works on an engine holds its lock, and what is loaded is leased and whole (`EngineInv`); what a clean has read of installed.json stays
so until it writes it back, and its list never has the active version (`CleanInv`); what a switch took away is
still whole and its record will outlast a clean under way (`SwitchInv`); the active version is on disk and recorded, or is the one
that a clean took between the check and the write (`overtaken`, section 6); and, while nothing failed, every version that is on
disk and listed has such a record or is being installed by the holder of its download lock (`QuietInv`). The proof
corrected two properties that held only within the bounds of the run: a version whose record a clean drops may become active
before its installation has recorded it again, and a failed switch cannot give back a version that was loaded in that state (section 6).

**`SessionJournalProofs`**, for any instances, batches, failures, crashes and compactions: `JournalTypeCorrect`,
`BasedOnLatestCorrect` and the refinement `JournalIsLogCorrect` (every step of the journal is a step of
`DurableLog` or a stutter). `JournalInv`: what is on disk is a prefix of what processes see, each batch is there once but for those in `passed`, and
what was reported is on disk (`LogsAgree`); an instance that is not stale knows the file (`ViewsAreFresh`); a batch is in
one instance's hands (`OneOwner`); an uncertain batch with the next number was prepared against this very log and is not in it
(`Uncertain`); what an owner is about to report is on disk or still uncertain (`TargetIsSafe`). That rests on the number of transactions growing, and
compaction by any instance sets it back: a batch that another instance holds uncertain then finds its number again (section 6). The history
`passed` takes exactly these batches, when the compaction happens, and the theorems excuse them and no others. What is proved beside a
compaction is that the damage stays with them: every other batch is there once, follows what it was prepared against, and none that was
reported is lost, be it in `passed` or not.

**`ServicesProofs`**, part B (`FileReview`), for any files, texts, calls and turns: `FileTypesCorrect` and `ReviewIsFaithfulCorrect`. The lemmas
say what the model's operators on texts do: hunks cover the parts that differ and share none (`HunksAre`), one of them can be moved beside
the others (`ReconstructOne`), and an entry stands for two contents of its file, what the decisions so far left and
what a rejection of the rest restores (`Side`, `ExpectedIs`, `RejectedIs`). `FilesInv`: the first is on disk, unless a foreign text is, the
second is what the user agreed to, and a view that shows an entry's id shows its two sides (`ViewOK`), so a decision
is on the version shown. `CallsInv`: a fingerprint that a call still finds stands for the text it has read, and a call that was let through
in this turn has the user's yes (`CallOK`). It needs that a change gives the file a fingerprint no call under way holds (`PutIs`).
Part C (`ChannelTurns`), for any number of messages, resets and pauses: `ChatTypeCorrect` and `ChatKeepsItsMessagesCorrect`. Order and
loss are about one queue, so `ChatInv` says first that there is one: sessions to come are new and former ones have no queue (`OthersAreEmpty`),
only the one being closed may still work, and until it has stopped the chat's rests (`OneCloses`). A pause holds the queue and is on
record once (`PauseIsOnRecord`); a turn's message is on record if and only if the turn was resumed (`TurnIsOnRecord`), which is why a
message answered is never paused on record again (`NoneIsSettled`) and what is queued is later than what was taken (`QueueIsNew`). A message
that is not settled has its delivery (`AllAreAccounted`), so a turn without one has lost nothing. All of it holds up to the first
reset or `/load` during a close; the attempt to prove more showed that two of the property's parts do not (section 6), and the property now says so.

**`TurnWorkProofs`**, for any uses, writers, readers, calls and bounds: `ReferencesAreKeptCorrect`, `SettingsAreKeptCorrect` and
`ToolsOwnTheirProcessesCorrect`. `RefInv`: what is on file of a digest is of its bytes and only grows, but for images that are
written again (`BlobOK`); a use that builds has the lock of its digest, and one that shows or records parts finds them and
their manifest (`UseOK`). `SetInv`: a value is the number of the change that made it, so what an update sets is unlike
anything it has read, and `_persist_changes`, which knows its own fields only by comparing, finds exactly them (`FieldOK`,
`WriterOK`); what a reader has found of each layer was there at the same time, unless he is excused (`ReaderOK`). It says nothing of
writers and readers who were under way when the user added the project's file, as the property does (`locks`, section 6).
`ToolInv`: a call's place tells which processes and scope it has, whether its tree was killed and whether it holds its lock (`CallOK`); who is
in a killed tree cannot come back, because nobody outside of it starts one who is in it; a use of the browser's likewise (`BrowserOK`). Each needs that its value for "nobody" is not a member of its set, which the ASSUMEs say.

Model-checked only:
* liveness and what is said with `ENABLED`, which the prover does not have: `ExecutionEnds`, `PoolSettles`,
  `RecordingsEnd`, `QueueMoves`, `HeldSavesProceed`, `SealedIsIndexed`, `RepliesEnd`, `SomeOperationGoesOn`, `NobodyStuck`, `NobodyWaits`;
* what speaks of `SelectSeq`, a recursive operator of the library about which nothing can be
  proved by induction: `InputsReachTheModelOnce` and the supplements' part of `TurnControl`'s `TypeOK`; and the
  recursive text machines of `SpokenText`;
* `QueueFollowsTheUser` without `ClearsComplete` is not proved either: it is false;
* all of the other modules of section 2.

## 5. Not modelled, and the plan

Next, in order of importance:

1. Proofs about the parts of `AnswersReachTheirQuestion` and `PiecesAreOfTheirSegments` that do not speak of `ENABLED`.
2. Turn counting (`_completion_projection`) and the content of a transaction, as operators against a reference definition.
3. The goal loop and the voice queue of `core/gateway.py`.

Left out for good: parsing, formatting, rendering, network and device I/O, numeric work
(ranking, embedding, audio, counting tokens), prompt texts, bundled skills, conversion of documents, Markdown. What is abstracted within a
modelled component is said in section 2 and at the head of each module. In particular: `FileReview` takes the check
of a version and the replacement of the file as one step against other programs; `ToolProcesses` takes the creation of a
process as one step, and scripts differ from commands by the lock only; `NativeVoice` drops a load whose caller was stopped in the step that ends it; `PetReplies` leaves out overlapping off and on
requests that keep the child (a clear or an end published while "stopping" is dropped, `pets/service.py:146`).

## 6. Divergences between the code and what it says

Kept as runs that must fail:

* `turns_lost`: after `/stop` the consumer takes the next request while `cancel_current_turn` still
  holds its lock for the children; the request is refused and dropped (`docs/design.md:88`).
* `turns_again`: a pause while a resumed request is being prepared saves no turn identity; the next
  resume sends the whole request again (`docs/design.md:95`).
* `memory_rebound`: a recall between `write_records`' check of the embedding model and its write rebinds the shared index
  object; vectors of the old model go into the new one's table and count as its own (`memory/store.py:299`).

Found with the same modules, each by a small change of a configuration, or excused in a property by the name given:

Turns and questions
* `HandedOverOnce` with one pause and one crash: a crash in a resumed turn whose first pause came before the turn
  began loads the old pause, and its prompt goes out again.
* `NoSupplementForgotten` with two pauses: a second pause before the resumed request went out drops
  the supplements the first one kept (`sessions/control.py:269`); a turn that is paused and then stopped loses its own.
* `PauseIsSaved`: a stop during a transport pause leaves a pause in memory that never reached the journal.
* `StopIsFinal`: ending a resumed turn clears `paused_turn` only if the generation is unchanged
  (`sessions/control.py:302`, `docs/design.md:88`); after a restart a stopped turn comes back as paused.
* An answer taken but not yet recorded when a pause comes is lost: neither supplement nor on record (`docs/design.md:93`;
  excused in `InVain`). On a channel a question is open before it was sent, so an earlier message answers it; in the terminal
  a child's question that waited for the lock is shown after `/stop`, and a line typed to it expires.
* `InputGate` (`upset`): an input being resolved beside a pause is lost by `/stop` and by a failed switch
  (`docs/design.md:88`), and the queue by a failed switch although the user is told the session was kept (`ui/console.py:264`);
  two overlapping commands, or a `/cd` that fails after its reset (`ui/console.py:134`), leave `is_first_input` wrong, so that
  the first input of a fresh conversation runs without `bind_session` and without a title.

Plan and journal
* `ReportedResultsSaved` (`TaskPlan`, a chain of two tasks): a result whose save was dropped by a stop
  is reported later as completed while the journal has the task running.
* `ResumedInputsAreTheNew` with one crash: the input list loaded after a crash in a resumed turn is shorter than a
  task's `input_cursor`, and `resume_task` passes over the user's new input. With two turns, three inputs and a crash: a resumed turn
  that is stopped leaves its pause on record (as in `StopIsFinal`); the process dies in a later turn, the load brings the earlier one
  back, and a task resumed in it is handed inputs that it had (`core/tasks.py:182`; `stale`).
* `BasedOnLatest` beside a compaction by another process (`passed`): `retry_pending` takes the transaction number as proof that
  nobody wrote in between (`sessions/journal.py:349`), and a compaction sets it back. A batch that was uncertain at that moment and is in
  the file is applied again, or one is written behind commits it was not prepared against.
* `NoOrphanRunning` (`unset`): `_execute_task` re-raises an error that is no broken transport without `finish`
  (`tools/worker_tools.py:284-287`). One that comes after `start` and before `_execute`'s own `try`, as when no model is configured for
  the role (line 143), leaves the task "in_progress" in memory and journal after the tool has ended: it is neither ready nor blocked, and
  `resume_task` (`core/tasks.py:178`, `docs/design.md:129`) refuses it, until a restart makes it unverified or another plan replaces it.
* `HeldSavesProceed` without its `Conflict` clause: a batch that landed although its write failed, followed by
  another process's commit, is never recognised; every later save of that instance is refused.

Requests and tools
* `messages_safe_for_new_prompt` (`sessions/context.py:109`), after a failed recording of an interruption, cuts back to
  a prompt that shares its message with tool results: an earlier call stays unanswered, executed calls are dropped (`given`).
* `prepare_compression` (`core/history.py:206`): only the newest summary is passed on and every message
  with a summary is left out of the transcript, so facts of another summary or of a merged message are lost (`docs/design.md:451`; `given`).
* `communicate()` (`tools/execution.py:715`) returns when the root has exited and nobody holds the pipes: a descendant with redirected
  output outlives a normal result, and the next command runs beside it. `docs/design.md:165` promises to reclaim only what is the call's own and
  none that detached; `ToolsOwnTheirProcesses` says what is left of "one command at a time" (`Owned`).
* One cancellation during the cleanup after a time limit on Windows escapes it, and the process may keep running, unreported
  (`cut`); the error of an unverified cleanup replaces the cancellation, and `run_command` returns it as text.
* A cancelled start of playwright may leave the driver; a failed stop keeps `_page`, so later actions use a dead page (`wrong`).
* `reference_message_data` of unregistered bytes globs `source.*`, which matches its own lock file: the record links the lock
  and a restore fails its checksum (`tools/references.py:488`, `docs/design.md:378`). The same bytes read as a second media type
  render the page images in place beside readers (`overlaid`).
* `update_config` reads the lower layers at two times: an edit of `.env` between them is written as an old value into the JSON
  and shadows `.env` (`docs/design.md:435`; `fields`). `_config_locks` computes the paths before locking: a project file added
  meanwhile lets two writers hold different locks (`locks`). Without a project JSON a setting that `.env` defines cannot be changed by commands.

Memory
* `UnperceivedKeepsEvidence` with `Overlap = 0`, `Size = 2`, three turns (`slipped`): a turn that ends while a drain is about to move the cursor
  loses its evidence (`memory/records.py:413` accepts no overlap), against the docstring at `memory/service.py:533`. If a death follows before its
  window is reserved, it is perceived twice as well.
* `TurnsPerceivedOnce` with two troubles and five turns: two deaths, each between saving a job and reserving its turns
  (`memory/service.py:438-442`), leave two jobs beyond the cursor. `ObservationStore.window` reads the turns first and the pending jobs after
  them (`memory/records.py:420-424`); a drain that indexes the second job in between makes its turns look new, and they
  are sealed and perceived again under another id (against `docs/design.md:468`; `strayed`).

Speech
* `SwitchRestores`: `_switch`'s except clause (`TTS/service.py:480`) does not restore the former engine when the
  candidate was active already (`docs/design.md:243`). `ActiveOnDisk` fails when damaged or recorded files are replaced beside a
  clean (`docs/design.md:245`). A rollback takes no update lock, so a clean may remove its candidate; an installation that then brings
  the files back does so without the lock of installed.json (`TTS/service.py:359`), and the candidate becomes active with
  no record until that installation commits (`BeingRecorded` in `ActiveStaysOnDisk`); should it fail, the record stays missing.
* `ActiveStaysOnDisk` (`overtaken`): a preparation that changes the backend finds a version whole (`TTS/service.py:232`), and waits for
  installed.json only to write it as active (line 237), where it looks at nothing but the active version. A clean that holds that lock may remove the
  version in between, and the active one has neither files nor record until the next preparation installs it.
* `EndsOnlyItself`: cancelling a waiting reply cancels the one it waits for, and one cancelled before its start lets its
  successor start while an earlier one plays, which ends in `SpeechBusy` (`docs/design.md:317`).
* Voice switched off and on between two deltas before a reply began does not mute the text held so far (`core/gateway.py:319`, `docs/design.md:317`).
* After a broken reply of the native worker the model stays loaded without a process, and every later `send` raises
  `AttributeError` until the model is switched; a `send` that fails does not close the worker (`docs/design.md:372`).
* `AudioCapture.stop` during a start would leave `_stopped = False`, and `AudioPlayer.play` checks `_play_task` before an await; the interface avoids both.

Pet and channels
* `_watch` after an exit with code 0 sets "off" while a newer request waits (`pets/service.py:385`), and the following stop
  counts as "same"; a `reload` that is not enabled, superseding a stop not yet begun, sets "off" without stopping (`crossed`).
* A pause loaded by `/load` is lost on `/resume` (`api/base.py:172` fails after `api/__init__.py:188` cleared the deliveries;
  `docs/design.md:93`); `LoadedPauseIsKept` states it and is not checked. Two overlapping resets start the new session
  early (`api/base.py:123`; `overlapped`). A `/load` while the former session is being closed lets the late close open the queue beside
  the pause it brought back: a later pause then replaces that one and its message is forgotten, and a message answered meanwhile
  can be loaded from its stale record and dropped. The proof found these; they need more pauses or resets than the run has.
