---------------------------- MODULE ModelRequests ----------------------------
(***************************************************************************)
(* What the coordinator sends to its model: AgentRunner and RequestPolicy  *)
(* (core/gateway.py), compression of the context (core/history.py), and    *)
(* the context that is saved before each step (run_agent_system,           *)
(* _checkpoint and _compress_context in core/system.py).                   *)
(*                                                                         *)
(* A turn alternates between a request to the model and the tools that its *)
(* response calls.  It can be cut off at any await, the process can die,   *)
(* and the context can be compressed before a request, after a request the *)
(* model finds too long, or by /compress between turns.  When supplements  *)
(* come and how a turn is admitted is TurnControl.                         *)
(***************************************************************************)
EXTENDS Naturals, Sequences, FiniteSets, SequencesExt, FiniteSetsExt

CONSTANTS
  MaxSaid,    \* bound: what the user says, numbered
  Tool,       \* calls of tools, each made at most once
  MaxCuts,    \* bound: interruptions
  MaxShrinks, \* bound: compressions
  HeadTurns,  \* compress_head_turns and ...
  TailTurns   \* ... compress_tail_turns

ASSUME RequestAssumption ==
  /\ MaxSaid \in Nat /\ MaxCuts \in Nat /\ MaxShrinks \in Nat /\ HeadTurns \in Nat /\ TailTurns \in Nat
  /\ Tool \cap Nat = {}

VARIABLES
  kept,      \* ChatHistory.messages
  onDisk,    \* the context on disk
  run,       \* the turn that AgentRunner runs
  waiting,   \* supplements that no request has taken yet
  resumable, \* the turn lost its transport and can be resumed
  squeeze,   \* the compression that /compress asked for
  said,      \* history: what the user said so far
  executed,  \* history: calls whose tools were started
  given,     \* history: what a later request need not tell: given up by a stop or a
             \* rejection, lost with a record, or passed over by a compression
  cuts,      \* interruptions so far
  shrinks    \* compressions so far

requestVars == <<kept, onDisk, run, waiting, resumable, squeeze, said, executed, given, cuts, shrinks>>

Input == 1..MaxSaid
\* The messages are a sequence of their parts.  A part says what the user wrote,
\* which calls it makes or answers, or what a summary tells; "joined" puts it in
\* the message of the part before it; "fresh" marks a response whose tokens were
\* reported after the last compression.
Piece(kind, says) == [kind |-> kind, says |-> says, joined |-> FALSE, fresh |-> kind = "response"]
\* The n-th of a set of numbers, from the smallest on.
Nth(numbers, n) == CHOOSE i \in numbers : Cardinality({j \in numbers : j <= i}) = n
Sorted(numbers) == [n \in 1..Cardinality(numbers) |-> Nth(numbers, n)]
Joined(parts) == [k \in DOMAIN parts |-> [parts[k] EXCEPT !.joined = k > 1]]
Prompts(inputs) ==
  [n \in 1..Cardinality(inputs) |-> Piece("user", {Nth(inputs, n)})]

NoRun == [at |-> "idle", original |-> <<>>, history |-> <<>>, request |-> <<>>, results |-> {},
          retried |-> FALSE, responded |-> FALSE]
NoJob == [at |-> "none", candidate |-> <<>>]

RequestInit ==
  /\ kept = <<>> /\ onDisk = <<>> /\ run = NoRun /\ waiting = {} /\ resumable = FALSE
  /\ squeeze = NoJob /\ said = {} /\ executed = {} /\ given = {}
  /\ cuts = 0 /\ shrinks = 0

-----------------------------------------------------------------------------
(* Operators on messages.                                                  *)

PartsOf(h, kinds) == {k \in DOMAIN h : h[k].kind \in kinds}
CallsIn(h) == UNION {h[k].says : k \in PartsOf(h, {"response"})}
ReturnsIn(h) == UNION {h[k].says : k \in PartsOf(h, {"returns"})}
Tells(h) == UNION {h[k].says : k \in DOMAIN h}

\* UserPromptPart, and where the message of part k begins.
Asks(h) == PartsOf(h, {"user", "command", "summary"})
BegunAt(h, k) == Max({l \in 1..k : ~h[l].joined})

\* pending_tool_calls
OpenCalls(h) == CallsIn(h) \ ReturnsIn(h)

\* messages_safe_for_new_prompt: back to the prompt before the first open call.
Safe(h) ==
  LET calling == {k \in PartsOf(h, {"response"}) : h[k].says \cap OpenCalls(h) # {}}
      prompts == {BegunAt(h, k) : k \in Asks(h) \cap 1..Min(calling)}
      cut     == IF prompts = {} THEN Min(calling) ELSE Max(prompts)
  IN  IF calling = {} THEN h ELSE SubSeq(h, 1, cut - 1)

\* repair_interrupted_tool_calls, and _close_interrupted_calls with its status.
Repaired(h) == IF OpenCalls(h) = {} THEN h ELSE Append(h, Piece("returns", OpenCalls(h)))
Interrupted(h) == Append(Repaired(h), Piece("status", {}))

\* The client joins requests that follow each other before it sends them.
Merged(h) ==
  [k \in DOMAIN h |->
    [h[k] EXCEPT !.joined = @ \/ (k > 1 /\ \A l \in {k - 1, k} : h[l].kind \notin {"response", "status"})]]

-----------------------------------------------------------------------------
(* prepare_compression.                                                    *)

\* Each part of the user is a unit, unless its message has something else.
Units(h) ==
  LET mixed == {BegunAt(h, k) : k \in DOMAIN h \ Asks(h)}
  IN  [k \in DOMAIN h |-> [h[k] EXCEPT !.joined = @ /\ BegunAt(h, k) \in mixed]]

\* Mutant: every end of a message bounds a compression.
BoundariesAnywhere(h) == {k \in 0..Len(h) : k \in 1..(Len(h) - 1) => ~h[k + 1].joined}

\* _closed_boundaries: ends of messages at which no call is open.
Boundaries(h) ==
  {k \in 0..Len(h) : (k \in 1..(Len(h) - 1) => ~h[k + 1].joined) /\ OpenCalls(SubSeq(h, 1, k)) = {}}

\* _compression_bounds: what lies between the first and the last turns.  None is <<>>.
Bounds(h, retain) ==
  LET starts == Sorted({BegunAt(h, k) - 1 : k \in Asks(h)}) \o <<Len(h)>>
      n      == Len(starts)
      head   == IF n = 1 THEN 0 ELSE starts[Min({HeadTurns, n - 1}) + 1]
      tail   == starts[Max({0, n - 1 - TailTurns}) + 1]
      first  == Max({k \in Boundaries(h) : k <= head})
      last   == Min({k \in Boundaries(h) : k >= tail} \cup {Len(h)})
      inner  == Boundaries(h) \ {0, Len(h)}
  IN CASE ~retain -> <<0, Len(h)>>
       [] retain /\ first < last -> <<first, last>>
       [] retain /\ first >= last /\ inner # {} -> <<0, Max(inner)>>
       [] OTHER -> <<>>

\* ChatHistory.compress_summary_state: the first summary of the last message with one.
Earlier(h) ==
  LET summaries == PartsOf(h, {"summary"})
      newest    == {k \in summaries : BegunAt(h, k) = Max({BegunAt(h, l) : l \in summaries})}
  IN  IF summaries = {} THEN {} ELSE h[Min(newest)].says

\* The messages that replace h, <<>> when there is nothing to compress, and what
\* they do not tell any more.  The new summary is made of the newest one and of
\* the messages in range without those that have a summary.
Compression(h, retain) ==
  LET units   == Units(h)
      bounds  == Bounds(units, retain)
      range   == (bounds[1] + 1)..bounds[2]
      heads   == {BegunAt(units, k) : k \in PartsOf(units, {"summary"})}
      leftOut == {k \in range : BegunAt(units, k) \in heads}
      told(k) == units[k].says
      counted == [k \in DOMAIN units |-> [units[k] EXCEPT !.fresh = FALSE]]
      summary == Piece("summary", Earlier(h) \cup UNION {told(k) : k \in range \ leftOut})
      result  == SubSeq(counted, 1, bounds[1]) \o <<summary>> \o SubSeq(counted, bounds[2] + 1, Len(units))
  IN IF units = <<>> \/ bounds = <<>> \/ (retain /\ \A k \in 2..Len(units) : units[k].joined)
       THEN [messages |-> <<>>, overlooked |-> {}]
       ELSE [messages |-> result, overlooked |-> (UNION {told(k) : k \in leftOut}) \ Tells(result)]

-----------------------------------------------------------------------------
(* AgentRunner.run and RequestPolicy.                                      *)

Take(request, history) == [run EXCEPT !.at = "take", !.request = request, !.history = history]

StartRun(request, history) == [Take(request, history) EXCEPT !.original = history]

Forgotten(before, after) == Tells(before) \ Tells(after)

\* A new turn; what was paused is stopped before.
Begin(i) ==
  /\ run.at = "idle" /\ squeeze.at = "none" /\ i \in Input /\ i = Cardinality(said) + 1
  /\ said' = said \cup {i} /\ waiting' = {} /\ resumable' = FALSE
  /\ run' = StartRun(Prompts({i}), Safe(kept))
  /\ given' = given \cup waiting \cup Forgotten(kept, Safe(kept)) \cup OpenCalls(Safe(kept))
  /\ UNCHANGED <<kept, onDisk, squeeze, executed, cuts, shrinks>>

\* /resume: open calls are closed; a command goes with what was not sent yet.
ResumeRun ==
  /\ run.at = "idle" /\ squeeze.at = "none" /\ resumable /\ resumable' = FALSE
  /\ kept' = Repaired(kept) /\ run' = StartRun(<<Piece("command", {})>>, kept')
  /\ UNCHANGED <<onDisk, waiting, squeeze, said, executed, given, cuts, shrinks>>

Say(i) ==
  /\ run.at # "idle" /\ i \in Input /\ i = Cardinality(said) + 1
  /\ said' = said \cup {i} /\ waiting' = waiting \cup {i}
  /\ UNCHANGED <<kept, onDisk, run, resumable, squeeze, executed, given, cuts, shrinks>>

\* take_urgent; then the request is recorded before anything is made of it.
TakeInputs ==
  /\ run.at = "take" /\ waiting' = {}
  /\ run' = [run EXCEPT !.at = "audit", !.request = Joined(@ \o Prompts(waiting))]
  /\ UNCHANGED <<kept, onDisk, resumable, squeeze, said, executed, given, cuts, shrinks>>

\* on_node; the request is among the messages when it is made.
Audit ==
  /\ run.at = "audit"
  /\ onDisk' = run.history \o run.request /\ kept' = onDisk'
  /\ run' = [run EXCEPT !.at = "ready", !.history = Merged(onDisk'), !.request = <<>>, !.retried = FALSE]
  /\ UNCHANGED <<waiting, resumable, squeeze, said, executed, given, cuts, shrinks>>

\* before_model_request: the context is compressed and saved when a response
\* reported too many tokens.
CompressFirst ==
  /\ run.at = "ready" /\ \E k \in DOMAIN run.history : run.history[k].fresh
  /\ shrinks < MaxShrinks /\ shrinks' = shrinks + 1
  /\ \E c \in {Compression(run.history, TRUE)} :
       /\ c.messages # <<>> /\ onDisk' = c.messages
       /\ run' = [run EXCEPT !.history = c.messages]
       /\ given' = given \cup c.overlooked
  /\ UNCHANGED <<kept, waiting, resumable, squeeze, said, executed, cuts>>

Send ==
  /\ run.at = "ready" /\ run' = [run EXCEPT !.at = "sent"]
  /\ UNCHANGED <<kept, onDisk, waiting, resumable, squeeze, said, executed, given, cuts, shrinks>>

\* wrap_model_request: once the model finds it too long, all but a short tail
\* is compressed, and it is tried again.
TooLong ==
  /\ run.at = "sent" /\ ~run.retried /\ shrinks < MaxShrinks /\ shrinks' = shrinks + 1
  /\ \E c \in {Compression(run.history, Len(run.history) > 1)} :
       /\ c.messages # <<>> /\ onDisk' = c.messages
       /\ run' = [run EXCEPT !.at = "ready", !.history = c.messages, !.retried = TRUE]
       /\ given' = given \cup c.overlooked
  /\ UNCHANGED <<kept, waiting, resumable, squeeze, said, executed, cuts>>

Respond(calls) ==
  /\ run.at = "sent" /\ calls \cap CallsIn(run.history) = {} /\ calls \cap executed = {}
  /\ run' = [run EXCEPT !.at = "answered", !.responded = TRUE, !.original = <<>>, !.history = Append(@, Piece("response", calls))]
  /\ UNCHANGED <<kept, onDisk, waiting, resumable, squeeze, said, executed, given, cuts, shrinks>>

LastCalls == Last(run.history).says

\* on_node, then the tools that were called; without any the turn is at its end.
StartTools ==
  /\ run.at = "answered" /\ LastCalls # {}
  /\ onDisk' = run.history /\ kept' = onDisk'
  /\ run' = [run EXCEPT !.at = "tools", !.results = {}]
  /\ executed' = executed \cup LastCalls
  /\ UNCHANGED <<waiting, resumable, squeeze, said, given, cuts, shrinks>>

Result(c) ==
  /\ run.at = "tools" /\ c \in LastCalls \ run.results
  /\ run' = [run EXCEPT !.results = @ \cup {c}]
  /\ UNCHANGED <<kept, onDisk, waiting, resumable, squeeze, said, executed, given, cuts, shrinks>>

ToolsDone ==
  /\ run.at = "tools" /\ run.results = LastCalls
  /\ run' = Take(<<Piece("returns", LastCalls)>>, run.history)
  /\ UNCHANGED <<kept, onDisk, waiting, resumable, squeeze, said, executed, given, cuts, shrinks>>

\* What was said while the last response came still belongs to this turn.
GoOn ==
  /\ run.at = "answered" /\ LastCalls = {} /\ waiting # {} /\ waiting' = {}
  /\ onDisk' = run.history /\ kept' = onDisk'
  /\ run' = [Take(Joined(Prompts(waiting)), run.history) EXCEPT !.at = "audit"]
  /\ UNCHANGED <<resumable, squeeze, said, executed, given, cuts, shrinks>>

EndRun ==
  /\ run.at = "answered" /\ LastCalls = {} /\ waiting = {}
  /\ onDisk' = run.history /\ kept' = onDisk' /\ run' = NoRun
  /\ UNCHANGED <<waiting, resumable, squeeze, said, executed, given, cuts, shrinks>>

-----------------------------------------------------------------------------
(* The turn is cut off: by /stop, by its transport, by an error.           *)

\* Open calls are closed and saved, or the write fails.  A pending request is
\* among the messages only while it is recorded.  A transport failure pauses the
\* turn with what was not sent; /stop and errors give it up.
CutOff(transport, recorded) ==
  LET pending == IF run.at = "audit" THEN run.request ELSE <<>>
      closed  == Interrupted(run.history \o pending)
      left    == waiting \cup ((Tells(run.request) \cap Input) \ Tells(kept'))
  IN
  /\ run.at # "idle" /\ cuts < MaxCuts /\ cuts' = cuts + 1
  /\ IF recorded THEN kept' = closed /\ onDisk' = closed ELSE UNCHANGED <<kept, onDisk>>
  /\ run' = NoRun /\ resumable' = transport
  /\ waiting' = IF transport THEN left ELSE {}
  /\ given' = given \cup (left \ waiting')
  /\ UNCHANGED <<squeeze, said, executed, shrinks>>

\* InputLimitError: when nothing was answered yet the messages of before return.
RejectInput ==
  /\ run.at = "ready" /\ ~run.responded /\ cuts < MaxCuts /\ cuts' = cuts + 1
  /\ kept' = run.original /\ onDisk' = run.original /\ run' = NoRun /\ waiting' = {}
  /\ given' = given \cup waiting \cup Forgotten(run.history, run.original)
  /\ UNCHANGED <<resumable, squeeze, said, executed, shrinks>>

\* The process dies; the session is loaded again, its open calls are closed.
Restart ==
  /\ cuts < MaxCuts /\ cuts' = cuts + 1
  /\ kept' = Repaired(onDisk) /\ onDisk' = kept'
  /\ run' = NoRun /\ squeeze' = NoJob
  /\ waiting' = IF resumable THEN waiting ELSE {}
  /\ given' = given \cup ((waiting \cup (Tells(run.request) \cap Input)) \ (waiting' \cup Tells(kept')))
  /\ UNCHANGED <<resumable, said, executed, shrinks>>

-----------------------------------------------------------------------------
(* /compress (compress_histories): no turn begins meanwhile; a stop drops  *)
(* the candidate, before or after it is saved.                             *)

Squeeze ==
  /\ run.at = "idle" /\ squeeze.at = "none" /\ shrinks < MaxShrinks /\ shrinks' = shrinks + 1
  /\ \E c \in {Compression(kept, FALSE)} :
       /\ c.messages # <<>> /\ squeeze' = [at |-> "made", candidate |-> c]
  /\ UNCHANGED <<kept, onDisk, run, waiting, resumable, said, executed, given, cuts>>

SqueezeSaved ==
  /\ squeeze.at = "made" /\ squeeze' = [squeeze EXCEPT !.at = "saved"]
  /\ onDisk' = squeeze.candidate.messages
  /\ given' = given \cup squeeze.candidate.overlooked
  /\ UNCHANGED <<kept, run, waiting, resumable, said, executed, cuts, shrinks>>

Squeezed ==
  /\ squeeze.at = "saved" /\ squeeze' = NoJob
  /\ kept' = squeeze.candidate.messages
  /\ UNCHANGED <<onDisk, run, waiting, resumable, said, executed, given, cuts, shrinks>>

SqueezeDropped ==
  /\ squeeze.at # "none" /\ squeeze' = NoJob
  /\ UNCHANGED <<kept, onDisk, run, waiting, resumable, said, executed, given, cuts, shrinks>>

RequestNext ==
  \/ \E i \in Input : Begin(i) \/ Say(i)
  \/ ResumeRun \/ TakeInputs \/ Audit \/ CompressFirst \/ Send \/ TooLong
  \/ \E calls \in SUBSET Tool : Respond(calls)
  \/ StartTools \/ ToolsDone \/ GoOn \/ EndRun
  \/ \E c \in Tool : Result(c)
  \/ \E transport, recorded \in BOOLEAN : CutOff(transport, recorded)
  \/ RejectInput \/ Restart \/ Squeeze \/ SqueezeSaved \/ Squeezed \/ SqueezeDropped

RequestSpec == RequestInit /\ [][RequestNext]_requestVars

-----------------------------------------------------------------------------
\* Whenever the process dies, the messages on disk show each call whose tool was
\* started, with its result or with none: a later turn learns that it may have
\* happened.
StartedIsOnRecord == executed \subseteq Tells(onDisk) \cup given

\* Every request is closed: no call without its answer, no answer without its
\* call, none answered twice.  It tells all that was said and done, verbatim or
\* in a summary, except what a stop, a rejection or a lost record gave up; and
\* what goes out is what a restart would find.
RequestsAreWhole ==
  /\ StartedIsOnRecord
  /\ run.at = "sent" =>
    LET h == run.history
        answers(c) == {k \in PartsOf(h, {"returns"}) : c \in h[k].says}
    IN /\ OpenCalls(h) \subseteq given
       /\ \A c \in Tool : \A k, l \in answers(c) : k = l /\ c \in CallsIn(SubSeq(h, 1, k - 1))
       /\ (said \ waiting) \cup executed \subseteq Tells(h) \cup given
       /\ [k \in DOMAIN onDisk |-> onDisk[k].says] = [k \in DOMAIN h |-> h[k].says]
=============================================================================
