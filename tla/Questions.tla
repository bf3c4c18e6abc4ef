------------------------------ MODULE Questions ------------------------------
(* Questions to the user from within a turn (the ask_user tool), or from a    *)
(* command: askers wait for each other, the front end shows one question at a *)
(* time, and a message that comes meanwhile is its answer (api/base.py,       *)
(* ui/tui.py, ui/console.py); the answer is recorded for the turn before the  *)
(* model gets it (AgentSystem.set_ask_user_handler).  Messages that answer    *)
(* nothing supplement the turn or wait for one of their own.                  *)
(*                                                                            *)
(* Messages are numbered as they come; message m's own turn is m + 1, and the *)
(* turn at the beginning is 1.                                                *)
EXTENDS Naturals, FiniteSets

CONSTANTS ChildAsker,   \* calls of child Agents: a cancellation reaches them late
          MaxCalls, MaxMessages, MaxControls
            \* bounds on calls of ask_user, on messages, and on stops, pauses and clearings

ASSUME QuestionsAssumption ==
  /\ {MaxCalls, MaxMessages, MaxControls} \subseteq Nat
  /\ ChildAsker \subseteq 1..MaxCalls

VARIABLES
  chat,     \* front end, generation (era, cut), turn, how far its end is, paused turn
  asks,     \* each call: place, order, what it saw, future, answer, what it returned
  inputs,   \* each message: place, the question it found, what it saw, whether urgent
  recorded, \* inputs on record, each with its turn
  controls  \* stops, pauses and clearings so far

questionVars == <<chat, asks, inputs, recorded, controls>>

Message == 1..MaxMessages
Asker == 1..MaxCalls
Nobody == 0
Gen == <<chat.era, chat.cut>>
Context == <<chat.era, chat.cut, chat.turn>>

QuestionsInit ==
  /\ \E front \in {"channel", "tui", "cli"} :
       chat = [front |-> front, era |-> 0, cut |-> 0, turn |-> 1, ending |-> "no", paused |-> 0]
  /\ asks = [a \in Asker |-> [at |-> "off", order |-> 0, saw |-> <<0, 0, 0>>, hit |-> FALSE,
                              future |-> "none", by |-> 0, result |-> 0, failed |-> FALSE]]
  /\ inputs = [m \in Message |-> [at |-> "off", question |-> Nobody, saw |-> <<0, 0, 0>>, urgent |-> FALSE]]
  /\ recorded = {} /\ controls = 0

-----------------------------------------------------------------------------
OpenCalls == {a \in Asker : asks[a].at \notin {"off", "done"}}
OfTurn == {a \in OpenCalls : asks[a].saw[3] = chat.turn /\ chat.turn # 0}
Accepting == chat.turn # 0 /\ chat.ending = "no"

\* A channel has a new controller, with locks of its own, after it is cleared.
Beside(a, b) == chat.front = "channel" => asks[a].saw[1] = asks[b].saw[1]
Showing == {a \in OpenCalls : asks[a].at \in {"send", "ask"}}

\* The question that a message answers now.
Current ==
  LET open == {a \in Showing : asks[a].future = "open" /\ (chat.front = "channel" => asks[a].saw[1] = chat.era)}
  IN  IF open = {} THEN Nobody ELSE CHOOSE a \in open : TRUE

Answered(a, m) == [asks EXCEPT ![a].future = "set", ![a].by = m]
Ended(a, result) == [asks EXCEPT ![a].at = "done", ![a].result = result]

\* ask_user: behind the questions of other calls, in order.
AskUser(a) ==
  /\ asks[a].at = "off" /\ chat.ending = "no" /\ (chat.turn = 0 => a \notin ChildAsker)
  /\ asks' = [asks EXCEPT ![a].at = "lock", ![a].saw = Context,
                          ![a].order = Cardinality({b \in Asker : asks[b].at # "off"})]
  /\ UNCHANGED <<chat, inputs, recorded, controls>>

\* A cancelled call does no more, but that of a child until it hears of it.
Works(a) == ~asks[a].hit \/ a \in ChildAsker

Show(a) ==
  /\ asks[a].at = "lock" /\ Works(a)
  /\ \A b \in OpenCalls \ {a} : Beside(a, b) =>
       b \notin Showing /\ (asks[b].at = "lock" => asks[a].order < asks[b].order)
  /\ IF chat.front # "cli" /\ <<asks[a].saw[1], asks[a].saw[2]>> # Gen
     THEN asks' = Ended(a, 0)
     ELSE asks' = [asks EXCEPT ![a].at = IF chat.front = "channel" THEN "send" ELSE "ask", ![a].future = "open"]
  /\ UNCHANGED <<chat, inputs, recorded, controls>>

\* On a channel the question is sent, or that fails.
Sent(a) ==
  /\ asks[a].at = "send" /\ Works(a)
  /\ asks' \in {[asks EXCEPT ![a].at = "ask"], [Ended(a, 0) EXCEPT ![a].failed = TRUE]}
  /\ UNCHANGED <<chat, inputs, recorded, controls>>

\* recorded_answer: a late answer is no answer; that to a command is not recorded.
Wake(a) ==
  /\ asks[a].at = "ask" /\ asks[a].future = "set" /\ Works(a)
  /\ asks' = IF asks[a].saw # Context THEN Ended(a, 0)
             ELSE IF chat.turn = 0 THEN Ended(a, asks[a].by)
             ELSE [asks EXCEPT ![a].at = "read"]
  /\ UNCHANGED <<chat, inputs, recorded, controls>>

\* Its references are read, or cannot be.
ReadAnswer(a) ==
  /\ asks[a].at = "read" /\ Works(a)
  /\ \/ asks' = IF asks[a].saw # Context THEN Ended(a, 0) ELSE [asks EXCEPT ![a].at = "write"]
     \/ asks' = [Ended(a, 0) EXCEPT ![a].failed = TRUE]
  /\ UNCHANGED <<chat, inputs, recorded, controls>>

\* record_user_input: the session's record, then the observation of the turn.
RecordAnswer(a) ==
  /\ asks[a].at = "write" /\ Works(a)
  /\ recorded' = recorded \cup {<<asks[a].by, asks[a].saw[3]>>}
  /\ asks' = IF asks[a].saw # Context THEN Ended(a, 0) ELSE [asks EXCEPT ![a].at = "save"]
  /\ UNCHANGED <<chat, inputs, controls>>

GiveAnswer(a) ==
  /\ asks[a].at = "save" /\ Works(a)
  /\ asks' = Ended(a, IF asks[a].saw = Context THEN asks[a].by ELSE 0)
  /\ UNCHANGED <<chat, inputs, recorded, controls>>

\* The cancellation comes; a write that has begun is completed.
Unwind(a) ==
  /\ a \in OpenCalls /\ (asks[a].hit \/ (asks[a].at = "ask" /\ asks[a].future = "cancelled"))
  /\ asks' = Ended(a, 0)
  /\ recorded' \in {recorded} \cup
       (IF asks[a].at = "write" THEN {recorded \cup {<<asks[a].by, asks[a].saw[3]>>}} ELSE {})
  /\ UNCHANGED <<chat, inputs, controls>>

\* Escape leaves the question unanswered.
Escape ==
  /\ chat.front = "tui" /\ Current # Nobody
  /\ asks' = [asks EXCEPT ![Current].future = "cancelled"]
  /\ UNCHANGED <<chat, inputs, recorded, controls>>

-----------------------------------------------------------------------------
(* Messages.                                                                  *)
Into(m, place) == [inputs EXCEPT ![m].at = place]

\* A line answers the question at once; a message of a channel is prepared first.
Arrive ==
  \E m \in Message :
    LET seen(place) == inputs' = [inputs EXCEPT ![m] =
          [at |-> place, question |-> Current, saw |-> Context, urgent |-> Accepting]]
    IN  /\ \A n \in Message : inputs[n].at = "off" <=> n >= m
        /\ IF chat.front # "channel" /\ Current # Nobody
           THEN seen("taken") /\ asks' = Answered(Current, m)
           ELSE /\ seen(IF chat.front = "channel" \/ Accepting THEN "prepare" ELSE "queued")
                /\ UNCHANGED asks
        /\ UNCHANGED <<chat, recorded, controls>>

\* Mutant: the question is looked up when the message is ready.
AnswersNow(m) == IF inputs[m].question = Nobody THEN Nobody ELSE Current
Answers(m) == inputs[m].question

\* _prepare_answer: answers are prepared one after the other.
Turnwise(m) ==
  inputs[m].question # Nobody =>
    \A n \in 1..m - 1 : ~(inputs[n].at = "prepare" /\ inputs[n].question # Nobody)

InputReady(m) ==
  /\ inputs[m].at = "prepare" /\ Turnwise(m)
  /\ IF Answers(m) # Nobody /\ asks[Answers(m)].future = "open"
     THEN inputs' = Into(m, "taken") /\ asks' = Answered(Answers(m), m)
     ELSE inputs' = Into(m, IF inputs[m].urgent THEN "ready" ELSE "queued") /\ UNCHANGED asks
  /\ UNCHANGED <<chat, recorded, controls>>

\* The user is told, and the question stays.
PreparationFails(m) ==
  /\ inputs[m].at = "prepare" /\ Turnwise(m) /\ inputs' = Into(m, "refused")
  /\ UNCHANGED <<chat, asks, recorded, controls>>

\* take_inputs, between two requests: none is under way while the turn's own tools run.
Take(m) ==
  /\ Accepting /\ OfTurn \subseteq ChildAsker /\ inputs[m].at = "ready"
  /\ \A n \in 1..m - 1 : ~(inputs[n].urgent /\ inputs[n].at \in {"prepare", "ready"})
  /\ inputs' = Into(m, "handed") /\ recorded' = recorded \cup {<<m, chat.turn>>}
  /\ UNCHANGED <<chat, asks, controls>>

BeginOwnTurn(m) ==
  /\ chat.turn = 0 /\ chat.ending = "no" /\ chat.paused = 0 /\ inputs[m].at = "queued"
  /\ \A n \in 1..m - 1 : inputs[n].at \notin {"prepare", "queued"}
  /\ chat' = [chat EXCEPT !.turn = m + 1]
  /\ inputs' = Into(m, "turn") /\ recorded' = recorded \cup {<<m, m + 1>>}
  /\ UNCHANGED <<asks, controls>>

FinishTurn ==
  /\ Accepting /\ OfTurn = {}
  /\ \A m \in Message : ~(inputs[m].urgent /\ inputs[m].at \in {"prepare", "ready"})
  /\ chat' = [chat EXCEPT !.turn = 0]
  /\ UNCHANGED <<asks, inputs, recorded, controls>>

-----------------------------------------------------------------------------
(* SessionController.reset, and what stops, pauses or clears around it.       *)
\* Supplements and preparations; a queued message is prepared anew in its turn.
AfterControl(kind, r) ==
  IF kind = "clear" /\ r.at \in {"prepare", "ready", "queued", "kept"} THEN [r EXCEPT !.at = "dropped"]
  ELSE IF r.urgent /\ r.at \in {"prepare", "ready"}
  THEN [r EXCEPT !.at = IF kind = "pause" THEN "kept" ELSE "dropped"]
  ELSE IF r.at = "prepare" THEN [r EXCEPT !.at = "queued"]
  ELSE r

\* A terminal cancels the question it shows by the key, not by the command,
\* and when it is cleared.
ResetInputs(kind, shown) ==
  /\ inputs' = [m \in Message |-> AfterControl(kind, inputs[m])]
  /\ asks' = [a \in Asker |->
       [asks[a] EXCEPT !.hit = @ \/ (a \in OfTurn \ ChildAsker),
                       !.future = IF shown /\ a = Current THEN "cancelled" ELSE @]]

Interrupt ==
  \E kind \in {"stop", "pause", "clear"}, shown \in BOOLEAN :
    /\ controls < MaxControls /\ controls' = controls + 1
    /\ kind = "pause" => Accepting
    /\ kind = "stop" => chat.ending = "no"
    /\ chat.front = "channel" \/ kind = "clear" => shown
    /\ ResetInputs(kind, shown)
    /\ chat' = [chat EXCEPT !.cut = @ + 1, !.era = IF kind = "clear" THEN @ + 1 ELSE @,
                            !.ending = IF chat.turn # 0 THEN "tasks" ELSE @,
                            !.paused = CASE kind = "pause" -> chat.turn [] kind = "clear" -> 0
                                         [] OTHER -> @]
    /\ UNCHANGED recorded

\* cancel_current_turn: the turn's task, then its children.
TaskEnds ==
  /\ chat.ending = "tasks" /\ OfTurn \subseteq ChildAsker
  /\ asks' = [a \in Asker |-> [asks[a] EXCEPT !.hit = @ \/ a \in OfTurn]]
  /\ chat' = [chat EXCEPT !.turn = 0, !.ending = IF OfTurn = {} THEN "no" ELSE "children"]
  /\ UNCHANGED <<inputs, recorded, controls>>

ChildrenEnd ==
  /\ chat.ending = "children" /\ OpenCalls \cap ChildAsker = {}
  /\ chat' = [chat EXCEPT !.ending = "no"]
  /\ UNCHANGED <<asks, inputs, recorded, controls>>

\* The paused turn goes on with the supplements it had not taken.
ResumeChat ==
  LET kept == {m \in Message : inputs[m].at = "kept"} IN
  /\ chat.paused # 0 /\ chat.turn = 0 /\ chat.ending = "no"
  /\ chat' = [chat EXCEPT !.turn = chat.paused, !.paused = 0]
  /\ inputs' = [m \in Message |-> IF m \in kept THEN [inputs[m] EXCEPT !.at = "handed"] ELSE inputs[m]]
  /\ recorded' = recorded \cup {<<m, chat.paused>> : m \in kept}
  /\ UNCHANGED <<asks, controls>>

Program ==
  \/ TaskEnds \/ ChildrenEnd \/ FinishTurn
  \/ \E a \in Asker : \/ Show(a) \/ Sent(a) \/ Wake(a) \/ ReadAnswer(a) \/ RecordAnswer(a)
                      \/ GiveAnswer(a) \/ Unwind(a)
  \/ \E m \in Message : InputReady(m) \/ PreparationFails(m) \/ Take(m) \/ BeginOwnTurn(m)

QuestionsNext ==
  \/ Program \/ Escape \/ Arrive \/ Interrupt \/ ResumeChat
  \/ \E a \in Asker : AskUser(a)

-----------------------------------------------------------------------------
(* What a user may rely on.                                                   *)
\* The answer a call returned was given while its question was shown, and is
\* on record for the turn that asked.
AnswerIsItsOwn(a) ==
  LET m == asks[a].result IN
  m # 0 => /\ inputs[m].question = a /\ inputs[m].at = "taken"
           /\ \A i \in {1, 2} : inputs[m].saw[i] = asks[a].saw[i]
           /\ asks[a].saw[3] # 0 =>
                inputs[m].saw = asks[a].saw /\ <<m, asks[a].saw[3]>> \in recorded

\* An answer is in vain only for a call that was interrupted, or failed; or
\* for a command beside which a turn began.
InVain(m) ==
  LET a == inputs[m].question IN
  inputs[m].at = "taken" /\ asks[a].at = "done" /\ asks[a].result # m =>
    asks[a].failed \/ <<asks[a].saw[1], asks[a].saw[2]>> # Gen \/ asks[a].saw[3] = 0

OnRecordOnce ==
  /\ \A r, s \in recorded : r[1] = s[1] => r = s
  /\ \A r \in recorded : inputs[r[1]].at \in {"taken", "handed", "turn"}

\* What waits has something to wait for: calls the user, messages a turn.
Stuck ==
  \/ \E a \in OpenCalls : asks[a].at # "lock" /\ asks[a].future # "open"
  \/ OpenCalls # {} /\ Current = Nobody
  \/ \E m \in Message : inputs[m].at = "prepare"
  \/ (\E m \in Message : inputs[m].at = "queued") /\ OpenCalls = {} /\ chat.paused = 0
NobodyStuck == Stuck => ENABLED Program

\* A question is answered by a message that came while it was shown, in the
\* turn that asked it and on record there; each message has one use, no answer
\* is in vain but to a call that was interrupted, and no call waits for an
\* answer that cannot come (set_ask_user_handler, _ask_user, _prepare_answer).
AnswersReachTheirQuestion ==
  /\ \A a \in Asker : AnswerIsItsOwn(a)
  /\ \A m \in Message : InVain(m)
  /\ OnRecordOnce /\ NobodyStuck
=============================================================================
