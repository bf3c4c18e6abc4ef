----------------------------- MODULE TurnControl -----------------------------
(***************************************************************************)
(* User turns of one session: TurnQueue and SessionController              *)
(* (sessions/control.py) with the turn handling of AgentSystem             *)
(* (core/system.py), the steering loop of AgentRunner (core/gateway.py)    *)
(* and the admission of the console (ui/console.py).                       *)
(*                                                                         *)
(* Everything runs on one event loop, so a step goes from one await to the *)
(* next.  A request waits in the queue and becomes the current item; its   *)
(* turn is at                                                              *)
(*   prepare -> open -> boundary (-> taking) -> checkpoint -> model        *)
(*   -> tools -> boundary ... -> closing (-> clear)                        *)
(* A boundary before a model request takes the supplements that arrived;   *)
(* the one after a final answer takes them too and closes the inbox if     *)
(* there are none.  /stop, pause, a transport failure, /clear and the      *)
(* death of the process come in between at any await.                      *)
(***************************************************************************)
EXTENDS Naturals, Sequences, FiniteSets, SequencesExt

CONSTANTS
  Request,     \* ordinary inputs
  Supplement,  \* urgent inputs to a running turn
  NoRequest,
  MaxPauses,   \* bound: pauses by the user and transport failures
  MaxStops,    \* bound: /stop
  MaxClears,   \* bound: /clear
  MaxCrashes   \* bound: deaths of the process

ASSUME TurnControlAssumption ==
  /\ Request \cap Supplement = {} /\ NoRequest \notin Request
  /\ MaxPauses \in Nat /\ MaxStops \in Nat
  /\ MaxClears \in Nat /\ MaxCrashes \in Nat

VARIABLES
  pending,   \* TurnQueue.pending
  ready,     \* TurnQueue.ready: the consumer may dispatch
  item,      \* TurnQueue.current
  at,        \* where its turn is
  ending,    \* the boundary follows a final answer
  accepting, \* accepting_urgent
  urgent,    \* _urgent: supplements admitted and not yet taken
  batch,     \* supplements frozen at the boundary
  prompt,    \* user inputs in the model request being assembled
  rows,      \* pending_inputs: the turn's supplements not yet delivered
  prep,      \* preparation of each supplement's references
  mark,      \* flags of a supplement's row: "none", "consumed", "delivered"
  host,      \* the turn each supplement was admitted to
  gen,       \* _generation
  tgen,      \* _turn_generation
  paused,    \* SessionController.paused
  saved,     \* metadata["paused_turn"] of the session journal
  lock,      \* holder of the console's admission lock
  grip,      \* the generation a resume in progress began with
  op,        \* cancel_current_turn on behalf of stop, pause and clear
  kids,      \* child Agents of a cancelled turn still wind down
  moving,    \* the console is in a session transition
  up,        \* the process runs
  count,     \* how many pauses, stops, clears and crashes there were
  order,     \* history: requests in the order they were submitted
  born,      \* history: the generation each request was submitted in
  sent,      \* journal: turns with a user prompt in their messages
  seen,      \* journal: how often each input is in the model's messages
  lost,      \* history: requests dropped by the queue with an error
  stopped    \* history: requests whose turn was ended by /stop

queue == <<pending, ready>>
work  == <<item, at, ending, batch, prompt>>
inbox == <<accepting, urgent, rows, prep>>
supp  == <<mark, host>>
pause == <<paused, saved>>
ctrl  == <<lock, grip, op, kids, moving>>
life  == <<up, count>>
hist  == <<order, born, sent, seen, lost, stopped>>
vars  == <<queue, work, inbox, supp, gen, tgen, pause, ctrl, life, hist>>

Input   == Request \cup Supplement
Ops     == {"stop", "pause", "clear"}
NoPause == [req |-> NoRequest, turn |-> FALSE, sent |-> FALSE,
            sup |-> <<>>, queued |-> <<>>]
Fresh(r) == [req |-> r, resumed |-> FALSE, turn |-> FALSE, sent |-> FALSE,
             sup |-> <<>>, gen |-> gen, tgen |-> 0]
NoItem  == [req |-> NoRequest, resumed |-> FALSE, turn |-> FALSE,
            sent |-> FALSE, sup |-> <<>>, gen |-> 0, tgen |-> 0]
IdleOp  == [step |-> "idle", target |-> NoItem]

Item == [req : Request, resumed : BOOLEAN, turn : BOOLEAN, sent : BOOLEAN,
         sup : Seq(Supplement), gen : Nat, tgen : Nat]
Pause == [req : Request, turn : BOOLEAN, sent : BOOLEAN,
          sup : Seq(Supplement), queued : Seq(Request)]

TypeOK ==
  /\ pending \in Seq(Item) /\ item \in Item \cup {NoItem}
  /\ ready \in BOOLEAN /\ ending \in BOOLEAN /\ accepting \in BOOLEAN
  /\ at \in {"none", "prepare", "open", "boundary", "taking", "checkpoint",
             "model", "tools", "closing", "clear", "transport", "tpause",
             "tsave"}
  /\ (at = "none") = (item = NoItem)
  /\ urgent \in Seq(Supplement) /\ batch \in Seq(Supplement)
  /\ rows \in Seq(Supplement) /\ prompt \in Seq(Input)
  /\ prep \in [Supplement -> {"none", "working", "ok", "failed", "cancelled"}]
  /\ mark \in [Supplement -> {"none", "consumed", "delivered"}]
  /\ host \in [Supplement -> Request \cup {NoRequest}]
  /\ gen \in Nat /\ tgen \in Nat
  /\ paused \in Pause \cup {NoPause} /\ saved \in Pause \cup {NoPause}
  /\ lock \in {"none", "submit", "pause", "resume", "resumeSave"}
  /\ grip \in Nat \X Nat
  /\ op \in [Ops -> [step : {"idle", "lock", "task", "children", "settle",
                             "save", "clean"}, target : Item \cup {NoItem}]]
  /\ kids \in BOOLEAN /\ moving \in BOOLEAN /\ up \in BOOLEAN
  /\ count \in [Ops \cup {"crash"} -> Nat]
  /\ order \in Seq(Request) /\ born \in [Request -> Nat]
  /\ sent \subseteq Request /\ seen \in [Input -> Nat]
  /\ lost \subseteq Request /\ stopped \subseteq Request

Init ==
  /\ pending = <<>> /\ ready = TRUE
  /\ item = NoItem /\ at = "none" /\ ending = FALSE
  /\ batch = <<>> /\ prompt = <<>>
  /\ accepting = FALSE /\ urgent = <<>> /\ rows = <<>>
  /\ prep = [s \in Supplement |-> "none"]
  /\ mark = [s \in Supplement |-> "none"]
  /\ host = [s \in Supplement |-> NoRequest]
  /\ gen = 0 /\ tgen = 0
  /\ paused = NoPause /\ saved = NoPause
  /\ lock = "none" /\ grip = <<0, 0>>
  /\ op = [o \in Ops |-> IdleOp]
  /\ kids = FALSE /\ moving = FALSE /\ up = TRUE
  /\ count = [o \in Ops \cup {"crash"} |-> 0]
  /\ order = <<>> /\ born = [r \in Request |-> 0]
  /\ sent = {} /\ seen = [x \in Input |-> 0]
  /\ lost = {} /\ stopped = {}

-----------------------------------------------------------------------------
(* Helpers.                                                                *)

IsPaused == paused # NoPause

\* _cancel_lock: held by a cancellation, or by it and those waiting for it.
CancelHeld   == \E o \in Ops : op[o].step \in {"task", "children"}
CancelLocked == CancelHeld \/ \E o \in Ops : op[o].step = "lock"

\* SessionController.control_busy.
ControlBusy == lock \in {"pause", "resume", "resumeSave"} \/ at \in {"tpause", "tsave"}

\* TurnQueue.current or _current_turn; the turn exists once it was opened.
HasTurn == at \notin {"none", "prepare", "clear"}

\* The pause as save_pause fills it in: with the ordinary queue.
Snapshot(p, seq) == [p EXCEPT !.queued = [i \in DOMAIN seq |-> seq[i].req]]

Restored == [i \in DOMAIN paused.queued |-> Fresh(paused.queued[i])]

\* _restore_paused_queue: only an empty queue is filled again.
WithRestored == IF IsPaused /\ pending = <<>> THEN Restored ELSE pending

Without(seq, S) == SelectSeq(seq, LAMBDA x : x \notin S)

\* Supplements of a paused turn that have not reached the model.
Undelivered(seq) == SelectSeq(seq, LAMBDA s : mark[s] # "delivered")

\* SessionController.reset: what every cancellation forgets.
Reset ==
  /\ tgen' = tgen + 1
  /\ accepting' = FALSE /\ urgent' = <<>> /\ rows' = <<>>
  /\ prep' = [s \in Supplement |-> IF prep[s] = "working" THEN "cancelled"
                                                           ELSE prep[s]]

\* The inputs of the first model request of a turn (UserMessage.to_prompt).
FirstPrompt(i) ==
  IF i.turn THEN (IF i.sent THEN <<>> ELSE <<i.req>>) \o i.sup ELSE <<i.req>>

\* The request is in the journal: its inputs are with the model.
Delivered ==
  LET done == {s \in ToSet(rows) \cup ToSet(paused.sup) : mark[s] = "consumed"}
  IN /\ seen' = [x \in Input |-> seen[x] +
                   Cardinality({i \in DOMAIN prompt : prompt[i] = x})]
     /\ mark' = [s \in Supplement |-> IF s \in done THEN "delivered" ELSE mark[s]]
     /\ sent' = sent \cup {item.req}

NotDelivered == UNCHANGED <<seen, mark, sent>>

\* The current item is done; the consumer may take the next.
Leave ==
  /\ item' = NoItem /\ at' = "none" /\ ending' = FALSE
  /\ batch' = <<>> /\ prompt' = <<>>

Bump(c) == count' = [count EXCEPT ![c] = @ + 1]

\* The current task was cancelled and only winds down.
Cancelled == \E o \in Ops : op[o].step = "task"

Runs(place) == at = place /\ ~Cancelled

-----------------------------------------------------------------------------
(* Admission (process_line), under the console's admission lock.           *)

\* An ordinary input joins the queue.
Submit(r) ==
  /\ up /\ ~moving /\ lock = "none" /\ r \notin ToSet(order)
  /\ pending' = Append(WithRestored, Fresh(r))
  /\ paused' = IF IsPaused THEN Snapshot(paused, pending') ELSE NoPause
  /\ lock' = IF IsPaused THEN "submit" ELSE "none"
  /\ order' = Append(order, r)
  /\ born' = [born EXCEPT ![r] = gen]
  /\ UNCHANGED <<ready, work, inbox, supp, gen, tgen, saved, grip, op, kids,
                 moving, life, sent, seen, lost, stopped>>

\* An input given while paused is saved with the pause.
SubmitSaved ==
  /\ lock = "submit"
  /\ lock' = "none"
  /\ saved' = IF IsPaused THEN paused ELSE saved
  /\ UNCHANGED <<queue, work, inbox, supp, gen, tgen, paused, grip, op, kids,
                 moving, life, hist>>

\* An urgent input while the turn's inbox is open (add_urgent_message).
Supply(s) ==
  /\ up /\ ~moving /\ lock = "none" /\ accepting /\ host[s] = NoRequest
  /\ host' = [host EXCEPT ![s] = item.req]
  /\ urgent' = Append(urgent, s) /\ rows' = Append(rows, s)
  /\ prep' = [prep EXCEPT ![s] = "working"]
  /\ UNCHANGED <<queue, work, accepting, mark, gen, tgen, pause, ctrl, life,
                 hist>>

\* Its references are resolved, or it is rejected and reported.
Prepared(s) ==
  /\ prep[s] = "working"
  /\ \E ok \in BOOLEAN :
       /\ prep' = [prep EXCEPT ![s] = IF ok THEN "ok" ELSE "failed"]
       /\ rows' = IF ok THEN rows ELSE Without(rows, {s})
  /\ UNCHANGED <<queue, work, accepting, urgent, supp, gen, tgen, pause, ctrl,
                 life, hist>>

-----------------------------------------------------------------------------
(* The queue consumer and the start of a turn.                             *)

TakeItem ==
  /\ item = NoItem /\ ready /\ pending # <<>>
  /\ pending' = Tail(pending)
  /\ item' = IF Head(pending).resumed THEN Head(pending)
                                      ELSE [Head(pending) EXCEPT !.tgen = tgen]
  /\ at' = "prepare"
  /\ UNCHANGED <<ready, ending, batch, prompt, inbox, supp, gen, tgen, pause,
                 ctrl, life, hist>>

\* The session or the turn generation moved on: the item ends silently.
DropStale ==
  /\ Runs("prepare") /\ (item.gen # gen \/ item.tgen # tgen)
  /\ Leave
  /\ lost' = IF item.gen = gen /\ ~item.resumed THEN lost \cup {item.req} ELSE lost
  /\ UNCHANGED <<queue, inbox, supp, gen, tgen, pause, ctrl, life, order, born,
                 sent, seen, stopped>>

\* A resumed item starts in the generations it was resumed in; an ordinary
\* one may have begun to prepare its message after the turn generation moved.
MayStart == /\ Runs("prepare") /\ item.gen = gen
            /\ item.resumed => item.tgen = tgen
            /\ ~item.turn => ~moving

StartTurn ==
  /\ MayStart /\ ~CancelLocked
  /\ at' = "open" /\ accepting' = TRUE /\ rows' = <<>>
  /\ UNCHANGED <<queue, item, ending, batch, prompt, urgent, prep, supp, gen,
                 tgen, pause, ctrl, life, hist>>

\* _start_user_turn refuses while a cancellation holds its lock.
LoseTurn ==
  /\ MayStart /\ CancelLocked
  /\ lost' = lost \cup {item.req}
  /\ IF item.resumed THEN at' = "clear" /\ UNCHANGED <<item, ending, batch, prompt>>
                     ELSE Leave
  /\ UNCHANGED <<queue, inbox, supp, gen, tgen, pause, ctrl, life, order, born,
                 sent, seen, stopped>>

-----------------------------------------------------------------------------
(* The turn (_run_user_turn, AgentRunner.run).                             *)

\* What a step of the turn that touches neither inbox nor journal leaves.
InnerStep == UNCHANGED <<queue, item, supp, gen, tgen, pause, ctrl, life, hist>>

OpenTurn ==
  /\ Runs("open")
  /\ at' = "boundary" /\ ending' = FALSE /\ prompt' = FirstPrompt(item)
  /\ UNCHANGED <<batch, inbox>> /\ InnerStep

\* take_urgent freezes the supplements admitted so far.
Freeze ==
  /\ Runs("boundary") /\ urgent # <<>>
  /\ at' = "taking" /\ batch' = urgent /\ urgent' = <<>>
  /\ UNCHANGED <<ending, prompt, accepting, rows, prep>> /\ InnerStep

\* All of them are ready: those that prepared well join the request, and a
\* batch of rejected ones is as if it had not been.
Taken ==
  LET ok == SelectSeq(batch, LAMBDA s : prep[s] = "ok")
  IN /\ Runs("taking") /\ \A s \in ToSet(batch) : prep[s] # "working"
     /\ at' = IF ok = <<>> THEN "boundary" ELSE "checkpoint"
     /\ ending' = (ending /\ ok = <<>>)
     /\ batch' = <<>> /\ prompt' = prompt \o ok
     /\ mark' = [s \in Supplement |->
                   IF s \in ToSet(ok) \cap ToSet(rows) THEN "consumed" ELSE mark[s]]
     /\ UNCHANGED <<queue, item, inbox, host, gen, tgen, pause, ctrl, life, hist>>

\* Mutant: a final answer leaves the inbox open while it is being saved.
NoneLeftOpen ==
  /\ Runs("boundary") /\ urgent = <<>>
  /\ at' = IF ending THEN "closing" ELSE "checkpoint"
  /\ UNCHANGED <<ending, batch, prompt, inbox>> /\ InnerStep

\* Nothing to take: the request goes out, or the turn closes its inbox.
NoneLeft ==
  /\ Runs("boundary") /\ urgent = <<>>
  /\ at' = IF ending THEN "closing" ELSE "checkpoint"
  /\ accepting' = (accepting /\ ~ending)
  /\ UNCHANGED <<ending, batch, prompt, urgent, rows, prep>> /\ InnerStep

\* The request is saved before it is sent, and its inputs are marked.
Checkpoint ==
  /\ Runs("checkpoint") /\ Delivered
  /\ at' = "model" /\ prompt' = <<>>
  /\ rows' = SelectSeq(rows, LAMBDA s : mark'[s] # "delivered")
  /\ UNCHANGED <<queue, item, ending, batch, accepting, urgent, prep, host, gen,
                 tgen, pause, ctrl, life, order, born, lost, stopped>>

ToolCall ==
  /\ Runs("model") /\ at' = "tools"
  /\ UNCHANGED <<ending, batch, prompt, inbox>> /\ InnerStep

ToolsDone ==
  /\ Runs("tools") /\ at' = "boundary" /\ ending' = FALSE
  /\ UNCHANGED <<batch, prompt, inbox>> /\ InnerStep

FinalAnswer ==
  /\ Runs("model") /\ at' = "boundary" /\ ending' = TRUE
  /\ UNCHANGED <<batch, prompt, inbox>> /\ InnerStep

\* A resumed item has its saved pause to clear before it ends.
EndItem == IF item.resumed THEN at' = "clear" /\ UNCHANGED <<item, ending, batch, prompt>>
                           ELSE Leave

EndTurn ==
  /\ Runs("closing") /\ EndItem
  /\ UNCHANGED <<queue, inbox, supp, gen, tgen, pause, ctrl, life, hist>>

\* An error other than a transport failure ends the turn.
Fail ==
  /\ \E place \in {"open", "model", "tools"} : Runs(place)
  /\ EndItem
  /\ accepting' = FALSE /\ urgent' = <<>>
  /\ UNCHANGED <<queue, rows, prep, supp, gen, tgen, pause, ctrl, life, hist>>

\* resumed(): the pause leaves the journal unless something newer happened.
ClearPause ==
  /\ Runs("clear") /\ Leave
  /\ saved' = IF item.gen = gen /\ item.tgen = tgen /\ ~IsPaused THEN NoPause ELSE saved
  /\ UNCHANGED <<queue, inbox, supp, gen, tgen, paused, ctrl, life, hist>>

\* The model's answer breaks off: the turn unwinds, its rows stay.
TransportError ==
  /\ Runs("model") /\ count["pause"] < MaxPauses /\ Bump("pause")
  /\ at' = "transport" /\ accepting' = FALSE /\ urgent' = <<>>
  /\ UNCHANGED <<queue, item, ending, batch, prompt, rows, prep, supp, gen, tgen,
                 pause, ctrl, up, hist>>

-----------------------------------------------------------------------------
(* Pauses: by the user and after a transport failure.                      *)

\* The pause of the current item, before it is known what the model has; a
\* pause that does not say whether its prompt was sent counts as sent.
Pausing == [req |-> item.req, turn |-> HasTurn, sent |-> TRUE,
            sup |-> (IF HasTurn THEN item.sup ELSE <<>>) \o rows, queued |-> <<>>]

\* Once everything stopped: what the model has is not sent again.  A turn
\* whose prompt was submitted counts the supplements it was resumed with as
\* submitted too.
Settled(i) ==
  LET told == paused.req \in sent
      left == Undelivered(paused.sup)
      kept == IF told THEN Without(left, ToSet(i.sup)) ELSE left
      p == IF paused.turn THEN [paused EXCEPT !.sent = told, !.sup = kept]
                          ELSE [paused EXCEPT !.sup = left]
  IN Snapshot(p, pending)

\* After a transport failure the turn pauses itself, unless it is paused or a
\* pause or resume is going on.
TransportPause ==
  /\ Runs("transport")
  /\ IF IsPaused \/ ControlBusy
       THEN /\ EndItem
            /\ UNCHANGED <<ready, paused, inbox, tgen>>
       ELSE /\ paused' = Pausing /\ ready' = FALSE /\ Reset
            /\ at' = "tpause" /\ UNCHANGED <<item, ending, batch, prompt>>
  /\ UNCHANGED <<pending, supp, gen, saved, ctrl, life, hist>>

TransportSettle ==
  /\ Runs("tpause")
  /\ IF item.gen # gen THEN EndItem /\ UNCHANGED paused
       ELSE /\ paused' = Settled(item)
            /\ at' = "tsave" /\ UNCHANGED <<item, ending, batch, prompt>>
  /\ UNCHANGED <<queue, inbox, supp, gen, tgen, saved, ctrl, life, hist>>

TransportSave ==
  /\ Runs("tsave") /\ EndItem
  /\ saved' = IF IsPaused THEN paused ELSE saved
  /\ UNCHANGED <<queue, inbox, supp, gen, tgen, paused, ctrl, life, hist>>

-----------------------------------------------------------------------------
(* cancel_current_turn, on behalf of /stop, the pause button and /clear.   *)

\* What each of them does once the turn is gone.
After(o) == CASE o = "stop" -> "idle" [] o = "pause" -> "settle" [] o = "clear" -> "clean"

\* With the lock: forget the turn's inbox and cancel its task.
HoldLock(o, target) ==
  /\ Reset
  /\ op' = [op EXCEPT ![o] = [target |-> target,
             step |-> IF target # NoItem /\ target = item THEN "task" ELSE After(o)]]

Enter(o) ==
  IF CancelLocked
    THEN op' = [op EXCEPT ![o] = [step |-> "lock", target |-> item]] /\ UNCHANGED <<inbox, tgen>>
    ELSE HoldLock(o, item)

CancelEntered(o) ==
  /\ op[o].step = "lock" /\ ~CancelHeld
  /\ HoldLock(o, op[o].target)
  /\ UNCHANGED <<queue, work, supp, gen, pause, lock, grip, kids, moving, life, hist>>

\* Mutant: the lock is free as soon as the turn's own task has ended.
TurnCancelledEarly(o) ==
  /\ op[o].step = "task" /\ Leave
  /\ IF at = "checkpoint" THEN Delivered ELSE NotDelivered
  /\ accepting' = FALSE /\ urgent' = <<>> /\ UNCHANGED <<rows, prep>>
  /\ saved' \in (CASE at = "clear" -> {saved, NoPause} [] at = "tsave" -> {paused}
                   [] OTHER -> {saved})
  /\ kids' \in (IF at = "tools" THEN BOOLEAN ELSE {FALSE})
  /\ op' = [op EXCEPT ![o].step = After(o)]
  /\ stopped' = IF o = "stop" THEN stopped \cup {item.req} ELSE stopped
  /\ UNCHANGED <<queue, host, gen, tgen, paused, lock, grip, moving, life, order, born, lost>>

\* The task has ended: a request on its way was saved after all, a save in
\* progress finished, and child Agents may still be busy.
TurnCancelled(o) ==
  /\ op[o].step = "task" /\ Leave
  /\ IF at = "checkpoint" THEN Delivered ELSE NotDelivered
  /\ accepting' = FALSE /\ urgent' = <<>> /\ UNCHANGED <<rows, prep>>
  /\ saved' \in (CASE at = "clear" -> {saved, NoPause} [] at = "tsave" -> {paused}
                   [] OTHER -> {saved})
  /\ kids' \in (IF at = "tools" THEN BOOLEAN ELSE {FALSE})
  /\ op' = [op EXCEPT ![o].step = IF kids' THEN "children" ELSE After(o)]
  /\ stopped' = IF o = "stop" THEN stopped \cup {item.req} ELSE stopped
  /\ UNCHANGED <<queue, host, gen, tgen, paused, lock, grip, moving, life, order, born, lost>>

KidsEnd ==
  /\ kids /\ kids' = FALSE
  /\ UNCHANGED <<queue, work, inbox, supp, gen, tgen, pause, lock, grip, op,
                 moving, life, hist>>

\* factory.cancel_turn returned.
CancelDone(o) ==
  /\ op[o].step = "children" /\ ~kids
  /\ op' = [op EXCEPT ![o].step = After(o)]
  /\ UNCHANGED <<queue, work, inbox, supp, gen, tgen, pause, lock, grip, kids,
                 moving, life, hist>>

Stop ==
  /\ up /\ op["stop"].step = "idle" /\ count["stop"] < MaxStops /\ Bump("stop")
  /\ Enter("stop")
  /\ UNCHANGED <<queue, work, supp, gen, pause, lock, grip, kids, moving, up, hist>>

\* SessionController.pause: close the queue, note what is paused, cancel it.
PauseBegin ==
  /\ up /\ ~moving /\ lock = "none" /\ ~ControlBusy /\ ~IsPaused /\ item # NoItem
  /\ count["pause"] < MaxPauses /\ Bump("pause")
  /\ lock' = "pause" /\ paused' = Pausing /\ ready' = FALSE
  /\ grip' = <<gen, tgen>>
  /\ Enter("pause")
  /\ UNCHANGED <<pending, work, supp, gen, saved, kids, moving, up, hist>>

PauseSettle ==
  /\ op["pause"].step = "settle"
  /\ IF grip[1] # gen
       THEN /\ lock' = "none" /\ op' = [op EXCEPT !["pause"] = IdleOp]
            /\ UNCHANGED paused
       ELSE /\ op' = [op EXCEPT !["pause"].step = "save"]
            /\ paused' = Settled(op["pause"].target) /\ UNCHANGED lock
  /\ UNCHANGED <<queue, work, inbox, supp, gen, tgen, saved, grip, kids, moving,
                 life, hist>>

PauseSave ==
  /\ op["pause"].step = "save"
  /\ op' = [op EXCEPT !["pause"] = IdleOp] /\ lock' = "none"
  /\ saved' = IF IsPaused THEN paused ELSE saved
  /\ UNCHANGED <<queue, work, inbox, supp, gen, tgen, paused, grip, kids, moving,
                 life, hist>>

-----------------------------------------------------------------------------
(* SessionController.resume: the paused request goes before the queue.     *)

ResumeBegin ==
  /\ up /\ ~moving /\ lock = "none" /\ ~ControlBusy /\ IsPaused
  /\ lock' = "resume" /\ grip' = <<gen, tgen>>
  /\ UNCHANGED <<queue, work, inbox, supp, gen, tgen, pause, op, kids, moving,
                 life, hist>>

Expired == grip # <<gen, tgen>>

\* Its references are loaded; the queue is restored and saved.
ResumeQueue ==
  /\ lock = "resume"
  /\ IF Expired THEN lock' = "none" /\ UNCHANGED <<pending, paused>>
       ELSE /\ lock' = "resumeSave" /\ pending' = WithRestored
            /\ paused' = Snapshot(paused, pending')
  /\ UNCHANGED <<ready, work, inbox, supp, gen, tgen, saved, grip, op, kids,
                 moving, life, hist>>

Resumption == [req |-> paused.req, resumed |-> TRUE, turn |-> paused.turn,
               sent |-> paused.sent, sup |-> paused.sup, gen |-> gen, tgen |-> tgen]

\* Mutant: the resumed queue stays closed.
ResumeClosed ==
  /\ lock = "resumeSave" /\ lock' = "none"
  /\ saved' = IF IsPaused THEN paused ELSE saved
  /\ IF Expired THEN UNCHANGED <<pending, paused>>
       ELSE pending' = <<Resumption>> \o pending /\ paused' = NoPause
  /\ UNCHANGED <<ready, work, inbox, supp, gen, tgen, grip, op, kids, moving, life, hist>>

\* Mutant: the resumed request queues up behind the others.
ResumeLast ==
  /\ lock = "resumeSave" /\ lock' = "none"
  /\ saved' = IF IsPaused THEN paused ELSE saved
  /\ IF Expired THEN UNCHANGED <<queue, paused>>
       ELSE pending' = Append(pending, Resumption) /\ paused' = NoPause /\ ready' = TRUE
  /\ UNCHANGED <<work, inbox, supp, gen, tgen, grip, op, kids, moving, life, hist>>

ResumeSave ==
  /\ lock = "resumeSave" /\ lock' = "none"
  /\ saved' = IF IsPaused THEN paused ELSE saved
  /\ IF Expired THEN UNCHANGED <<queue, paused>>
       ELSE pending' = <<Resumption>> \o pending /\ paused' = NoPause /\ ready' = TRUE
  /\ UNCHANGED <<work, inbox, supp, gen, tgen, grip, op, kids, moving, life, hist>>

-----------------------------------------------------------------------------
(* /clear, the death of the process and loading the session again.         *)

\* Mutant: the queue is kept.
ClearTurnOnly ==
  /\ up /\ ~moving /\ count["clear"] < MaxClears /\ Bump("clear")
  /\ moving' = TRUE /\ gen' = gen + 1
  /\ paused' = NoPause /\ ready' = TRUE
  /\ Enter("clear")
  /\ UNCHANGED <<pending, work, supp, saved, lock, grip, kids, up, hist>>

\* reset_session: the queue is discarded, the generation moves on.
Clear ==
  /\ up /\ ~moving /\ count["clear"] < MaxClears /\ Bump("clear")
  /\ moving' = TRUE /\ gen' = gen + 1
  /\ paused' = NoPause /\ ready' = TRUE /\ pending' = <<>>
  /\ Enter("clear")
  /\ UNCHANGED <<work, supp, saved, lock, grip, kids, up, hist>>

\* A new conversation: it has no paused turn.
ClearDone ==
  /\ op["clear"].step = "clean" /\ item = NoItem
  /\ op' = [op EXCEPT !["clear"] = IdleOp]
  /\ saved' = NoPause /\ moving' = FALSE /\ pending' = <<>> /\ ready' = TRUE
  /\ UNCHANGED <<work, inbox, supp, gen, tgen, paused, lock, grip, kids, life, hist>>

\* A write in progress may have reached the disk.
Crash ==
  /\ up /\ count["crash"] < MaxCrashes /\ Bump("crash") /\ up' = FALSE
  /\ saved' \in {saved}
       \cup (IF IsPaused /\ (at = "tsave" \/ lock \in {"submit", "resumeSave"}
                             \/ op["pause"].step = "save") THEN {paused} ELSE {})
       \cup (IF at = "clear" /\ item.tgen = tgen THEN {NoPause} ELSE {})
  /\ \/ at = "checkpoint" /\ Delivered
     \/ NotDelivered
  /\ Leave
  /\ pending' = <<>> /\ ready' = FALSE /\ paused' = NoPause
  /\ accepting' = FALSE /\ urgent' = <<>> /\ rows' = <<>>
  /\ prep' = [s \in Supplement |-> IF prep[s] = "working" THEN "cancelled" ELSE prep[s]]
  /\ lock' = "none" /\ op' = [o \in Ops |-> IdleOp] /\ kids' = FALSE /\ moving' = FALSE
  /\ UNCHANGED <<host, gen, tgen, grip, order, born, lost, stopped>>

\* bind_loaded_snapshot and restore_pause.
Load ==
  /\ ~up /\ up' = TRUE
  /\ paused' = saved /\ ready' = (saved = NoPause)
  /\ UNCHANGED <<pending, work, inbox, supp, gen, tgen, saved, ctrl, count, hist>>

-----------------------------------------------------------------------------
Turn == OpenTurn \/ Freeze \/ Taken \/ NoneLeft \/ Checkpoint \/ ToolsDone \/ EndTurn
Consumer == TakeItem \/ DropStale \/ StartTurn \/ LoseTurn \/ ClearPause
Transport == TransportPause \/ TransportSettle \/ TransportSave
Control == \/ SubmitSaved \/ PauseSettle \/ PauseSave \/ ResumeQueue \/ ResumeSave
           \/ KidsEnd \/ ClearDone
           \/ \E o \in Ops : CancelEntered(o) \/ TurnCancelled(o) \/ CancelDone(o)
User == \/ \E r \in Request : Submit(r)
        \/ \E s \in Supplement : Supply(s)
        \/ Stop \/ PauseBegin \/ ResumeBegin \/ Clear

Next == \/ User \/ Consumer \/ Turn \/ Transport \/ Control
        \/ \E s \in Supplement : Prepared(s)
        \/ ToolCall \/ FinalAnswer \/ Fail \/ TransportError
        \/ Crash \/ Load

Spec == Init /\ [][Next]_vars

\* The event loop runs every task that can go on, preparations and children
\* end, and the model does not call tools for ever.
Fairness ==
  /\ WF_vars(Consumer) /\ WF_vars(Turn) /\ WF_vars(Transport) /\ WF_vars(ToolCall \/ FinalAnswer)
  /\ SF_vars(FinalAnswer)
  /\ WF_vars(SubmitSaved) /\ WF_vars(PauseSettle) /\ WF_vars(PauseSave)
  /\ WF_vars(ResumeQueue) /\ WF_vars(ResumeSave) /\ WF_vars(KidsEnd) /\ WF_vars(ClearDone)
  /\ \A o \in Ops : WF_vars(CancelEntered(o)) /\ WF_vars(TurnCancelled(o)) /\ WF_vars(CancelDone(o))
  /\ \A s \in Supplement : WF_vars(Prepared(s))

FairSpec == Spec /\ Fairness

-----------------------------------------------------------------------------
(* Properties.                                                             *)

At(r) == CHOOSE i \in DOMAIN order : order[i] = r
Waiting == (IF item = NoItem THEN <<>> ELSE <<item>>) \o pending

\* The current and the queued requests are in the order they were given in,
\* through pauses, resumes and the restoring of a saved queue.
InOrder ==
  \A i, j \in DOMAIN Waiting : i < j => At(Waiting[i].req) <= At(Waiting[j].req)

\* A turn closes with every supplement it accepted in the model's messages,
\* unless the supplement was rejected (take_urgent, the final boundary) or
\* the turn was stopped before it could be resumed.
CompletedTurnTookAll ==
  at = "closing" /\ item.req \notin stopped =>
    \A s \in Supplement : host[s] = item.req => prep[s] = "failed" \/ seen[s] > 0

\* No input is sent to the model twice, however often its turn is paused.
HandedOverOnce == \A x \in Input : seen[x] <= 1

Quiet == up /\ lock = "none" /\ item = NoItem /\ \A o \in Ops : op[o].step = "idle"

\* A turn that rests in a pause keeps each supplement it accepted: with the
\* model, or with the pause to be sent on resume.  (/stop drops supplements.)
NoSupplementForgotten ==
  Quiet /\ IsPaused /\ paused.turn /\ paused.req \notin stopped =>
    \A s \in Supplement : host[s] = paused.req =>
      seen[s] > 0 \/ prep[s] = "failed" \/ s \in ToSet(paused.sup)

\* No supplement is forgotten, whether its turn completes or rests in a pause;
\* and with one pause none is sent twice.  A second pause that meets a resumed
\* request still being prepared breaks that (turns_again), and so does a death in
\* a turn whose first pause came before it had begun (README, section 6).
InputsReachTheModelOnce ==
  /\ CompletedTurnTookAll /\ NoSupplementForgotten
  /\ count["pause"] <= 1 /\ count["crash"] = 0 => HandedOverOnce

\* What was queued when the conversation was cleared never becomes current;
\* what was saved with a pause is never dropped from it while it rests.
QueueFollowsTheUser == [][
  /\ \A r \in Request : item.req # r /\ born[r] < gen => item'.req # r
  /\ IsPaused /\ paused' # NoPause /\ up' =>
       ToSet(paused.queued) \subseteq ToSet(paused'.queued)]_vars

\* No turn starts while child Agents of a cancelled one still act.
NoTurnBesideChildren == kids => ~HasTurn

\* A request leaves the queue for its turn, or because the user cleared it.
NoneLost == lost = {}

\* A turn that /stop ended is not in the journal as a paused one, to come back
\* after a restart.
StopIsFinal == Quiet /\ ~IsPaused /\ pending = <<>> => saved.req \notin stopped

\* A pause that rests is in the session journal, ready for a restart; a stop
\* during a transport pause breaks it (README, section 6).
PauseIsSaved == Quiet /\ IsPaused => saved = paused

\* The queue moves on unless it is paused.
QueueMoves == pending # <<>> ~> (pending = <<>> \/ IsPaused \/ ~up)
=============================================================================
