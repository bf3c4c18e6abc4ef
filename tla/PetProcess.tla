----------------------------- MODULE PetProcess ------------------------------
(***************************************************************************)
(* The desktop pet: ProcessPetService (pets/service.py) owns at most one   *)
(* child process.  Requests of several callers overlap; each that changes  *)
(* the target makes a task (_change) that works under the lock _serial and *)
(* the newest one decides.  Two more tasks follow a running child and take *)
(* the lock when it ends: "watch" (_watch) and "channel" (_send_replies,   *)
(* _read_stdout).                                                          *)
(*                                                                         *)
(* All runs on one event loop; a step goes from one await to the next.     *)
(* A request has its task's number, so _revision is the last one made.     *)
(***************************************************************************)
EXTENDS Naturals, Sequences, FiniteSets, SequencesExt

CONSTANTS
  Character,
  NoOne,        \* no target
  First,        \* the character selected at start
  MaxRequests,  \* bound: requests that make a task
  MaxBreaks     \* bound: exits, failures and cancelled callers

ASSUME PetAssumption ==
  /\ First \in Character /\ NoOne \notin Character
  /\ MaxRequests \in Nat /\ MaxBreaks \in Nat

VARIABLES
  pet,      \* _state, _target, _selected and _closed
  change,   \* the tasks of the requests
  made,     \* their number: _revision; the last is _operation
  line,     \* _serial: its holder and who waits, in order
  process,  \* _process: the task that launched it, or 0
  alive,    \* child processes that exist: by the task that launched them
  guard,    \* the tasks "watch" and "channel" of the running child
  asked,    \* history: what the last request wanted
  crossed,  \* history: a request met the end of the child (README, section 6)
  breaks

petVars == <<pet, change, made, line, process, alive, guard, asked, crossed, breaks>>

Change == 1..MaxRequests
Watch == MaxRequests + 1
Channel == MaxRequests + 2
Guard == {Watch, Channel}
Off == [at |-> "off", child |-> 0]

PetTypeOK ==
  /\ pet \in [state : {"off", "starting", "running", "stopping", "failed"},
              target : Character \cup {NoOne}, selected : Character, closed : BOOLEAN]
  /\ made \in 0..MaxRequests /\ process \in 0..MaxRequests /\ alive \subseteq Change
  /\ \A t \in Change : change[t].at \in {"none", "new", "wait", "resolve", "stop", "launch",
                                         "ready", "undo", "done"}
  /\ guard \in [Guard -> [at : {"off", "on", "wait", "stop"}, child : 0..MaxRequests]]

PetInit ==
  /\ pet = [state |-> "off", target |-> NoOne, selected |-> First, closed |-> FALSE]
  /\ change = [t \in Change |-> [at |-> "none", who |-> NoOne, enabled |-> FALSE,
                                 cancel |-> FALSE, failed |-> FALSE, left |-> FALSE]]
  /\ made = 0 /\ line = <<>> /\ process = 0 /\ alive = {}
  /\ guard = [g \in Guard |-> Off]
  /\ asked = NoOne /\ crossed = FALSE /\ breaks = 0

-----------------------------------------------------------------------------
(* _request.                                                               *)

Active == pet.state \in {"starting", "running"}
Pending == made # 0 /\ change[made].at # "done"
Reusable == IF Pending THEN ~change[made].cancel ELSE pet.state \in {"off", "running"}

Enables(action) ==
  action = "on" \/ (action = "toggle" /\ ~Active) \/ (action = "reload" /\ Active)

Chosen(action, who) ==
  CASE who # NoOne -> who
    [] who = NoOne /\ action = "reload" /\ pet.target # NoOne -> pet.target
    [] OTHER -> pet.selected

\* A plausible mistake: a target whose task was cancelled counts as reached.
SameTarget(action, target) == action # "reload" /\ target = pet.target

\* A request for what is there already, or under way, makes no task.
Same(action, target) == action # "reload" /\ target = pet.target /\ Reusable

Settle(action, who, closed, before) ==
  LET enabled == Enables(action)
      chosen  == Chosen(action, who)
      target  == IF enabled THEN chosen ELSE NoOne
  IN
  /\ asked' = target
  /\ IF Same(action, target)
       THEN pet' = [pet EXCEPT !.closed = closed] /\ change' = before /\ UNCHANGED made
       ELSE /\ made < MaxRequests /\ made' = made + 1
            /\ pet' = [pet EXCEPT
                 !.closed = closed, !.target = target,
                 !.state = CASE target = NoOne -> "stopping"
                             [] target # NoOne /\ process # 0 -> "running"
                             [] OTHER -> "starting"]
            /\ change' = [t \in Change |->
                 CASE t = made' -> [at |-> "new", enabled |-> enabled, cancel |-> FALSE,
                                    failed |-> FALSE, left |-> FALSE,
                                    who |-> IF action = "reload" THEN chosen ELSE target]
                   [] t = made /\ Pending -> [before[t] EXCEPT !.cancel = TRUE]
                   [] OTHER -> before[t]]
  /\ crossed' = (crossed \/ (action = "reload" /\ ~enabled /\ process # 0))
  /\ UNCHANGED <<line, process, alive, guard>>

Request(action, who) ==
  /\ ~pet.closed \/ action = "off"
  /\ action = "on" \/ who = NoOne
  /\ Settle(action, who, pet.closed, change) /\ UNCHANGED breaks

Close == ~pet.closed /\ Settle("off", NoOne, TRUE, change) /\ UNCHANGED breaks

\* The caller of a request is cancelled: _cancel_request ends its task ...
Abandon(t) ==
  /\ change[t].at \notin {"none", "done"} /\ ~change[t].left /\ breaks < MaxBreaks
  /\ breaks' = breaks + 1
  /\ change' = [change EXCEPT ![t].cancel = TRUE, ![t].left = TRUE]
  /\ UNCHANGED <<pet, made, line, process, alive, guard, asked, crossed>>

\* ... and stops the pet, unless another request has taken over.
Abandoned(t) ==
  /\ change[t].at = "done" /\ change[t].left
  /\ LET returned == [change EXCEPT ![t].left = FALSE] IN
       IF made = t THEN Settle("off", NoOne, pet.closed, returned)
         ELSE /\ change' = returned
              /\ UNCHANGED <<pet, made, line, process, alive, guard, asked, crossed>>
  /\ UNCHANGED breaks

-----------------------------------------------------------------------------
(* _stop_owned: the handle is dropped, both followers are cancelled, the   *)
(* child is closed, terminated or killed.                                  *)

Drop(g) ==
  /\ process' = 0
  /\ guard' = IF process = 0 THEN guard
              ELSE [h \in Guard |-> IF h = g THEN [guard[h] EXCEPT !.at = "stop"] ELSE Off]

Without(s, dropped) == SelectSeq(s, LAMBDA x : x \notin dropped)

-----------------------------------------------------------------------------
(* _change.                                                                *)

At(t, place) == change[t].at = place /\ (place # "new" => Head(line) = t)
Go(t, place) == change' = [change EXCEPT ![t].at = place]

Fallback ==
  [pet EXCEPT !.state = IF process # 0 THEN "running" ELSE "off",
              !.target = IF process # 0 THEN pet.selected ELSE NoOne]

Join(t) ==
  /\ At(t, "new")
  /\ IF change[t].cancel THEN Go(t, "done") /\ UNCHANGED line
       ELSE Go(t, "wait") /\ line' = Append(line, t)
  /\ UNCHANGED <<pet, made, process, alive, guard, asked, crossed, breaks>>

\* Cancelled while it waits for the lock, the task leaves all as it is.
Withdraw(t) ==
  /\ change[t].at = "wait" /\ change[t].cancel
  /\ Go(t, "done") /\ line' = Without(line, {t})
  /\ UNCHANGED <<pet, made, process, alive, guard, asked, crossed, breaks>>

Leave(t) == Go(t, "done") /\ line' = Tail(line)

BeginStop(t, place) ==
  /\ Go(t, place) /\ Drop(0) /\ line' = Without(line, IF process = 0 THEN {} ELSE Guard)

Enter(t) ==
  /\ At(t, "wait") /\ ~change[t].cancel
  /\ IF change[t].who # NoOne THEN Go(t, "resolve") /\ UNCHANGED <<process, guard, line>>
       ELSE BeginStop(t, "stop")
  /\ UNCHANGED <<pet, made, alive, asked, crossed, breaks>>

\* PetCatalog.resolve fails or is cancelled: what runs goes on.
ResolveFails(t) ==
  /\ At(t, "resolve")
  /\ IF change[t].cancel THEN UNCHANGED breaks
       ELSE breaks < MaxBreaks /\ breaks' = breaks + 1
  /\ pet' = IF t = made THEN Fallback ELSE pet
  /\ Leave(t)
  /\ UNCHANGED <<made, process, alive, guard, asked, crossed>>

Resolved(t) ==
  /\ At(t, "resolve") /\ ~change[t].cancel
  /\ CASE t # made \/ pet.closed -> Leave(t) /\ UNCHANGED <<pet, process, guard>>
       [] t = made /\ ~pet.closed /\ ~change[t].enabled ->
            pet' = [pet EXCEPT !.state = "off"] /\ Leave(t) /\ UNCHANGED <<process, guard>>
       [] OTHER -> BeginStop(t, "stop") /\ UNCHANGED pet
  /\ UNCHANGED <<made, alive, asked, crossed, breaks>>

\* The old child is gone.
Stopped(t) ==
  /\ At(t, "stop") /\ alive' = {}
  /\ CASE change[t].cancel -> pet' = (IF t = made THEN Fallback ELSE pet) /\ Leave(t)
       [] ~change[t].cancel /\ t # made -> Leave(t) /\ UNCHANGED pet
       [] ~change[t].cancel /\ t = made /\ change[t].who = NoOne ->
            pet' = [pet EXCEPT !.state = "off"] /\ Leave(t)
       [] OTHER -> Go(t, "launch") /\ UNCHANGED <<pet, line>>
  /\ UNCHANGED <<made, process, guard, asked, crossed, breaks>>

\* A creation that was cancelled is waited for and undone.
Launch(t) ==
  /\ At(t, "launch")
  /\ process' = t /\ alive' = alive \cup {t}
  /\ Go(t, "ready")
  /\ UNCHANGED <<pet, made, line, guard, asked, crossed, breaks>>

Ready(t) ==
  /\ At(t, "ready") /\ ~change[t].cancel /\ t \in alive
  /\ pet' = [pet EXCEPT !.selected = change[t].who, !.state = "running"]
  /\ guard' = [g \in Guard |-> [at |-> "on", child |-> t]]
  /\ Leave(t)
  /\ UNCHANGED <<made, process, alive, asked, crossed, breaks>>

\* The child cannot be created, exits, answers wrongly or not in time; or the
\* task is cancelled.
Undo(t) ==
  /\ (At(t, "launch") /\ ~change[t].cancel) \/ At(t, "ready")
  /\ IF change[t].cancel THEN change' = [change EXCEPT ![t].at = "undo"] /\ UNCHANGED breaks
       ELSE /\ change' = [change EXCEPT ![t].at = "undo", ![t].failed = TRUE]
            /\ IF t \in alive \/ change[t].at = "launch"
                 THEN breaks < MaxBreaks /\ breaks' = breaks + 1 ELSE UNCHANGED breaks
  /\ process' = 0
  /\ UNCHANGED <<pet, made, line, alive, guard, asked, crossed>>

Undone(t) ==
  /\ At(t, "undo") /\ alive' = {}
  /\ pet' = CASE t # made \/ (change[t].failed /\ change[t].cancel) -> pet
              [] t = made /\ change[t].failed /\ ~change[t].cancel -> [pet EXCEPT !.state = "failed"]
              [] OTHER -> Fallback
  /\ Leave(t)
  /\ UNCHANGED <<made, process, guard, asked, crossed, breaks>>

-----------------------------------------------------------------------------
(* _watch and _channel_failed.                                             *)

Exit ==
  /\ alive # {} /\ breaks < MaxBreaks /\ breaks' = breaks + 1
  /\ alive' = {}
  /\ UNCHANGED <<pet, change, made, line, process, guard, asked, crossed>>

Notice(g) ==
  /\ guard[g].at = "on"
  /\ IF g = Watch THEN guard[g].child \notin alive /\ UNCHANGED breaks
       ELSE guard[g].child \in alive /\ breaks < MaxBreaks /\ breaks' = breaks + 1
  /\ guard' = [guard EXCEPT ![g].at = "wait"]
  /\ line' = Append(line, g)
  /\ UNCHANGED <<pet, change, made, process, alive, asked, crossed>>

Attend(g) ==
  /\ guard[g].at = "wait" /\ Head(line) = g
  /\ IF process = guard[g].child /\ (g = Watch => pet.state = "running")
       THEN Drop(g) /\ line' = <<g>> \o Without(line, Guard)
       ELSE guard' = [guard EXCEPT ![g] = Off] /\ line' = Tail(line) /\ UNCHANGED process
  /\ UNCHANGED <<pet, change, made, alive, asked, crossed, breaks>>

\* A child that ended well was closed by the user.
Attended(g, code) ==
  /\ guard[g].at = "stop" /\ alive' = {}
  /\ g = Channel => code = 1
  /\ pet' = IF code = 0 THEN [pet EXCEPT !.state = "off", !.target = NoOne]
                        ELSE [pet EXCEPT !.state = "failed"]
  /\ crossed' = (crossed \/ (code = 0 /\ Pending))
  /\ guard' = [guard EXCEPT ![g] = Off] /\ line' = Tail(line)
  /\ UNCHANGED <<change, made, process, asked, breaks>>

-----------------------------------------------------------------------------
PetNext ==
  \/ \E action \in {"on", "off", "toggle", "reload"}, who \in Character \cup {NoOne} :
       Request(action, who)
  \/ Close \/ Exit
  \/ \E t \in Change :
       \/ Abandon(t) \/ Abandoned(t) \/ Join(t) \/ Withdraw(t) \/ Enter(t) \/ ResolveFails(t)
       \/ Resolved(t) \/ Stopped(t) \/ Launch(t) \/ Ready(t) \/ Undo(t) \/ Undone(t)
  \/ \E g \in Guard : Notice(g) \/ Attend(g) \/ \E code \in {0, 1} : Attended(g, code)

PetSpec == PetInit /\ [][PetNext]_petVars

-----------------------------------------------------------------------------
PetIsIdle ==
  /\ line = <<>> /\ \A t \in Change : change[t].at \in {"none", "done"} /\ ~change[t].left
  /\ \A g \in Guard : guard[g].at = "on" => guard[g].child \in alive

\* When all requests are done, the newest one decided: a pet that was stopped
\* has no child, and a child that lives is the one the service knows and shows.
SettledAsAsked ==
  ~crossed /\ PetIsIdle =>
    /\ asked = NoOne => alive = {}
    /\ alive \subseteq {process}
    /\ process # 0 => pet.state = "running" /\ change[process].who = pet.selected

\* No child is started beside another one.
OneChild == Cardinality(alive) <= 1
=============================================================================
