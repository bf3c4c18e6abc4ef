------------------------------ MODULE InputGate ------------------------------
(* Lines of input beside switches of the conversation: AgentCliController     *)
(* (ui/console.py) admits a line, queues it and prepares its turn, and shuts  *)
(* its gate while /clear, /load or /cd discards, picks or restores a          *)
(* conversation.  Commands do not pass the gate.                              *)
(*                                                                            *)
(* Lines are numbered as they are typed.  Pausing and resuming are            *)
(* TurnControl's: here a conversation is found paused, and may be resumed.    *)
EXTENDS Naturals, Sequences, FiniteSets

CONSTANTS MaxLines, MaxCommands,  \* bounds on lines and on commands
          MaxBreakOffs                \* bound on stops

ASSUME InputGateAssumption == {MaxLines, MaxCommands, MaxBreakOffs} \subseteq Nat

VARIABLES
  gate,     \* _ready, _active_transitions, _transition
  session,  \* _generation, the conversation, whether it is paused, since when it is being resumed,
            \* is_first_input, and whether the conversation has no title yet (fresh)
  line,     \* each line: place, and what it saw when it was typed and admitted
  turnQueue,    \* queued lines, and the one being worked on
  command,  \* each command: what, place, generation
  ran,      \* lines whose turn has begun, in which conversation, and whether it had no title
  upset     \* stops, whether two commands overlapped, whether /cd failed half way,
            \* and whether a conversation was named twice

gateVars == <<gate, session, line, turnQueue, command, ran, upset>>

Line == 1..MaxLines
Command == 1..MaxCommands
Working == {"gate", "usage", "refs", "bind", "title", "save", "prepare"}

GateInit ==
  /\ gate = [open |-> TRUE, active |-> 0, count |-> 0]
  /\ \E paused, first \in BOOLEAN :
       /\ paused => ~first
       /\ session = [gen |-> 0, conv |-> 0, paused |-> paused, resuming |-> 0,
                     first |-> first, fresh |-> first]
  /\ line = [l \in Line |-> [at |-> "off", count |-> 0, gen |-> 0, conv |-> 0, stops |-> 0]]
  /\ turnQueue = [waiting |-> <<>>, current |-> 0]
  /\ command = [c \in Command |-> [what |-> "none", at |-> "off", gen |-> <<0, 0>>]]
  /\ ran = <<>>
  /\ upset = [stops |-> 0, overlap |-> FALSE, failed |-> FALSE, renamed |-> FALSE]

-----------------------------------------------------------------------------
(* process_line, of an ordinary input.                                        *)
Locking == {l \in Line : line[l].at = "lock"}
Holder == {l \in Line : line[l].at \in {"resolve", "keep"}}
Locked == Holder # {} \/ session.resuming # 0
Typed == {l \in Line : line[l].at # "off"}
Placed(l, place) == [line EXCEPT ![l].at = place]
Dropped(places) ==
  [l \in Line |-> IF line[l].at \in places THEN [line[l] EXCEPT !.at = "dropped"] ELSE line[l]]

\* Mutant: the gate is looked at, but not whether it was shut meanwhile.
UnmovedOpen(r) == gate.open
Unmoved(r) == gate.open /\ r.count = gate.count
Accepts(r) == r.gen = session.gen

QueueInput(l) == turnQueue' = [turnQueue EXCEPT !.waiting = Append(@, l)]

\* Line l, as r, has _admission_lock.
Admission(l, r) ==
  IF ~Unmoved(r) THEN line' = [line EXCEPT ![l] = [r EXCEPT !.at = "dropped"]] /\ UNCHANGED turnQueue
  ELSE LET admit(place) == line' = [line EXCEPT ![l] = [r EXCEPT !.at = place, !.gen = session.gen]]
       IN  \/ \* no key for the model
              admit("refused") /\ UNCHANGED turnQueue
           \/ session.paused /\ admit("resolve") /\ UNCHANGED turnQueue
           \/ /\ ~session.paused /\ admit("queued")
              /\ QueueInput(l)

TypeLine ==
  \E l \in Line :
    LET r == [at |-> "lock", count |-> gate.count, gen |-> 0, conv |-> session.conv,
              stops |-> upset.stops]
        stays(place) == line' = [line EXCEPT ![l] = [r EXCEPT !.at = place]] /\ UNCHANGED turnQueue
    IN  /\ Typed = 1..l - 1
        /\ IF ~gate.open THEN stays("refused")
           ELSE IF Locked \/ Locking # {} THEN stays("lock")
           ELSE Admission(l, r)
        /\ UNCHANGED <<gate, session, command, ran, upset>>

\* The lock passes on in order.
Admit(l) ==
  /\ l \in Locking /\ ~Locked /\ \A m \in Locking : l <= m
  /\ Admission(l, line[l])
  /\ UNCHANGED <<gate, session, command, ran, upset>>

\* Beside a pause its references are awaited first, and the queue is saved.
Resolved(l) ==
  /\ line[l].at = "resolve"
  /\ \/ /\ Unmoved(line[l]) /\ Accepts(line[l])
        /\ QueueInput(l)
        /\ line' = Placed(l, IF session.paused THEN "keep" ELSE "queued")
     \/ /\ ~(Unmoved(line[l]) /\ Accepts(line[l])) /\ line' = Placed(l, "dropped") /\ UNCHANGED turnQueue
     \/ \* a reference that cannot be read
        line' = Placed(l, "refused") /\ UNCHANGED turnQueue
  /\ UNCHANGED <<gate, session, command, ran, upset>>

\* save_pause; the line is in the queue already, unless that was discarded.
Kept(l) ==
  /\ line[l].at = "keep"
  /\ LET kept == \E n \in DOMAIN turnQueue.waiting : turnQueue.waiting[n] = l
     IN  line' = Placed(l, IF kept THEN "queued" ELSE "dropped")
  /\ UNCHANGED <<gate, session, turnQueue, command, ran, upset>>

\* resume_current_turn holds the lock until the pause is over, or stays; a
\* conversation that came meanwhile is left alone.
Resume ==
  /\ session.paused /\ gate.open /\ ~Locked /\ Locking = {}
  /\ session' = [session EXCEPT !.resuming = session.gen + 1]
  /\ UNCHANGED <<gate, line, turnQueue, command, ran, upset>>

Resumed ==
  /\ session.resuming # 0
  /\ \E paused \in {session.paused} \cup (IF session.resuming = session.gen + 1 THEN {FALSE} ELSE {}) :
       session' = [session EXCEPT !.resuming = 0, !.paused = paused]
  /\ UNCHANGED <<gate, line, turnQueue, command, ran, upset>>

-----------------------------------------------------------------------------
(* _start_user_turn_from_raw_input, from the queue.                               *)
TakeLine ==
  /\ turnQueue.current = 0 /\ turnQueue.waiting # <<>> /\ ~session.paused
  /\ line[Head(turnQueue.waiting)].at = "queued"
  /\ turnQueue' = [waiting |-> Tail(turnQueue.waiting), current |-> Head(turnQueue.waiting)]
  /\ line' = Placed(Head(turnQueue.waiting), "gate")
  /\ UNCHANGED <<gate, session, command, ran, upset>>

Leaves(l, place) == line' = Placed(l, place) /\ turnQueue' = [turnQueue EXCEPT !.current = 0]

\* One await after the other; what it finds is checked after some of them.
Go(l, from, to) == line[l].at = from /\ line' = Placed(l, to) /\ UNCHANGED turnQueue
Checked(l, from, to) ==
  IF Accepts(line[l]) THEN Go(l, from, to) ELSE line[l].at = from /\ Leaves(l, "dropped")

\* The session's file is made and taken into use; nothing of it is told yet.
BindSession(l) == Go(l, "bind", "title")

PrepareTurn(l) ==
  /\ \/ gate.open /\ Checked(l, "gate", "usage")
     \/ Go(l, "usage", "refs")
     \/ Checked(l, "refs", IF session.first THEN "bind" ELSE "prepare")
     \/ line[l].at = "refs" /\ Leaves(l, "refused")
     \/ BindSession(l)
     \/ Checked(l, "title", "save")
  /\ UNCHANGED <<gate, session, command, ran, upset>>

\* The title is on record; from here it is an input like the others.
Named(l) ==
  /\ Go(l, "save", "prepare")
  /\ session' = [session EXCEPT !.first = FALSE, !.fresh = FALSE]
  /\ upset' = [upset EXCEPT !.renamed = @ \/ ~session.fresh]
  /\ UNCHANGED <<gate, command, ran>>

\* SessionController.start, to the beginning of the turn; its end does not matter here.
StartLine(l) ==
  /\ line[l].at = "prepare"
  /\ IF Accepts(line[l])
     THEN /\ ran' = Append(ran, [line |-> l, conv |-> session.conv, untitled |-> session.fresh])
          /\ Leaves(l, "ran") /\ session' = [session EXCEPT !.fresh = FALSE]
     ELSE Leaves(l, "dropped") /\ UNCHANGED <<ran, session>>
  /\ UNCHANGED <<gate, command, upset>>

-----------------------------------------------------------------------------
(* The commands: /clear, /load and /cd.                                       *)
HasTurn == turnQueue.current # 0
In(c, place) == [command EXCEPT ![c].at = place]
Over(c) == [command EXCEPT ![c].at = "over", ![c].gen = <<0, 0>>]

Ask ==
  \E c \in Command :
    /\ \A d \in Command : command[d].at = "off" <=> d >= c
    /\ \E what \in {"clear", "load", "cd"} :
         command' = [command EXCEPT ![c] = [what |-> what, at |-> "asked", gen |-> <<0, 0>>]]
    /\ UNCHANGED <<gate, session, line, turnQueue, ran, upset>>

\* Generation as a stop changes it too.
Now == <<session.gen, upset.stops>>

\* reset_session shuts the gate; whom it nests in has shut it before.
Shut(g, n) == [g EXCEPT !.open = FALSE, !.active = @ + n]
Reopen(g, n) == [g EXCEPT !.active = @ - n, !.open = g.active = n]
Counted(g) == [g EXCEPT !.count = @ + 1]

Overlapping(c) == \E d \in Command \ {c} : command[d].at \notin {"off", "asked", "over"}

Begin(c) ==
  LET what == command[c].what IN
  /\ command[c].at = "asked"
  /\ upset' = [upset EXCEPT !.overlap = @ \/ Overlapping(c)]
  /\ IF what = "clear"
     THEN gate' = Counted(Shut(gate, 1)) /\ command' = In(c, "reset")
     ELSE IF ~gate.open \/ (what = "load" /\ HasTurn)
     THEN command' = Over(c) /\ UNCHANGED gate
     ELSE IF what = "load"
     THEN /\ gate' = Shut(gate, 1)
          /\ command' = [command EXCEPT ![c].at = "list", ![c].gen = Now]
     ELSE gate' = Counted(Shut(gate, 2)) /\ command' = In(c, "reset")
  /\ UNCHANGED <<session, line, turnQueue, ran>>

\* The end of a command: what it says of the next input.
End(c, first) ==
  /\ command' = Over(c)
  /\ session' = [session EXCEPT !.first = IF first = "same" THEN @ ELSE first = "first"]

\* _choose_current_workspace: the user picks, or there is nothing to pick from.
Pick(c) ==
  /\ command[c].at = "list"
  /\ \/ /\ gate' = Reopen(gate, 1) /\ UNCHANGED upset
        /\ End(c, IF command[c].what = "cd" THEN "first" ELSE "same")
     \/ \* the list fails
        /\ gate' = Reopen(gate, 1) /\ End(c, "same")
        /\ upset' = [upset EXCEPT !.failed = @ \/ command[c].what = "cd"]
     \/ \E next \in {"restore", "renew"} :
          /\ command[c].gen = Now /\ command' = In(c, next)
          /\ gate' = Counted(Shut(gate, 1)) /\ UNCHANGED <<session, upset>>
  /\ UNCHANGED <<line, turnQueue, ran>>

\* AgentSystem.reset_session, to its first wait: all that is queued, being
\* resolved or prepared is cancelled.  Not while memory is being retried.
Discard(c) ==
  /\ command[c].at \in {"reset", "renew"}
  /\ session' = [session EXCEPT !.gen = @ + 1, !.paused = FALSE]
  /\ turnQueue' = [waiting |-> <<>>, current |-> 0]
  /\ line' = Dropped({"queued", "resolve"} \cup Working)
  /\ command' = In(c, IF command[c].at = "reset" THEN "discard" ELSE "discard2")
  /\ UNCHANGED <<gate, ran, upset>>

\* Then everything is released; or something fails, and the conversation stays.
Discarded(c) ==
  /\ command[c].at \in {"discard", "discard2"}
  /\ LET new == [session EXCEPT !.conv = @ + 1, !.fresh = TRUE]
         second == command[c].at = "discard2"
     IN  IF command[c].what = "cd" /\ ~second
         THEN /\ session' = new /\ gate' = Reopen(gate, 1)
              /\ command' = [command EXCEPT ![c].at = "list", ![c].gen = Now]
         ELSE /\ session' = [new EXCEPT !.first = TRUE]
              /\ gate' = Reopen(gate, IF second THEN 2 ELSE 1)
              /\ command' = Over(c)
  /\ turnQueue' = [turnQueue EXCEPT !.waiting = <<>>]
  /\ UNCHANGED <<line, ran, upset>>

Fails(c) ==
  /\ command[c].at \in {"reset", "renew", "discard", "discard2", "restore", "bind"}
  /\ gate' = Reopen(gate, IF command[c].what = "load" \/ command[c].at \notin {"reset", "discard"}
                             \/ command[c].what = "cd" THEN 2 ELSE 1)
  /\ End(c, IF command[c].what = "cd" /\ command[c].at \in {"restore", "bind"} THEN "first" ELSE "same")
  /\ upset' = [upset EXCEPT !.failed =
                @ \/ (command[c].what = "cd" /\ command[c].at \in {"renew", "discard2"})]
  /\ UNCHANGED <<line, turnQueue, ran>>

\* bind_loaded_snapshot: read and repaired, then bound, then installed without a wait.
Restore(c) ==
  /\ command[c].at = "restore" /\ command' = [command EXCEPT ![c].at = "bind", ![c].gen = Now]
  /\ UNCHANGED <<gate, session, line, turnQueue, ran, upset>>

Install(c) ==
  /\ command[c].at = "bind" /\ command[c].gen = Now
  /\ \E paused \in BOOLEAN :
       session' = [session EXCEPT !.gen = @ + 1, !.conv = @ + 1, !.paused = paused,
                                  !.first = FALSE, !.fresh = FALSE]
  /\ line' = Dropped({"queued", "resolve"})
  /\ turnQueue' = [turnQueue EXCEPT !.waiting = <<>>]
  /\ command' = In(c, "release")
  /\ UNCHANGED <<gate, ran, upset>>

\* What belonged to the conversation before is released.
Released(c) ==
  /\ command[c].at = "release"
  /\ gate' = Reopen(gate, 2) /\ End(c, "later")
  /\ UNCHANGED <<line, turnQueue, ran, upset>>

\* /stop: the input being prepared, and what is still resolved beside a pause.
StopLines ==
  /\ upset.stops < MaxBreakOffs /\ upset' = [upset EXCEPT !.stops = @ + 1]
  /\ line' = Dropped({"resolve"} \cup Working)
  /\ turnQueue' = [turnQueue EXCEPT !.current = 0]
  /\ UNCHANGED <<gate, session, command, ran>>

GateNext ==
  \/ TypeLine \/ Resume \/ Resumed \/ TakeLine \/ Ask \/ StopLines
  \/ \E l \in Line : Admit(l) \/ Resolved(l) \/ Kept(l) \/ PrepareTurn(l) \/ Named(l) \/ StartLine(l)
  \/ \E c \in Command : \/ Begin(c) \/ Pick(c) \/ Discard(c) \/ Discarded(c) \/ Fails(c)
                        \/ Restore(c) \/ Install(c) \/ Released(c)

GateSpec == GateInit /\ [][GateNext]_gateVars

-----------------------------------------------------------------------------
(* What a user may rely on.                                                   *)
RanWhereTyped == \A n \in DOMAIN ran : ran[n].conv = line[ran[n].line].conv
RanInOrder == \A n \in 2..Len(ran) : ran[n - 1].line < ran[n].line

\* A line is put aside only for a command that shut the gate since it was typed, or a stop.
PutAside(l) ==
  \/ gate.count # line[l].count \/ upset.stops # line[l].stops
  \/ \E c \in Command : command[c].what = "load" /\ command[c].at \notin {"off", "asked"}

\* The first input of a conversation names it, and no later one does.  Two
\* commands at once, or a /cd that fails half way, break this.
NamedByItsFirst ==
  ~(upset.overlap \/ upset.failed) =>
    (\A n \in DOMAIN ran : ~ran[n].untitled) /\ ~upset.renamed

GateIsOpenAgain ==
  /\ gate.open <=> gate.active = 0
  /\ (\A c \in Command : command[c].at \in {"off", "asked", "over"}) => gate.open

\* An input runs in the conversation it was typed into and in the order of
\* typing, the first of a conversation under a title of its own; none is put
\* aside without a reason the user gave; and the gate is open whenever no
\* command is at work (process_line, reset_session, enter_current_workspace).
InputsStayInTheirConversation ==
  /\ RanWhereTyped /\ RanInOrder /\ NamedByItsFirst /\ GateIsOpenAgain
  /\ \A l \in Line : line[l].at = "dropped" => PutAside(l)
=============================================================================
