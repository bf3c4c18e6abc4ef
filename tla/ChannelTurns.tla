---------------------------- MODULE ChannelTurns -----------------------------
(***************************************************************************)
(* Messages of one chat of a channel (api/base.py, ChannelCommands in      *)
(* api/__init__.py).  Each message is admitted to the session the chat has *)
(* at that moment, prepared beside the queue, and answered through the     *)
(* delivery that was kept for it.  A reset puts a new session in the       *)
(* chat's place at once and closes the former one beside it; /load puts    *)
(* the saved records of another session in it.                             *)
(*                                                                         *)
(* All runs on one event loop.  What a turn does is TurnControl; here it   *)
(* begins and ends.  Messages that the inbox of a running turn takes, and  *)
(* answers to its questions, are not modelled.                             *)
(***************************************************************************)
EXTENDS Naturals, Sequences, FiniteSets, SequencesExt

CONSTANTS
  MaxMessages,  \* bound: messages, numbered as they arrive
  MaxResets,    \* bound: resets
  MaxHolds      \* bound: pauses

ASSUME ChannelAssumption == MaxMessages \in Nat /\ MaxResets \in Nat /\ MaxHolds \in Nat

VARIABLES
  chat,        \* _sessions: the session the chat has; each reset makes one
  talk,        \* the sessions
  closing,     \* the session that is being closed before a new one may work
  capture,     \* the preparation of each message
  arrived,     \* messages admitted so far
  paper,       \* paused_turn in the records of each session
  over,        \* history: messages answered, refused or given up by the user
  dropped,     \* history: those of them that a reset gave up
  answered,    \* history: messages answered
  loaded,      \* history: paused messages that came back by /load
  overlapped,  \* history: a reset or /load came while another one was closing
  holds

chatVars == <<chat, talk, closing, capture, arrived, paper, over, dropped, answered, loaded,
              overlapped, holds>>

Message == 1..MaxMessages
Talk == 1..(MaxResets + 1)
None == 0

ChatTypeOK ==
  /\ chat \in Talk /\ closing \in [Talk -> 0..MaxResets] /\ arrived \in 0..MaxMessages
  /\ talk \in [Talk -> [line : Seq(Message), turn : 0..MaxMessages, at : {"idle", "wait", "run"},
                        open : BOOLEAN, paused : 0..MaxMessages, resumed : BOOLEAN,
                        replies : SUBSET Message, record : Talk]]
  /\ capture \in [Message -> {"none", "busy", "ready", "cancelled"}]
  /\ over \cup dropped \cup answered \cup loaded \subseteq Message

NewTalk(n) == [line |-> <<>>, turn |-> None, at |-> "idle", open |-> TRUE, paused |-> None,
               resumed |-> FALSE, replies |-> {}, record |-> n]

ChatInit ==
  /\ chat = 1 /\ talk = [n \in Talk |-> NewTalk(n)] /\ closing = [n \in Talk |-> 0]
  /\ capture = [i \in Message |-> "none"] /\ arrived = 0
  /\ paper = [n \in Talk |-> None]
  /\ over = {} /\ dropped = {} /\ answered = {} /\ loaded = {} /\ overlapped = FALSE /\ holds = 0

Here == talk[chat]
Working(n) == talk[n].turn # None
IsHead(n, i) == talk[n].line # <<>> /\ Head(talk[n].line) = i

-----------------------------------------------------------------------------
(* dispatch_user_message and _submit_turn: the queue is joined before the  *)
(* first await, the message is prepared beside it.                         *)

Dispatch ==
  /\ arrived < MaxMessages /\ arrived' = arrived + 1
  /\ talk' = [talk EXCEPT ![chat].line = Append(@, arrived'), ![chat].replies = @ \cup {arrived'}]
  /\ capture' = [capture EXCEPT ![arrived'] = "busy"]
  /\ UNCHANGED <<chat, closing, paper, over, dropped, answered, loaded, overlapped, holds>>

Capture(i) ==
  /\ capture[i] = "busy" /\ capture' = [capture EXCEPT ![i] = "ready"]
  /\ UNCHANGED <<chat, talk, closing, arrived, paper, over, dropped, answered, loaded, overlapped, holds>>

-----------------------------------------------------------------------------
(* _consume_turn, called by the consumer of the session's queue.           *)

Freed(n, t) == [talk EXCEPT ![n] = [t EXCEPT !.turn = None, !.at = "idle", !.resumed = FALSE]]

\* resumed: the pause is taken off the records when its turn is over.
TakeOffRecord(n) ==
  paper' = IF n = chat /\ talk[n].resumed THEN [paper EXCEPT ![talk[n].record] = None] ELSE paper

TakeMessage(n, i) ==
  /\ IsHead(n, i) /\ talk[n].open /\ ~Working(n)
  /\ talk' = [talk EXCEPT ![n].line = Tail(@), ![n].turn = i, ![n].at = "wait",
                          ![n].resumed = (i = paper[talk[n].record])]
  /\ UNCHANGED <<chat, closing, capture, arrived, paper, over, dropped, answered, loaded, overlapped, holds>>

\* The delivery is looked up: without one the turn fails and nobody is told.
NoDelivery(n) ==
  LET t == talk[n] IN
  /\ t.at = "wait" /\ t.turn \notin t.replies
  /\ talk' = Freed(n, t) /\ TakeOffRecord(n)
  /\ UNCHANGED <<chat, closing, capture, arrived, over, dropped, answered, loaded, overlapped, holds>>

\* A preparation that was cancelled is made up for here.
BeginTurn(n) ==
  LET t == talk[n] IN
  /\ t.at = "wait" /\ t.turn \in t.replies /\ capture[t.turn] \in {"ready", "cancelled"}
  /\ talk' = [talk EXCEPT ![n].at = "run"]
  /\ UNCHANGED <<chat, closing, capture, arrived, paper, over, dropped, answered, loaded, overlapped, holds>>

\* The result, or the error, is sent unless another session has the chat.
EndTurn(n) ==
  LET t == talk[n] IN
  /\ t.at \in {"wait", "run"} /\ t.turn \in t.replies
  /\ t.at = "wait" => capture[t.turn] = "busy"
  /\ over' = over \cup {t.turn}
  /\ answered' = IF n = chat THEN answered \cup {t.turn} ELSE answered
  /\ talk' = Freed(n, [t EXCEPT !.replies = @ \ {t.turn}]) /\ TakeOffRecord(n)
  /\ UNCHANGED <<chat, closing, capture, arrived, dropped, loaded, overlapped, holds>>

\* The transport fails: the turn is paused, its delivery and the queue stay.
\* SessionController.reset cancels what is being prepared.
TransportFails ==
  LET t == Here IN
  /\ t.at = "run" /\ holds < MaxHolds /\ holds' = holds + 1
  /\ talk' = Freed(chat, [t EXCEPT !.paused = t.turn, !.open = FALSE])
  /\ paper' = [paper EXCEPT ![t.record] = t.turn]
  /\ capture' = [i \in Message |-> IF capture[i] = "busy" THEN "cancelled" ELSE capture[i]]
  /\ UNCHANGED <<chat, closing, arrived, over, dropped, answered, loaded, overlapped>>

-----------------------------------------------------------------------------
(* Commands.                                                               *)

\* /resume: the paused message goes before the queue and is taken at once.
Resume ==
  LET t == Here
      first == [t EXCEPT !.paused = None, !.open = TRUE]
  IN
  /\ t.paused # None
  /\ talk' = [talk EXCEPT ![chat] =
       IF Working(chat) THEN [first EXCEPT !.line = <<t.paused>> \o @]
         ELSE [first EXCEPT !.turn = t.paused, !.at = "wait", !.resumed = TRUE]]
  /\ capture' = [capture EXCEPT ![t.paused] = "ready"]
  /\ UNCHANGED <<chat, closing, arrived, paper, over, dropped, answered, loaded, overlapped, holds>>

\* /stop: the turn is cancelled, the queue goes on.
StopTurn ==
  LET t == Here IN
  /\ Working(chat)
  /\ over' = over \cup {t.turn}
  /\ talk' = Freed(chat, [t EXCEPT !.replies = @ \ {t.turn}])
  /\ capture' = [i \in Message |-> IF capture[i] = "busy" THEN "cancelled" ELSE capture[i]]
  /\ UNCHANGED <<chat, closing, arrived, paper, dropped, answered, loaded, overlapped, holds>>

\* /clear, /reset and /end: the new session waits until the former is closed.
\* "preserve": the messages in the queue are submitted to the new one.
Reset(preserve) ==
  LET old == Here
      n   == chat + 1
      moved == IF preserve THEN old.line ELSE <<>>
      gone  == {old.turn, old.paused} \cup (ToSet(old.line) \ ToSet(moved))
  IN
  /\ chat <= MaxResets /\ chat' = n
  /\ ToSet(moved) \subseteq old.replies
  /\ talk' = [talk EXCEPT ![chat].line = <<>>, ![chat].paused = None, ![chat].open = TRUE,
                          ![n].line = moved, ![n].replies = ToSet(moved), ![n].open = FALSE]
  /\ closing' = [closing EXCEPT ![n] = chat]
  /\ over' = over \cup (gone \ {None}) /\ dropped' = dropped \cup (gone \ {None})
  /\ capture' = [i \in Message |-> IF i \in ToSet(moved) THEN "busy" ELSE capture[i]]
  /\ overlapped' = (overlapped \/ closing[chat] # 0)
  /\ UNCHANGED <<arrived, paper, answered, loaded, holds>>

\* _close_session: the turn that runs is cancelled and waited for.
CancelOld(n) ==
  LET old == closing[n] IN
  /\ old # 0 /\ Working(old)
  /\ talk' = Freed(old, talk[old])
  /\ UNCHANGED <<chat, closing, capture, arrived, paper, over, dropped, answered, loaded, overlapped, holds>>

\* A plausible mistake: the new session is let go before the former has stopped.
ClosedEarly(n) ==
  /\ closing[n] # 0
  /\ closing' = [closing EXCEPT ![n] = 0]
  /\ talk' = [talk EXCEPT ![n].open = TRUE]
  /\ UNCHANGED <<chat, capture, arrived, paper, over, dropped, answered, loaded, overlapped, holds>>

Closed(n) ==
  /\ closing[n] # 0 /\ ~Working(closing[n])
  /\ closing' = [closing EXCEPT ![n] = 0]
  /\ talk' = [talk EXCEPT ![n].open = TRUE]
  /\ UNCHANGED <<chat, capture, arrived, paper, over, dropped, answered, loaded, overlapped, holds>>

\* /load: not while a turn runs.  The queue and all deliveries are dropped.
LoadRecord(r) ==
  LET t == Here
      i == paper[r]
      held == {t.paused} \ {None, i}
  IN
  /\ ~Working(chat) /\ i # None
  /\ talk' = [talk EXCEPT ![chat] =
       [t EXCEPT !.line = <<>>, !.replies = {}, !.paused = i, !.open = FALSE, !.record = r]]
  /\ over' = (over \cup ToSet(t.line) \cup held) \ {i}
  /\ loaded' = loaded \cup {i} /\ dropped' = dropped \ {i}
  /\ overlapped' = (overlapped \/ closing[chat] # 0)
  /\ UNCHANGED <<chat, closing, capture, arrived, paper, answered, holds>>

-----------------------------------------------------------------------------
ChatNext ==
  \/ Dispatch \/ TransportFails \/ Resume \/ StopTurn
  \/ \E i \in Message : Capture(i)
  \/ \E n \in Talk :
       \/ NoDelivery(n) \/ BeginTurn(n) \/ EndTurn(n) \/ CancelOld(n) \/ Closed(n) \/ LoadRecord(n)
       \/ \E i \in Message : TakeMessage(n, i)
  \/ \E preserve \in BOOLEAN : Reset(preserve)

ChatSpec == ChatInit /\ [][ChatNext]_chatVars

-----------------------------------------------------------------------------
Due == (IF Working(chat) THEN <<Here.turn>> ELSE <<>>) \o Here.line

\* Through resets that keep the queue, pauses and slow preparations, messages
\* are taken in the order they came, none is forgotten, none of a session that
\* was reset is answered, and a new session works when the former has stopped
\* (_reset_session, _submit_turn).  Left out: the order of what /load brought
\* back, and a reset or /load while the former session is still being closed,
\* which breaks each of the four (README, section 6).
ChatKeepsItsMessages ==
  ~overlapped =>
    /\ \A k, l \in DOMAIN Due : k < l => Due[k] < Due[l] \/ Due[k] \in loaded
    /\ \A i \in 1..arrived : i \notin over \cup loaded => i \in ToSet(Due) \cup {Here.paused}
    /\ answered \cap dropped = {}
    /\ Working(chat) => \A n \in Talk \ {chat} : ~Working(n)

\* "Pausing keeps the request" (docs/design.md:93): a message that was paused and
\* that /load brought back is held until its turn ends.
LoadedPauseIsKept ==
  \A i \in loaded \ over : i \in ToSet(Due) \cup {Here.paused} \cup {paper[n] : n \in Talk}
=============================================================================
