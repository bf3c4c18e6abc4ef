----------------------------- MODULE PetReplies ------------------------------
(* What the desktop pet shows of a reply: CoordinatorStreamHandler            *)
(* (core/gateway.py) publishes it to ProcessPetService (pets/service.py),     *)
(* whose one sender writes the latest snapshot to the pipe of the child; a    *)
(* thread of the child (ParentPipe, pets/desktop.py) keeps the latest one for *)
(* its window, where ReplyBubble shows it.                                    *)
(*                                                                            *)
(* Replies are numbered as they begin.  A text is the sequence of its pieces; *)
(* only the last Kept of them are kept, and the whole output is Whole.        *)
EXTENDS Naturals, Sequences

CONSTANTS MaxReplies, MaxPieces,  \* bounds on replies and on the pieces of one
          Kept,                   \* pieces that are kept: MAX_REPLY
          PipeSize,               \* snapshots before the writer has to wait
          MaxChildren,            \* bound on children
          MaxUpsets               \* bound on session switches, stops, deaths and what the user closes

ASSUME PetReplyAssumption ==
  {MaxReplies, MaxPieces, Kept, PipeSize, MaxChildren, MaxUpsets} \subseteq Nat \ {0}

VARIABLES
  era,     \* the session's generation and turn generation
  reply,    \* the handler of the current stream: number, place, its session, what it told
  service,  \* the snapshot: id, text, phase, seq; what waits for the sender; the child
  sender,   \* _send_replies: place and message
  pipe,     \* snapshots on their way
  reader,   \* what its reader keeps for the window
  bubble,   \* ReplyBubble
  upsets

petReplyVars == <<era, reply, service, sender, pipe, reader, bubble, upsets>>

Whole == 0
NoMessage == <<>>
Over == {"done", "cancelled", "failed"}
Lasting(text) == IF Len(text) > Kept THEN SubSeq(text, Len(text) - Kept + 1, Len(text)) ELSE text

NoSender == [at |-> "off", message |-> NoMessage]
NewChild == [pending |-> NoMessage, scheduled |-> FALSE, seq |-> 0]
NewBubble == [id |-> 0, hidden |-> 0, seq |-> 0, phase |-> "streaming", text |-> <<>>, cut |-> FALSE,
              visible |-> FALSE, hover |-> FALSE, timer |-> FALSE]

PetReplyInit ==
  /\ era = [gen |-> 0, turn |-> 0]
  /\ reply = [id |-> 0, at |-> "over", era |-> [gen |-> 0, turn |-> 0], told |-> 0, started |-> FALSE]
  /\ service = [running |-> FALSE, alive |-> FALSE, child |-> 0, id |-> 0, last |-> 0, text |-> <<>>,
                cut |-> FALSE, phase |-> "clear", seq |-> 0, pending |-> NoMessage]
  /\ sender = NoSender /\ pipe = <<>> /\ reader = NewChild /\ bubble = NewBubble /\ upsets = 0

-----------------------------------------------------------------------------
(* ProcessPetService, on the loop.                                            *)
Cleared(s) == [s EXCEPT !.id = 0, !.text = <<>>, !.phase = "clear", !.cut = FALSE, !.pending = NoMessage]

Queued(s) ==
  LET n == s.seq + 1
  IN  [s EXCEPT !.seq = n, !.pending = [id |-> s.id, phase |-> s.phase, text |-> s.text, cut |-> s.cut, seq |-> n]]

\* publish_reply, phase by phase.
Begun(s, r) ==
  IF r <= s.last THEN s
  ELSE IF ~s.running THEN [s EXCEPT !.last = r]
  ELSE Queued([Cleared(s) EXCEPT !.last = r, !.id = r, !.phase = "streaming"])

\* Only of the reply that runs, from its start on.
Accepts(s, r) == s.running /\ r = s.id /\ s.phase = "streaming"

Told(s, r, piece) ==
  IF Accepts(s, r)
  THEN Queued([s EXCEPT !.text = Lasting(Append(@, piece)), !.cut = @ \/ Len(s.text) + 1 > Kept])
  ELSE s

Concluded(s, r, phase, text) ==
  IF Accepts(s, r)
  THEN Queued(IF phase = "done" THEN [s EXCEPT !.phase = phase, !.text = text, !.cut = FALSE]
              ELSE [s EXCEPT !.phase = phase])
  ELSE s

-----------------------------------------------------------------------------
(* CoordinatorStreamHandler.                                                  *)
OfSession == reply.era.gen = era.gen
Current == reply.era = era
Starting(s) == IF reply.started THEN s ELSE Begun(s, reply.id)

OpenReply ==
  /\ reply.at = "over" /\ reply.id < MaxReplies
  /\ reply' = [id |-> reply.id + 1, at |-> "open", era |-> era, told |-> 0, started |-> FALSE]
  /\ UNCHANGED <<era, service, sender, pipe, reader, bubble, upsets>>

\* __call__ and _feed_reply; a piece of an ended turn is dropped.
Piece ==
  /\ reply.at = "open" /\ Current /\ reply.told < MaxPieces
  /\ service' = Told(Starting(service), reply.id, reply.told + 1)
  /\ reply' = [reply EXCEPT !.told = @ + 1, !.started = TRUE]
  /\ UNCHANGED <<era, sender, pipe, reader, bubble, upsets>>

\* finish_reply("done"), with the output of the run.
FinishReply ==
  /\ reply.at = "open" /\ Current
  /\ \E text \in {<<>>, <<Whole>>} :
       service' = IF reply.started \/ text # <<>>
                  THEN Concluded(Starting(service), reply.id, "done", text) ELSE service
  /\ reply' = [reply EXCEPT !.at = "over"]
  /\ UNCHANGED <<era, sender, pipe, reader, bubble, upsets>>

\* It fails or is cancelled: what the filter still held is told first; another
\* session hears nothing of it.
BreakReply ==
  /\ reply.at = "open"
  /\ \E phase \in {"cancelled", "failed"}, held \in BOOLEAN :
       LET rest == IF held THEN Told(Starting(service), reply.id, reply.told + 1) ELSE service
       IN  service' = IF OfSession /\ (reply.started \/ held)
                      THEN Concluded(rest, reply.id, phase, <<>>) ELSE service
  /\ reply' = [reply EXCEPT !.at = "over"]
  /\ UNCHANGED <<era, sender, pipe, reader, bubble, upsets>>

\* /stop.
StopReply ==
  /\ upsets < MaxUpsets /\ upsets' = upsets + 1
  /\ era' = [era EXCEPT !.turn = @ + 1]
  /\ UNCHANGED <<reply, service, sender, pipe, reader, bubble>>

\* reset_session: clear_reply, then another session, without an await between.
LeaveSession ==
  /\ upsets < MaxUpsets /\ upsets' = upsets + 1
  /\ era' = [gen |-> era.gen + 1, turn |-> era.turn + 1]
  /\ service' = IF service.running THEN Queued(Cleared(service)) ELSE Cleared(service)
  /\ UNCHANGED <<reply, sender, pipe, reader, bubble>>

-----------------------------------------------------------------------------
(* The life of the child, as far as replies see it (PetProcess has the rest).*)
LaunchPet ==
  /\ ~service.running \/ (~service.alive /\ sender = NoSender)
  /\ service.child < MaxChildren
  /\ service' = [service EXCEPT !.running = TRUE, !.alive = TRUE, !.child = @ + 1]
  /\ sender' = [NoSender EXCEPT !.at = "wait"]
  /\ pipe' = <<>> /\ reader' = NewChild /\ bubble' = NewBubble
  /\ UNCHANGED <<era, reply, upsets>>

\* _stop_owned: asked for, or because the channel failed or the child ended.
StopPet ==
  /\ service.running
  /\ service' = [Cleared(service) EXCEPT !.running = FALSE, !.alive = FALSE]
  /\ sender' = NoSender /\ pipe' = <<>> /\ reader' = NewChild /\ bubble' = NewBubble
  /\ UNCHANGED <<era, reply, upsets>>

\* A switch or a reload: the state stays "running", and what is said before the next child
\* is ready waits for it.
ReplacePet ==
  /\ service.running /\ service.child < MaxChildren
  /\ service' = [Cleared(service) EXCEPT !.alive = FALSE]
  /\ sender' = NoSender /\ pipe' = <<>> /\ reader' = NewChild /\ bubble' = NewBubble
  /\ UNCHANGED <<era, reply, upsets>>

PetDies ==
  /\ service.alive /\ upsets < MaxUpsets /\ upsets' = upsets + 1
  /\ service' = [service EXCEPT !.alive = FALSE]
  /\ reader' = NewChild /\ bubble' = NewBubble
  /\ UNCHANGED <<era, reply, sender, pipe>>

-----------------------------------------------------------------------------
(* _send_replies.                                                             *)
TakeSnapshot ==
  /\ sender.at = "wait" /\ service.pending # NoMessage
  /\ sender' = [at |-> "dump", message |-> service.pending]
  /\ service' = [service EXCEPT !.pending = NoMessage]
  /\ UNCHANGED <<era, reply, pipe, reader, bubble, upsets>>

\* Mutant: what waits is withdrawn when the message goes out.
DumpedLate ==
  /\ sender.at = "dump" /\ service' = [service EXCEPT !.pending = NoMessage]
  /\ IF sender.message.id = service.id
     THEN pipe' = Append(pipe, sender.message) /\ sender' = [sender EXCEPT !.at = "drain"]
     ELSE sender' = [sender EXCEPT !.at = "wait"] /\ UNCHANGED pipe
  /\ UNCHANGED <<era, reply, reader, bubble, upsets>>

\* The text is ready, from a thread; meanwhile the reply may be another one.
Dumped ==
  /\ sender.at = "dump" /\ UNCHANGED service
  /\ IF sender.message.id = service.id
     THEN pipe' = Append(pipe, sender.message) /\ sender' = [sender EXCEPT !.at = "drain"]
     ELSE sender' = [sender EXCEPT !.at = "wait"] /\ UNCHANGED pipe
  /\ UNCHANGED <<era, reply, reader, bubble, upsets>>

PipeDrained ==
  /\ sender.at = "drain" /\ Len(pipe) < PipeSize
  /\ sender' = [sender EXCEPT !.at = "wait"]
  /\ UNCHANGED <<era, reply, service, pipe, reader, bubble, upsets>>

-----------------------------------------------------------------------------
(* The child: its reader, and the window's thread.                            *)
ReadPipe ==
  /\ service.alive /\ pipe # <<>> /\ pipe' = Tail(pipe)
  /\ reader' = IF Head(pipe).seq > reader.seq
              THEN [pending |-> Head(pipe), scheduled |-> TRUE, seq |-> Head(pipe).seq] ELSE reader
  /\ UNCHANGED <<era, reply, service, sender, bubble, upsets>>

\* apply_snapshot.
Applied(b, m) ==
  LET fresh == m.id # b.id
      hidden == IF fresh THEN 0 ELSE b.hidden
      known == [b EXCEPT !.seq = m.seq, !.id = m.id, !.hidden = hidden, !.phase = m.phase]
  IN  IF m.phase = "clear" \/ m.text = <<>> \/ hidden = m.id
      THEN [known EXCEPT !.visible = FALSE, !.timer = FALSE]
      ELSE [known EXCEPT !.visible = TRUE, !.text = m.text, !.cut = m.cut,
              !.timer = IF fresh \/ m.phase # b.phase THEN m.phase # "streaming" /\ ~b.hover ELSE @]

ShowSnapshot ==
  /\ service.alive /\ reader.scheduled
  /\ reader' = [reader EXCEPT !.pending = NoMessage, !.scheduled = FALSE]
  /\ bubble' = IF reader.pending.seq > bubble.seq THEN Applied(bubble, reader.pending) ELSE bubble
  /\ UNCHANGED <<era, reply, service, sender, pipe, upsets>>

PointerOver ==
  /\ bubble.visible /\ ~bubble.hover
  /\ bubble' = [bubble EXCEPT !.hover = TRUE, !.timer = FALSE]
  /\ UNCHANGED <<era, reply, service, sender, pipe, reader, upsets>>

\* Also when the bubble is hidden under it.
PointerAway ==
  /\ bubble.hover
  /\ bubble' = [bubble EXCEPT !.hover = FALSE, !.timer = @ \/ (bubble.phase # "streaming" /\ bubble.visible)]
  /\ UNCHANGED <<era, reply, service, sender, pipe, reader, upsets>>

Hidden == [bubble EXCEPT !.hidden = bubble.id, !.hover = FALSE, !.timer = FALSE, !.visible = FALSE]

TimeIsUp ==
  /\ bubble.timer /\ bubble' = Hidden
  /\ UNCHANGED <<era, reply, service, sender, pipe, reader, upsets>>

UserCloses ==
  /\ bubble.visible /\ upsets < MaxUpsets /\ upsets' = upsets + 1 /\ bubble' = Hidden
  /\ UNCHANGED <<era, reply, service, sender, pipe, reader>>

PetReplyNext ==
  \/ OpenReply \/ Piece \/ FinishReply \/ BreakReply \/ StopReply \/ LeaveSession
  \/ LaunchPet \/ StopPet \/ ReplacePet \/ PetDies \/ TakeSnapshot \/ Dumped \/ PipeDrained
  \/ ReadPipe \/ ShowSnapshot \/ PointerOver \/ PointerAway \/ TimeIsUp \/ UserCloses

-----------------------------------------------------------------------------
(* A reply is told from its beginning and without a gap, or not at all, also  *)
(* by a pet that is started, stopped or restarted while it is told; and its   *)
(* beginning is left out only with a notice.                                  *)
ToldWithoutGaps ==
  bubble.visible /\ bubble.text # <<Whole>> =>
    \E n \in 1..MaxPieces + 1 :
      bubble.text = Lasting([i \in 1..n |-> i]) /\ (bubble.cut <=> n > Kept)

(* What has ended does not stay for ever, and what was closed stays closed.   *)
EndedRepliesGo ==
  bubble.visible =>
    /\ bubble.phase # "streaming" => bubble.timer \/ bubble.hover
    /\ bubble.hidden # bubble.id

Rests == service.running /\ service.alive /\ service.phase # "streaming"
Arrived ==
  service.pending = NoMessage /\ sender.at = "wait" /\ pipe = <<>> /\ ~reader.scheduled

Agrees ==
  IF service.text = <<>> THEN ~bubble.visible
  ELSE /\ bubble.id = service.id /\ bubble.phase = service.phase
       /\ bubble.hidden = bubble.id \/ (bubble.visible /\ bubble.text = service.text)

(* The end of each reply is shown, and what another session said is gone,     *)
(* although snapshots are dropped and overtaken on the way.                   *)
EndIsShown == Rests /\ Arrived => Agrees

PetTellsReplies == ToldWithoutGaps /\ EndedRepliesGo /\ EndIsShown
=============================================================================
