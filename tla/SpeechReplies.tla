---------------------------- MODULE SpeechReplies ----------------------------
(* The spoken replies of one session (TTS/tts.py, inference.py, audio.py,     *)
(* core/gateway.py, sessions/control.py): a response of the model feeds text  *)
(* to a reply; the replies queue up by their predecessor and play one after   *)
(* the other, each with a thread that fills a short queue of sound.           *)
(*                                                                            *)
(* One delta of text is one segment of Windows blocks of sound.               *)
EXTENDS Naturals, FiniteSets

CONSTANTS MaxReplies,   \* bound on replies
          MaxDeltas,    \* bound on deltas fed to one reply
          TextChars,    \* text_chars, in deltas
          QueueSize,    \* queue_size: replies that may wait
          Windows,      \* blocks of sound of a segment
          Capacity,     \* blocks in the queue between thread and player
          MaxStops,     \* bound on stops
          MaxBreaks     \* bound on failures of the synthesis or the device

ASSUME RepliesAssumption ==
  /\ {MaxReplies, MaxDeltas, TextChars, QueueSize, Windows, Capacity, MaxStops, MaxBreaks} \subseteq Nat
  /\ Windows > 0 /\ Capacity > 0

VARIABLES
  reply,     \* each SpeechReply with its task
  producer,  \* its thread: place, blocks left of the segment
  pcm,       \* blocks in its queue
  player,    \* AudioPlayer._play_task, or 0
  response,  \* the response being streamed: its reply, whether its voice failed
  tail,      \* SessionController._voice_tail
  stop,      \* the last stop task: which replies it ends, whom it waits for
  stops, breaks \* counters

replyVars == <<reply, producer, pcm, player, response, tail, stop, stops, breaks>>

Reply == 1..MaxReplies
Stopper == MaxReplies + 1
Unborn == [at |-> "off", pred |-> 0, fed |-> 0, text |-> 0, end |-> FALSE, cancel |-> FALSE,
           asked |-> FALSE, dropped |-> FALSE, out |-> "none", said |-> 0]

RepliesTypeOK ==
  /\ \A r \in Reply : /\ reply[r].at \in {"off", "created", "await", "play", "shut", "done"}
                      /\ reply[r].out \in {"none", "ok", "cancelled", "failed"}
                      /\ producer[r].at \in {"off", "read", "generate", "failed", "ended"}
  /\ pcm \in [Reply -> 0..Capacity] /\ player \in 0..MaxReplies /\ tail \in 0..Stopper

RepliesInit ==
  /\ reply = [r \in Reply |-> Unborn]
  /\ producer = [r \in Reply |-> [at |-> "off", left |-> 0]]
  /\ pcm = [r \in Reply |-> 0] /\ player = 0
  /\ response = [open |-> FALSE, reply |-> 0, mute |-> FALSE]
  /\ tail = 0 /\ stop = [mark |-> 0, waits |-> 0] /\ stops = 0 /\ breaks = 0

Alive == {r \in Reply : reply[r].at \notin {"off", "done"}}
Over == LET done == {0} \cup {r \in Reply : reply[r].at = "done"} IN
        done \cup (IF stop.waits \in done THEN {Stopper} ELSE {})
Chars(r) == reply[r].text + (IF producer[r].at = "generate" THEN 1 ELSE 0)

\* Task.cancel reaches the task that a waiting task awaits: its predecessor.
Reached[r \in 0..Stopper] ==
  IF r \notin Reply THEN {} ELSE {r} \cup (IF reply[r].at = "await" THEN Reached[reply[r].pred] ELSE {})

Signal(row) == [row EXCEPT !.cancel = row.at \notin {"off", "done"}]

\* SpeechReply.cancel, by its response: the text goes, the task is cancelled.
CancelReply(r) ==
  reply' = [t \in Reply |->
    LET row == IF t \in Reached[r] THEN Signal(reply[t]) ELSE reply[t] IN
    IF t = r THEN [row EXCEPT !.end = TRUE, !.text = 0, !.asked = TRUE,
                              !.dropped = row.at \in {"created", "await"}] ELSE row]

-----------------------------------------------------------------------------
(* CoordinatorStreamHandler: one response of the model.                       *)

OpenResponse ==
  /\ ~response.open
  /\ response' = [open |-> TRUE, reply |-> 0, mute |-> FALSE]
  /\ UNCHANGED <<reply, producer, pcm, player, tail, stop, stops, breaks>>

\* discard_cancelled_voice: a reply that a stop ended is replaced.
Gone(r) == r \notin {q \in Reply : ~reply[q].cancel /\ reply[q].out # "cancelled"}
Speaking == response.open /\ ~response.mute
Next1 == CHOOSE r \in 1..Stopper : \A q \in Reply : q < r <=> reply[q].at # "off"

\* begin_voice at the first text; when the queue is full the response is mute.
BeginVoice ==
  /\ Speaking /\ Gone(response.reply) /\ Next1 \in Reply
  /\ IF Cardinality(Alive) > QueueSize
     THEN /\ response' = [response EXCEPT !.reply = 0, !.mute = TRUE]
          /\ UNCHANGED <<reply, tail>>
     ELSE /\ response' = [response EXCEPT !.reply = Next1]
          /\ reply' = [reply EXCEPT ![Next1] = [Unborn EXCEPT !.at = "created", !.pred = tail]]
          /\ tail' = Next1
  /\ UNCHANGED <<producer, pcm, player, stop, stops, breaks>>

\* A reply that failed takes text and drops it; the text never waits for sound.
Feed ==
  LET r == response.reply IN
  /\ Speaking /\ ~Gone(r)
  /\ CASE reply[r].out = "failed" -> UNCHANGED <<reply, response>>
       [] reply[r].out # "failed" /\ Chars(r) = TextChars ->
            CancelReply(r) /\ response' = [response EXCEPT !.reply = 0, !.mute = TRUE]
       [] OTHER -> /\ reply[r].fed < MaxDeltas
                   /\ reply' = [reply EXCEPT ![r].text = @ + 1, ![r].fed = @ + 1]
                   /\ UNCHANGED response
  /\ UNCHANGED <<producer, pcm, player, tail, stop, stops, breaks>>

CloseResponse ==
  LET r == response.reply IN
  /\ response.open
  /\ response' = [open |-> FALSE, reply |-> 0, mute |-> FALSE]
  /\ reply' = IF r # 0 THEN [reply EXCEPT ![r].end = TRUE] ELSE reply
  /\ UNCHANGED <<producer, pcm, player, tail, stop, stops, breaks>>

\* The stream of the model fails or is cancelled, and its voice with it.
ResponseFails ==
  /\ response.open /\ response.reply # 0 /\ breaks < MaxBreaks
  /\ breaks' = breaks + 1
  /\ CancelReply(response.reply)
  /\ response' = [open |-> FALSE, reply |-> 0, mute |-> FALSE]
  /\ UNCHANGED <<producer, pcm, player, tail, stop, stops>>

\* Mutant: a stop does not wait for the player.
StopVoiceAtOnce ==
  /\ stops < MaxStops /\ stops' = stops + 1
  /\ reply' = [r \in Reply |-> [Signal(reply[r]) EXCEPT !.asked = @ \/ reply[r].at \notin {"off", "done"}]]
  /\ stop' = [mark |-> Next1 - 1, waits |-> 0]
  /\ tail' = Stopper
  /\ UNCHANGED <<producer, pcm, player, response, breaks>>

\* stop_voice: every reply is cancelled, and a task waits for the player.
StopVoice ==
  /\ stops < MaxStops /\ stops' = stops + 1
  /\ reply' = [r \in Reply |-> [Signal(reply[r]) EXCEPT !.asked = @ \/ reply[r].at \notin {"off", "done"}]]
  /\ stop' = [mark |-> Next1 - 1, waits |-> player]
  /\ tail' = Stopper
  /\ UNCHANGED <<producer, pcm, player, response, breaks>>

-----------------------------------------------------------------------------
(* SpeechReply._run and AudioPlayer.play.                                     *)

EndReply(r, result) ==
  reply' = [reply EXCEPT ![r].at = "done", ![r].out = result, ![r].end = TRUE,
                         ![r].text = 0, ![r].cancel = FALSE]

\* The task's first step; one cancelled before it does not run at all.
Start(r) ==
  /\ reply[r].at = "created"
  /\ IF reply[r].cancel THEN EndReply(r, "cancelled") ELSE reply' = [reply EXCEPT ![r].at = "await"]
  /\ UNCHANGED <<producer, pcm, player, response, tail, stop, stops, breaks>>

Go(r) ==
  /\ reply[r].at = "await" /\ reply[r].pred \in Over
  /\ CASE reply[r].cancel -> EndReply(r, "cancelled") /\ UNCHANGED <<player, producer>>
       [] ~reply[r].cancel /\ player # 0 -> EndReply(r, "failed") /\ UNCHANGED <<player, producer>>
       [] OTHER -> /\ reply' = [reply EXCEPT ![r].at = "play"]
                   /\ player' = r
                   /\ producer' = [producer EXCEPT ![r].at = "read"]
  /\ UNCHANGED <<pcm, response, tail, stop, stops, breaks>>

Chunk(r) ==
  /\ reply[r].at = "play" /\ ~reply[r].cancel /\ pcm[r] > 0
  /\ pcm' = [pcm EXCEPT ![r] = @ - 1]
  /\ reply' = [reply EXCEPT ![r].said = @ + 1]
  /\ UNCHANGED <<producer, player, response, tail, stop, stops, breaks>>

\* The device is closed when the sound has ended, failed or was cancelled ...
ClosePlayer(r) ==
  LET ended == producer[r].at \in {"ended", "failed"} /\ pcm[r] = 0 IN
  /\ reply[r].at = "play" /\ (reply[r].cancel \/ ended)
  /\ reply' = [reply EXCEPT ![r].at = "shut",
                            ![r].out = CASE reply[r].cancel -> "cancelled"
                                         [] ~reply[r].cancel /\ producer[r].at = "failed" -> "failed"
                                         [] OTHER -> "ok"]
  /\ player' = 0
  /\ UNCHANGED <<producer, pcm, response, tail, stop, stops, breaks>>

DeviceFails(r) ==
  /\ reply[r].at = "play" /\ breaks < MaxBreaks
  /\ breaks' = breaks + 1
  /\ reply' = [reply EXCEPT ![r].at = "shut", ![r].out = "failed", ![r].asked = TRUE]
  /\ player' = 0
  /\ UNCHANGED <<producer, pcm, response, tail, stop, stops>>

\* ... and then the reply waits until its thread has stopped.
Ended(r) ==
  /\ reply[r].at = "shut" /\ producer[r].at \in {"ended", "failed"}
  /\ EndReply(r, IF reply[r].cancel THEN "cancelled" ELSE reply[r].out)
  /\ UNCHANGED <<producer, pcm, player, response, tail, stop, stops, breaks>>

-----------------------------------------------------------------------------
(* _SegmentStream: the text is read in the loop, a thread makes the sound.    *)

Read(r) ==
  /\ producer[r].at = "read"
  /\ \/ /\ reply[r].at = "play" /\ reply[r].text > 0
        /\ reply' = [reply EXCEPT ![r].text = @ - 1]
        /\ producer' = [producer EXCEPT ![r] = [at |-> "generate", left |-> Windows]]
     \/ /\ reply[r].at = "shut" \/ (reply[r].text = 0 /\ reply[r].end)
        /\ producer' = [producer EXCEPT ![r].at = "ended"]
        /\ UNCHANGED reply
  /\ UNCHANGED <<pcm, player, response, tail, stop, stops, breaks>>

\* Mutant: the thread waits for room although nobody takes sound any more.
GenerateWaiting(r) ==
  /\ producer[r].at = "generate"
  /\ \/ /\ producer[r].left > 0 /\ pcm[r] < Capacity
        /\ pcm' = [pcm EXCEPT ![r] = @ + 1]
        /\ producer' = [producer EXCEPT ![r].left = @ - 1]
     \/ /\ producer[r].left = 0
        /\ producer' = [producer EXCEPT ![r].at = IF reply[r].at = "shut" THEN "ended" ELSE "read"]
        /\ UNCHANGED pcm
  /\ UNCHANGED <<reply, player, response, tail, stop, stops, breaks>>

\* A block waits for room in the queue, unless the reply has been shut.
Generate(r) ==
  /\ producer[r].at = "generate"
  /\ \/ /\ producer[r].left > 0 /\ pcm[r] < Capacity /\ reply[r].at = "play"
        /\ pcm' = [pcm EXCEPT ![r] = @ + 1]
        /\ producer' = [producer EXCEPT ![r].left = @ - 1]
     \/ /\ producer[r].left = 0 \/ reply[r].at = "shut"
        /\ producer' = [producer EXCEPT ![r].at = IF reply[r].at = "shut" THEN "ended" ELSE "read"]
        /\ UNCHANGED pcm
  /\ UNCHANGED <<reply, player, response, tail, stop, stops, breaks>>

SynthesisFails(r) ==
  /\ producer[r].at \in {"read", "generate"} /\ reply[r].at = "play" /\ breaks < MaxBreaks
  /\ breaks' = breaks + 1
  /\ producer' = [producer EXCEPT ![r].at = "failed"]
  /\ reply' = [reply EXCEPT ![r].asked = TRUE]
  /\ UNCHANGED <<pcm, player, response, tail, stop, stops>>

-----------------------------------------------------------------------------
Speak(r) == Start(r) \/ Go(r) \/ Chunk(r) \/ ClosePlayer(r) \/ Ended(r)
Produce(r) == Read(r) \/ Generate(r)

RepliesNext ==
  \/ OpenResponse \/ BeginVoice \/ Feed \/ CloseResponse \/ ResponseFails \/ StopVoice
  \/ \E r \in Reply : Speak(r) \/ Produce(r) \/ DeviceFails(r) \/ SynthesisFails(r)

RepliesSpec == RepliesInit /\ [][RepliesNext]_replyVars

\* The loop runs, and so do the thread and the device.
RepliesFairness == \A r \in Reply : WF_replyVars(Speak(r)) /\ WF_replyVars(Produce(r))

-----------------------------------------------------------------------------
(* A response that has too much text ends its own speech only: any other      *)
(* reply is spoken to its end, unless it was stopped or broke itself.         *)
EndsOnlyItself ==
  \A r \in Reply :
    reply[r].at = "done" /\ ~reply[r].asked => reply[r].out = "ok" /\ reply[r].said = Windows * reply[r].fed

(* That, when no response gave up a reply that had not begun to play: its     *)
(* cancellation reaches the reply it waits for, and one that never started    *)
(* lets its successor begin while an earlier one still plays.                 *)
RepliesAreHeard ==
  (\A r \in Reply : ~reply[r].dropped) => EndsOnlyItself

(* When a stop has ended, none of the replies before it plays.                *)
StopIsSilence ==
  Stopper \in Over => \A r \in 1..stop.mark : player # r

(* A reply is heard until it is stopped, and no longer.                       *)
HeardUntilStopped == RepliesAreHeard /\ StopIsSilence

(* A reply that was finished or cancelled ends, also when its thread waits    *)
(* for room in the queue and its device was closed.                           *)
RepliesEnd ==
  \A r \in Reply : reply[r].at \notin {"off", "done"} /\ (reply[r].end \/ reply[r].cancel) ~> reply[r].at = "done"
=============================================================================
