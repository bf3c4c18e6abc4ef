------------------------------ MODULE VoiceInput -----------------------------
(* Recording in the terminal interface (VoiceControls of ui/widgets.py,       *)
(* AudioDevices and StreamingRecognizer of TTS/__init__.py, AudioCapture and  *)
(* AudioPlayer of TTS/audio.py): the choice of a microphone, one recording    *)
(* with its thread steps, the callback that fills its queue, the player that  *)
(* shares the audio library, and the reset of that library.                   *)
(*                                                                            *)
(* What a worker thread does under AudioDevices._lock is one step; the loop   *)
(* goes on after it in the next one, and only then sees a cancellation        *)
(* (finish_io).  Sound is counted in blocks of the callback.                  *)
EXTENDS Naturals, Sequences, FiniteSets

CONSTANTS Plugs,        \* what the library may find plugged in: sequences of names
          MaxResets,    \* bound on refreshes of the list
          MaxRecords,   \* bound on recordings
          MaxBlocks,    \* bound on blocks of a recording
          Buffer,       \* blocks in the queue of the capture
          MaxPlays,     \* bound on plays
          MaxTroubles   \* bound on edits of the draft, changes of the session and
                        \* failures of the library, the devices and the model

ASSUME VoiceAssumption ==
  /\ {MaxResets, MaxRecords, MaxBlocks, Buffer, MaxPlays, MaxTroubles} \subseteq Nat
  /\ Buffer > 0 /\ Plugs # {} /\ \A p \in Plugs : p # <<>>

VARIABLES
  lib,      \* the library: its snapshot of the devices, generation, whether initialized
  users,    \* AudioDevices._active
  stream,   \* the open stream of the capture and of the player
  choice,   \* VoiceControls: device, _devices, _device_invalid, _devices_task
  rec,      \* the recording task with its AudioCapture
  queue,    \* its buffer: blocks, _stopped, _error, _event, a set of it on its way
  play,     \* AudioPlayer: where its play is, whether it was cancelled
  session, identity, serial, \* the current one; the one sync saw; edits of the draft
  drafts,   \* history: the recordings added to the draft
  spent     \* counters of the bounds

voiceVars == <<lib, users, stream, choice, rec, queue, play, session, identity, serial, drafts, spent>>

Default == [name |-> "default"]
Closed == [name |-> "closed"]
Device(i, name, gen) == [index |-> i, name |-> name, gen |-> gen]
Silent == [blocks |-> 0, stopped |-> TRUE, error |-> FALSE, event |-> FALSE, sets |-> FALSE]
Idle == [at |-> "idle", want |-> Default, dev |-> Default, gen |-> 0, started |-> FALSE, released |-> FALSE,
         halting |-> FALSE, cancel |-> FALSE, failed |-> FALSE, session |-> 0, serial |-> 0, heard |-> 0, got |-> 0]

Recording == rec.at # "idle"
May(what, limit) == spent[what] < limit /\ spent' = [spent EXCEPT ![what] = @ + 1]

VoiceInit ==
  /\ lib \in [gen : {1}, list : Plugs, ready : {TRUE}]
  /\ users = {} /\ stream = [mic |-> Closed, speaker |-> Closed]
  /\ choice = [device |-> Default, list |-> <<>>, invalid |-> FALSE, task |-> "list"]
  /\ rec = Idle /\ queue = Silent /\ play = [at |-> "idle", cancel |-> FALSE]
  /\ session = 0 /\ identity = 0 /\ serial = 0 /\ drafts = {}
  /\ spent = [reset |-> 0, record |-> 0, play |-> 0, trouble |-> 0]

-----------------------------------------------------------------------------
(* AudioDevices.                                                              *)

Named(name) == {i \in DOMAIN lib.list : lib.list[i] = name}

\* Mutant: the place in the list is taken for the device.
ResolvePlace(selected, gen) ==
  IF ~lib.ready THEN {}
  ELSE IF selected = Default THEN {Device(1, lib.list[1], lib.gen)}
  ELSE {Device(i, lib.list[i], lib.gen) : i \in {selected.index} \cap DOMAIN lib.list}

\* _resolve: the device at its place while the snapshot is the one it was found
\* in, else the only one of its name; none when that is missing or ambiguous.
ResolveDevice(selected, gen) ==
  IF ~lib.ready THEN {}
  ELSE IF selected = Default THEN {Device(1, lib.list[1], lib.gen)}
  ELSE IF lib.gen \in {gen, selected.gen} /\ selected.index \in Named(selected.name) THEN {selected}
  ELSE {Device(i, selected.name, lib.gen) : i \in {j \in Named(selected.name) : Cardinality(Named(selected.name)) = 1}}

\* close: the stream first, then the owner, both under the lock.
CloseStream(owner) ==
  /\ stream' = [stream EXCEPT ![owner] = Closed]
  /\ users' = users \ {owner}

-----------------------------------------------------------------------------
(* The choice of the microphone: neither it nor the list changes while a      *)
(* recording runs.                                                            *)

PressRefresh ==
  /\ choice.task = "none" /\ ~Recording /\ May("reset", MaxResets) /\ choice' = [choice EXCEPT !.task = "reset"]
  /\ UNCHANGED <<lib, users, stream, rec, queue, play, session, identity, serial, drafts>>

Listed(l) == [i \in DOMAIN l.list |-> Device(i, l.list[i], l.gen)]

Anew == [gen : {lib.gen + 1}, list : Plugs, ready : {TRUE}]

\* inputs(): refused while a stream is reserved or open; the list of a library
\* that could not be initialized, or whose devices cannot be read, is an error.
LoadDevices ==
  /\ choice.task \in {"list", "reset"}
  /\ \/ /\ choice.task = "list" /\ lib.ready
        /\ choice' = [choice EXCEPT !.task = "show", !.list = Listed(lib)]
        /\ UNCHANGED <<lib, spent>>
     \/ /\ \/ choice.task = "list" /\ ~lib.ready
           \/ choice.task = "reset" /\ users # {}
        /\ choice' = [choice EXCEPT !.task = "none"]
        /\ UNCHANGED <<lib, spent>>
     \/ /\ choice.task = "reset" /\ users = {}
        /\ lib' \in Anew
        /\ choice' = [choice EXCEPT !.task = "show", !.list = Listed(lib')]
        /\ UNCHANGED spent
     \/ /\ choice.task = "reset" /\ users = {} /\ May("trouble", MaxTroubles)
        /\ \/ lib' = [lib EXCEPT !.ready = FALSE]
           \/ lib' \in Anew
        /\ choice' = [choice EXCEPT !.task = "none"]
  /\ UNCHANGED <<users, stream, rec, queue, play, session, identity, serial, drafts>>

\* load(): the chosen microphone is found again by its name, or is invalid.
ShowDevices ==
  /\ choice.task = "show"
  /\ LET same == {i \in DOMAIN choice.list : choice.list[i].name = choice.device.name} IN
     choice' = [choice EXCEPT !.task = "none",
       !.invalid = IF choice.device = Default THEN @ ELSE Cardinality(same) # 1,
       !.device = IF @ # Default /\ Cardinality(same) = 1 THEN choice.list[CHOOSE i \in same : TRUE] ELSE @]
  /\ UNCHANGED <<lib, users, stream, rec, queue, play, session, identity, serial, drafts, spent>>

SelectDevice ==
  /\ choice.task = "none" /\ ~Recording
  /\ \E d \in {Default} \cup {choice.list[i] : i \in DOMAIN choice.list} :
       d # choice.device /\ choice' = [choice EXCEPT !.device = d, !.invalid = FALSE]
  /\ UNCHANGED <<lib, users, stream, rec, queue, play, session, identity, serial, drafts, spent>>

-----------------------------------------------------------------------------
(* AudioPlayer.play: one reply after the other (SpeechReplies).               *)

PlaySteps == UNCHANGED <<lib, choice, rec, queue, session, identity, serial, drafts>>

BeginPlay ==
  /\ play.at = "idle" /\ May("play", MaxPlays) /\ play' = [at |-> "import", cancel |-> FALSE]
  /\ UNCHANGED <<users, stream>> /\ PlaySteps

ReserveSpeaker ==
  /\ play.at = "import"
  /\ IF play.cancel THEN play' = [play EXCEPT !.at = "idle"] /\ UNCHANGED users
     ELSE play' = [play EXCEPT !.at = "open"] /\ users' = users \cup {"speaker"}
  /\ UNCHANGED <<stream, spent>> /\ PlaySteps

OpenSpeaker ==
  /\ play.at = "open"
  /\ IF play.cancel \/ ~lib.ready THEN play' = [play EXCEPT !.at = "close"] /\ UNCHANGED stream
     ELSE /\ play' = [play EXCEPT !.at = "write"]
          /\ stream' = [stream EXCEPT !.speaker = [name |-> "output", gen |-> lib.gen]]
  /\ UNCHANGED <<users, spent>> /\ PlaySteps

\* The text ends, a write fails, or a cancellation is seen after a write.
EndWrites ==
  /\ play.at = "write" /\ play' = [play EXCEPT !.at = "close"]
  /\ UNCHANGED <<users, stream, spent>> /\ PlaySteps

CloseSpeaker ==
  /\ play.at = "close" /\ CloseStream("speaker") /\ play' = [at |-> "idle", cancel |-> FALSE]
  /\ UNCHANGED spent /\ PlaySteps

Cancelled(p) == [p EXCEPT !.cancel = p.at # "idle"]

-----------------------------------------------------------------------------
(* VoiceControls.start_recording and its task.                                *)

RecordSteps == UNCHANGED <<lib, choice, play, session, identity, serial, drafts, spent>>
Goes(place) == rec' = [rec EXCEPT !.at = IF rec.cancel THEN "shut" ELSE place]
Fails(place) == rec' = [rec EXCEPT !.at = place, !.failed = TRUE]

\* sync() first; the task silences the speaker before it listens.
StartRecording ==
  /\ ~Recording /\ choice.task = "none" /\ ~choice.invalid /\ May("record", MaxRecords)
  /\ rec' = [Idle EXCEPT !.at = "drain", !.session = session, !.serial = serial]
  /\ identity' = session /\ play' = Cancelled(play)
  /\ UNCHANGED <<lib, users, stream, choice, queue, session, serial, drafts>>

\* drain_voice returned: the capture is made for the device chosen then.
Drained ==
  /\ rec.at = "drain" /\ (rec.cancel \/ ~play.cancel)
  /\ rec' = IF rec.cancel THEN Idle ELSE [rec EXCEPT !.at = "check", !.want = choice.device]
  /\ queue' = Silent
  /\ UNCHANGED <<users, stream>> /\ RecordSteps

\* check_available: the device is settled, nothing is opened yet.
CheckMicrophone ==
  /\ rec.at = "check"
  /\ LET found == ResolveDevice(rec.want, 0) IN
     IF rec.cancel \/ found = {} THEN Fails("close")
     ELSE \E d \in found : rec' = [rec EXCEPT !.at = "model", !.dev = d, !.gen = lib.gen]
  /\ UNCHANGED <<users, stream, queue>> /\ RecordSteps

\* recognize(): a place in the queue of the model, and a session of it.
OpenSession ==
  /\ rec.at = "model"
  /\ \/ ~rec.cancel /\ rec' = [rec EXCEPT !.at = "reserve"] /\ UNCHANGED spent
     \/ rec.cancel /\ Fails("close") /\ UNCHANGED spent
     \/ ~rec.cancel /\ May("trouble", MaxTroubles) /\ Fails("close")
  /\ UNCHANGED <<users, stream, queue, lib, choice, play, session, identity, serial, drafts>>

\* start(): the owner is known before its stream is opened.
ReserveMicrophone ==
  /\ rec.at = "reserve" /\ users' = users \cup {"mic"}
  /\ rec' = [rec EXCEPT !.at = IF rec.cancel THEN "undo" ELSE "open"]
  /\ UNCHANGED <<stream, queue>> /\ RecordSteps

OpenMicrophone ==
  /\ rec.at = "open"
  /\ LET found == ResolveDevice(rec.dev, rec.gen) IN
     \/ (rec.cancel \/ found = {}) /\ Fails("undo") /\ UNCHANGED <<stream, queue, spent>>
     \/ ~rec.cancel /\ found # {} /\ May("trouble", MaxTroubles) /\ Fails("undo") /\ UNCHANGED <<stream, queue>>
     \/ /\ ~rec.cancel /\ UNCHANGED spent
        /\ \E d \in found : /\ stream' = [stream EXCEPT !.mic = [name |-> d.name, gen |-> lib.gen]]
                            /\ rec' = [rec EXCEPT !.at = "opened", !.dev = d]
        /\ queue' = [Silent EXCEPT !.stopped = FALSE]
  /\ UNCHANGED <<users, lib, choice, play, session, identity, serial, drafts>>

\* on_started: from here on a release ends the recording instead of giving it up.
Started ==
  /\ rec.at = "opened"
  /\ rec' = IF rec.cancel THEN [rec EXCEPT !.at = "undo"] ELSE [rec EXCEPT !.at = "listen", !.started = TRUE]
  /\ UNCHANGED <<users, stream, queue>> /\ RecordSteps

\* start() closes what it had reserved or opened before it raises.
UndoOpen ==
  /\ rec.at = "undo" /\ CloseStream("mic") /\ rec' = [rec EXCEPT !.at = "shut"]
  /\ queue' = [queue EXCEPT !.stopped = TRUE]
  /\ RecordSteps

\* _callback, on the thread of the library; the event is set by the loop later.
Callback ==
  /\ stream.mic # Closed /\ ~queue.stopped
  /\ \/ /\ queue.blocks < Buffer /\ rec.heard < MaxBlocks /\ UNCHANGED spent
        /\ queue' = [queue EXCEPT !.blocks = @ + 1, !.sets = TRUE]
        /\ rec' = [rec EXCEPT !.heard = @ + 1]
     \/ /\ queue.blocks = Buffer /\ UNCHANGED <<rec, spent>>
        /\ queue' = [queue EXCEPT !.error = TRUE, !.stopped = TRUE, !.sets = TRUE]
     \/ /\ May("trouble", MaxTroubles) /\ UNCHANGED rec
        /\ queue' = [queue EXCEPT !.error = TRUE, !.stopped = TRUE, !.sets = TRUE]
  /\ UNCHANGED <<lib, users, stream, choice, play, session, identity, serial, drafts>>

SetEvent ==
  /\ queue.sets /\ queue' = [queue EXCEPT !.sets = FALSE, !.event = TRUE]
  /\ UNCHANGED <<rec, users, stream>> /\ RecordSteps

\* __aiter__: what is left in the queue comes before an error and the end.
TakeBlock ==
  /\ rec.at = "listen" /\ ~rec.cancel
  /\ \/ queue.blocks > 0 /\ queue' = [queue EXCEPT !.blocks = @ - 1] /\ Goes("accept")
     \/ queue.blocks = 0 /\ queue.error /\ Fails("shut") /\ UNCHANGED queue
     \/ queue.blocks = 0 /\ ~queue.error /\ queue.stopped /\ Goes("finish") /\ UNCHANGED queue
     \/ queue.blocks = 0 /\ ~queue.stopped /\ queue' = [queue EXCEPT !.event = FALSE] /\ Goes("wait")
  /\ UNCHANGED <<users, stream>> /\ RecordSteps

Wake ==
  /\ rec.at = "wait" /\ queue.event /\ ~rec.cancel /\ Goes("listen")
  /\ UNCHANGED <<users, stream, queue>> /\ RecordSteps

\* A cancellation ends a wait at once.
GiveUp ==
  /\ rec.at \in {"listen", "wait"} /\ rec.cancel /\ Goes("shut")
  /\ UNCHANGED <<users, stream, queue>> /\ RecordSteps

\* session.accept and session.finish, on the thread of the model.
AcceptBlock ==
  /\ rec.at = "accept"
  /\ \/ rec' = [rec EXCEPT !.at = IF rec.cancel THEN "shut" ELSE "listen", !.got = @ + 1] /\ UNCHANGED spent
     \/ May("trouble", MaxTroubles) /\ Fails("shut")
  /\ UNCHANGED <<users, stream, queue, lib, choice, play, session, identity, serial, drafts>>

FinishSession ==
  /\ rec.at = "finish" /\ Goes("shut")
  /\ UNCHANGED <<users, stream, queue>> /\ RecordSteps

\* session.close, and the place in the queue of the model is free.
CloseSession ==
  /\ rec.at = "shut" /\ rec' = [rec EXCEPT !.at = "close"]
  /\ UNCHANGED <<users, stream, queue>> /\ RecordSteps

\* capture.close: no block after it; it waits for an abort that is under way.
CloseMicrophone ==
  /\ rec.at = "close" /\ ~rec.halting
  /\ CloseStream("mic") /\ rec' = [rec EXCEPT !.at = "deliver"]
  /\ queue' = [queue EXCEPT !.stopped = TRUE, !.event = TRUE]
  /\ RecordSteps

\* The text goes to the draft it was spoken for, unless that was edited.
Deliver ==
  /\ rec.at = "deliver"
  /\ drafts' = IF ~rec.cancel /\ ~rec.failed /\ rec.got > 0 /\ rec.session = session /\ rec.serial = serial
               THEN drafts \cup {rec} ELSE drafts
  /\ rec' = Idle /\ queue' = Silent
  /\ UNCHANGED <<lib, users, stream, choice, play, session, identity, serial, spent>>

-----------------------------------------------------------------------------
(* The user.                                                                  *)

\* Mutant: the stop does not wake the reader of the queue.
ReleaseAsleep ==
  /\ Recording /\ ~rec.released
  /\ IF rec.started
     THEN /\ rec' = [rec EXCEPT !.released = TRUE, !.halting = stream.mic # Closed]
          /\ queue' = [queue EXCEPT !.stopped = TRUE]
     ELSE rec' = [rec EXCEPT !.released = TRUE, !.cancel = TRUE] /\ UNCHANGED queue
  /\ UNCHANGED <<users, stream>> /\ RecordSteps

\* release_recording: before the start it gives up, after it it stops the
\* capture: no more blocks, the reader is woken, and the stream is aborted.
ReleaseRecording ==
  /\ Recording /\ ~rec.released
  /\ IF rec.started
     THEN /\ rec' = [rec EXCEPT !.released = TRUE, !.halting = stream.mic # Closed]
          /\ queue' = [queue EXCEPT !.stopped = TRUE, !.event = TRUE]
     ELSE rec' = [rec EXCEPT !.released = TRUE, !.cancel = TRUE] /\ UNCHANGED queue
  /\ UNCHANGED <<users, stream>> /\ RecordSteps

Halted ==
  /\ rec.halting /\ rec' = [rec EXCEPT !.halting = FALSE]
  /\ UNCHANGED <<users, stream, queue>> /\ RecordSteps

\* edited(), and submitted(), which also gives the recording up.
EditDraft ==
  /\ May("trouble", MaxTroubles) /\ serial' = serial + 1
  /\ rec' \in {rec, Cancelled(rec)}
  /\ UNCHANGED <<lib, users, stream, choice, queue, play, session, identity, drafts>>

SwitchSession ==
  /\ May("trouble", MaxTroubles) /\ session' = session + 1 /\ play' = Cancelled(play)
  /\ UNCHANGED <<lib, users, stream, choice, rec, queue, identity, serial, drafts>>

\* sync(), twice a second: a recording of another session is given up.
Sync ==
  /\ identity # session /\ identity' = session /\ rec' = Cancelled(rec)
  /\ UNCHANGED <<lib, users, stream, choice, queue, play, session, serial, drafts, spent>>

RecordingGoesOn ==
  \/ Drained \/ CheckMicrophone \/ OpenSession \/ ReserveMicrophone \/ OpenMicrophone \/ Started \/ UndoOpen \/ TakeBlock
  \/ Wake \/ GiveUp \/ AcceptBlock \/ FinishSession \/ CloseSession \/ CloseMicrophone \/ Deliver
PlayGoesOn == ReserveSpeaker \/ OpenSpeaker \/ EndWrites \/ CloseSpeaker

VoiceNext ==
  \/ PressRefresh \/ LoadDevices \/ ShowDevices \/ SelectDevice \/ BeginPlay \/ PlayGoesOn
  \/ StartRecording \/ RecordingGoesOn \/ Callback \/ SetEvent
  \/ ReleaseRecording \/ Halted \/ EditDraft \/ SwitchSession \/ Sync

\* The loop and the threads go on; a play ends when it is cancelled.
VoiceFairness ==
  /\ WF_voiceVars(RecordingGoesOn) /\ WF_voiceVars(SetEvent) /\ WF_voiceVars(Halted)
  /\ WF_voiceVars(PlayGoesOn /\ play.cancel)

-----------------------------------------------------------------------------
VoiceTypeOK ==
  /\ users \subseteq {"mic", "speaker"} /\ queue.blocks \in 0..Buffer
  /\ rec.at \in {"idle", "drain", "check", "model", "reserve", "open", "opened", "undo", "listen", "wait",
                 "accept", "finish", "shut", "close", "deliver"}
  /\ play.at \in {"idle", "import", "open", "write", "close"} /\ choice.task \in {"none", "list", "reset", "show"}

(* The library is not reset under a stream: each one belongs to the snapshot  *)
(* the library has now.                                                       *)
StreamsOfThisLibrary ==
  \A o \in DOMAIN stream : stream[o] # Closed => lib.ready /\ stream[o].gen = lib.gen

(* What listens is the microphone the user chose, although places in the list *)
(* change when devices come and go; and only while a recording runs.          *)
ChosenIsHeard ==
  stream.mic # Closed =>
    Recording /\ stream.mic.name = IF rec.want = Default THEN lib.list[1] ELSE rec.want.name

(* The draft gets all that was said between start and release of a recording  *)
(* that was neither given up nor failed.                                      *)
DraftIsWhatWasSaid ==
  \A d \in drafts : d.got = d.heard /\ d.released /\ ~d.cancel

(* The three together: what reaches the draft is what the chosen microphone   *)
(* heard.                                                                     *)
MicrophoneIsHeard == StreamsOfThisLibrary /\ ChosenIsHeard /\ DraftIsWhatWasSaid

(* A recording that was released or given up ends, its stream closed, however *)
(* the release meets the opening, the callback and the reader of the queue.   *)
RecordingsEnd == rec.released \/ rec.cancel ~> ~Recording /\ stream.mic = Closed
=============================================================================
