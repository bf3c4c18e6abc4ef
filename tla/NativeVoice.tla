----------------------------- MODULE NativeVoice -----------------------------
(* From segments to pieces of sound with the native voice worker: a stream    *)
(* (_SegmentStream, TTS/inference.py) leases the engine and has a thread send *)
(* each segment to the worker's pipe (MamboTTSModel, FramedProcess of         *)
(* runtime/resources.py), read the framed reply and put its pieces, one held  *)
(* back, into a bounded queue.  Whoever listens may stop at any time.  A      *)
(* frame of sound stands for one window; sizes are those of its reply.        *)
EXTENDS Naturals, Sequences, FiniteSets

CONSTANTS Frames,                 \* of each stream and segment: how many frames at most
          MaxMishaps,             \* bound on faults and switches of the model
          PieceQueue, PipeSize    \* pending_pcm, and frames in the pipe

ASSUME NativeVoiceAssumption ==
  /\ Frames \in Seq(Seq(Nat) \ {<<>>}) /\ MaxMishaps \in Nat
  /\ {PieceQueue, PipeSize} \subseteq Nat \ {0}

VARIABLES
  native,   \* the model, its process, and the two directions of its pipe
  made,     \* what the worker has made of each segment: frames, and how it ended
  job,      \* the engine's thread: segment, place, frames read, piece held back, failure
  talk,     \* each stream: place, segment, queue, what was heard, whether it failed
  mishaps   \* failures of worker, pipe or samples, and switches of the model

nativeVars == <<native, made, job, talk, mishaps>>

Stream == DOMAIN Frames
Segments(s) == Len(Frames[s])
Request == UNION {{s} \X (1..Segments(s)) : s \in Stream}
NoCall == [at |-> "off", of |-> <<0, 0>>, read |-> 0, held |-> 0, failed |-> FALSE]
NoWorker == [process |-> "none", todo |-> <<>>, pipe |-> <<>>]

NativeInit ==
  /\ native = [model |-> FALSE, worker |-> NoWorker]
  /\ made = [r \in Request |-> [frames |-> 0, end |-> "open"]]
  /\ job = NoCall
  /\ talk = [s \in Stream |-> [at |-> "off", segment |-> 0, stopped |-> FALSE, queue |-> <<>>,
                                 heard |-> <<>>, failed |-> FALSE]]
  /\ mishaps = 0

-----------------------------------------------------------------------------
(* The worker: one reply after the other, frame by frame; it may fail, send   *)
(* nonsense or die.                                                           *)
MayFail == mishaps < MaxMishaps
Failing == mishaps' = mishaps + 1
Frame(r, kind) == [of |-> r, kind |-> kind, number |-> made[r].frames + (IF kind = "data" THEN 1 ELSE 0)]

Write ==
  /\ native.worker.process = "up" /\ native.worker.todo # <<>> /\ Len(native.worker.pipe) < PipeSize
  /\ LET r == Head(native.worker.todo)
         makes(kind) ==
           /\ native' = [native EXCEPT !.worker.pipe = Append(@, Frame(r, kind)),
                                       !.worker.todo = IF kind = "data" THEN @ ELSE Tail(@)]
           /\ made' = [made EXCEPT ![r] = IF kind = "data" THEN [@ EXCEPT !.frames = @ + 1]
                                            ELSE [@ EXCEPT !.end = kind]]
     IN  \/ made[r].frames < Frames[r[1]][r[2]] /\ makes("data") /\ UNCHANGED mishaps
         \/ makes(IF made[r].frames > 0 THEN "done" ELSE "skipped") /\ UNCHANGED mishaps
         \/ MayFail /\ Failing /\ \E kind \in {"error", "broken"} : makes(kind)
  /\ UNCHANGED <<job, talk>>

DieWorker ==
  /\ native.worker.process = "up" /\ MayFail /\ Failing
  /\ native' = [native EXCEPT !.worker.process = "dead"]
  /\ UNCHANGED <<made, job, talk>>

-----------------------------------------------------------------------------
(* The thread: _generate, MamboTTSModel.generate and FramedProcess.           *)
Who == job.of[1]
Stopped == talk[Who].stopped
JobAt(place) == job' = [job EXCEPT !.at = place]
GoesFailed(place) == job' = [job EXCEPT !.at = place, !.failed = TRUE]

\* A closed process is no process; one that died takes the request or breaks the pipe.
SendText ==
  /\ job.at = "send"
  /\ IF Stopped THEN JobAt("over") /\ UNCHANGED native
     ELSE \/ native.worker.process # "up" /\ GoesFailed("over") /\ UNCHANGED native
          \/ native.worker.process = "dead" /\ JobAt("read") /\ UNCHANGED native
          \/ /\ native.worker.process = "up" /\ JobAt("read")
             /\ native' = [native EXCEPT !.worker.todo = Append(@, job.of)]
  /\ UNCHANGED <<made, talk, mishaps>>

\* What a frame means while the reply is wanted, and while the rest is drained.
Meaning(frame) ==
  CASE frame.kind = "data" /\ job.at = "drain" -> JobAt("drain")
    [] frame.kind = "data" /\ job.at = "read" ->
         job' = [job EXCEPT !.at = "give", !.read = frame.number]
    [] frame.kind = "done" /\ job.at = "read" -> JobAt("last")
    [] frame.kind = "error" -> GoesFailed("over")
    [] frame.kind = "broken" -> JobAt("close")
    [] OTHER -> JobAt("over")

ReadFrame ==
  /\ job.at \in {"read", "drain"} /\ native.worker.pipe # <<>>
  /\ Meaning(Head(native.worker.pipe))
  /\ native' = [native EXCEPT !.worker.pipe = Tail(@)]
  /\ UNCHANGED <<made, talk, mishaps>>

EndOfPipe ==
  /\ job.at \in {"read", "drain"} /\ native.worker.pipe = <<>> /\ native.worker.process = "dead"
  /\ JobAt("close") /\ UNCHANGED <<native, made, talk, mishaps>>

\* Whoever stops reading before the end leaves the rest to `responses`.
\* Mutant: the rest is left in the pipe.
RestLeft == "over"
Rest == "drain"

PutPiece(last) ==
  /\ Len(talk[Who].queue) < PieceQueue
  /\ talk' = [talk EXCEPT ![Who].queue = Append(@, <<job.of[2], job.held, last>>)]

\* The samples are cut short or no numbers.
NoSound == MayFail /\ Failing /\ GoesFailed(Rest) /\ UNCHANGED talk

\* The piece before goes out when the next one is there.
GivePiece ==
  /\ job.at = "give"
  /\ \/ Stopped /\ JobAt(Rest) /\ UNCHANGED <<talk, mishaps>>
     \/ NoSound
     \/ /\ ~Stopped /\ job' = [job EXCEPT !.at = "read", !.held = job.read]
        /\ IF job.held = 0 THEN UNCHANGED talk ELSE PutPiece(FALSE)
        /\ UNCHANGED mishaps
  /\ UNCHANGED <<native, made>>

LastPiece ==
  /\ job.at = "last" /\ JobAt("over")
  /\ IF Stopped THEN UNCHANGED talk ELSE PutPiece(TRUE)
  /\ UNCHANGED <<native, made, mishaps>>

\* close: its input is closed, it is waited for and, after a while, killed.
CloseWorker ==
  /\ job.at = "close" /\ GoesFailed("over")
  /\ native' = [native EXCEPT !.worker = NoWorker]
  /\ UNCHANGED <<made, talk, mishaps>>

-----------------------------------------------------------------------------
(* The streams: _produce holds the engine for all segments of one.            *)
Holders == {s \in Stream : talk[s].at \in {"load", "work"}}
TalkAt(s, place) == [talk EXCEPT ![s].at = place]
Segment(s, n) == job' = [NoCall EXCEPT !.at = "send", !.of = <<s, n>>]

OpenStream(s) ==
  /\ talk[s].at = "off" /\ (s > 1 => talk[s - 1].at # "off")
  /\ talk' = TalkAt(s, "lease") /\ UNCHANGED <<native, made, job, mishaps>>

Lease(s) ==
  /\ talk[s].at = "lease" /\ Holders = {}
  /\ talk' = IF native.model THEN [talk EXCEPT ![s].at = "work", ![s].segment = 1] ELSE TalkAt(s, "load")
  /\ IF native.model THEN Segment(s, 1) ELSE UNCHANGED job
  /\ UNCHANGED <<native, made, mishaps>>

\* MamboTTSModel.load: a worker that is not ready is closed again, and _ensure_loaded drops the
\* one whose caller was cancelled meanwhile.
LoadWorker(s) ==
  /\ talk[s].at = "load"
  /\ \/ /\ talk[s].stopped
        /\ talk' = TalkAt(s, "done") /\ UNCHANGED <<native, job, mishaps>>
     \/ /\ ~talk[s].stopped
        /\ native' = [model |-> TRUE, worker |-> [NoWorker EXCEPT !.process = "up"]]
        /\ talk' = [talk EXCEPT ![s].at = "work", ![s].segment = 1] /\ Segment(s, 1)
        /\ UNCHANGED mishaps
     \/ /\ MayFail /\ Failing
        /\ talk' = [talk EXCEPT ![s].at = "done", ![s].failed = TRUE]
        /\ UNCHANGED <<native, job>>
  /\ UNCHANGED made

\* A cancelled task still waits for the thread.
JobOver(s) ==
  LET r == talk[s]
      next == r.segment + 1
      goesOn == ~job.failed /\ ~r.stopped /\ r.segment < Segments(s)
  IN  /\ r.at = "work" /\ job.at = "over"
      /\ talk' = [talk EXCEPT ![s].at = IF goesOn THEN "work" ELSE "done", ![s].failed = job.failed,
                                  ![s].segment = IF goesOn THEN next ELSE @]
      /\ IF goesOn THEN Segment(s, next) ELSE job' = NoCall
      /\ UNCHANGED <<native, made, mishaps>>

\* stream: the listener takes a piece, stops, or comes to the end.
Listen(s) ==
  /\ talk[s].at \in {"work", "done"} /\ ~talk[s].stopped /\ talk[s].queue # <<>>
  /\ talk' = [talk EXCEPT ![s].heard = Append(@, Head(talk[s].queue)), ![s].queue = Tail(@)]
  /\ UNCHANGED <<native, made, job, mishaps>>

StopListening(s) ==
  /\ talk[s].at \in {"lease", "load", "work", "done"} /\ ~talk[s].stopped
  /\ talk' = [talk EXCEPT ![s].stopped = TRUE, ![s].at = IF @ = "lease" THEN "done" ELSE @]
  /\ UNCHANGED <<native, made, job, mishaps>>

EndStream(s) ==
  /\ talk[s].at = "done" /\ (talk[s].stopped \/ talk[s].queue = <<>>)
  /\ talk' = TalkAt(s, "ended") /\ UNCHANGED <<native, made, job, mishaps>>

\* A switch of the model, between streams: SpeechModels.
Unload ==
  /\ native.model /\ Holders = {} /\ MayFail /\ Failing
  /\ native' = [model |-> FALSE, worker |-> NoWorker]
  /\ UNCHANGED <<made, job, talk>>

Synthesis ==
  \/ Write \/ SendText \/ ReadFrame \/ EndOfPipe \/ GivePiece \/ LastPiece \/ CloseWorker
  \/ \E s \in Stream : Lease(s) \/ LoadWorker(s) \/ JobOver(s) \/ Listen(s) \/ EndStream(s)

NativeNext ==
  \/ Synthesis \/ DieWorker \/ Unload
  \/ \E s \in Stream : OpenStream(s) \/ StopListening(s)

-----------------------------------------------------------------------------
(* What a listener may rely on.                                               *)
Pieces(s) == talk[s].heard \o talk[s].queue

\* The pieces of segment n: as many as the worker made of it, the last one marked.
Whole(s, n) ==
  [k \in 1..made[<<s, n>>].frames |-> <<n, k, k = made[<<s, n>>].frames /\ made[<<s, n>>].end = "done">>]
UpTo(s) == LET upTo[n \in 0..Segments(s)] == IF n = 0 THEN <<>> ELSE upTo[n - 1] \o Whole(s, n)
           IN  upTo[talk[s].segment]

InOrderAndWhole(s) ==
  LET all == UpTo(s) IN
  /\ Len(Pieces(s)) <= Len(all)
  /\ \A i \in DOMAIN Pieces(s) :
       /\ Pieces(s)[i][1] = all[i][1] /\ Pieces(s)[i][2] = all[i][2]
       /\ Pieces(s)[i][3] = (all[i][3] /\ made[<<s, all[i][1]>>].end = "done")
  /\ talk[s].at \in {"done", "ended"} /\ ~talk[s].stopped /\ ~talk[s].failed =>
       talk[s].segment = Segments(s) /\ Pieces(s) = all

\* With no call under way the pipe is empty in both directions, or there is none.
InStep == job.at = "off" /\ native.worker.process = "up" =>
            native.worker.todo = <<>> /\ native.worker.pipe = <<>>

NobodyWaits ==
  (\E s \in Stream : talk[s].at \notin {"off", "ended"}) => ENABLED Synthesis

\* The pieces of a stream are those the worker made of its own segments, in
\* order, the last of each marked, and all of them unless it was stopped or
\* failed; a thread that was stopped leaves the pipe as it should be for the
\* next request; and every stream comes to its end (_SegmentStream,
\* FramedProcess.responses).
PiecesAreOfTheirSegments ==
  /\ \A s \in Stream : talk[s].at # "off" => InOrderAndWhole(s)
  /\ InStep /\ NobodyWaits
=============================================================================
