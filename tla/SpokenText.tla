----------------------------- MODULE SpokenText ------------------------------
(* The text of a reply on its way to the synthesiser: GoalTextFilter          *)
(* (core/gateway.py) takes the control markers out of the stream of the       *)
(* model, TextSegmenter (TTS/tts.py) cuts the rest into segments to speak.    *)
(* The stream is cut into deltas anywhere, and time passes between them.      *)
(*                                                                            *)
(* A text is a sequence of tokens: "<", "!", "-", ">" and " " as such, "R" and *)
(* ":" and "D" for REDLOTUS_GOAL, the colon and the signal of a marker, "w" a *)
(* letter, "1" a digit, "." and "," as such.  What moves are positions in the *)
(* text.  The Markdown parser between the two is left out.                    *)
EXTENDS Naturals, Sequences, SequencesExt, FiniteSets

CONSTANTS Text,        \* the texts the model may say
          MaxHeld,     \* MAX_PENDING
          SegmentSize, \* segment_chars
          MaxSwitches  \* bound on what the user switches

ASSUME SpokenTextAssumption ==
  {MaxHeld, SegmentSize} \subseteq Nat \ {0} /\ MaxSwitches \in Nat

VARIABLES
  text,     \* what the model says
  filter,   \* taken and fed positions, muted up to, whether it discards, whether the stream ended
  speaking, \* the reply: whether there is one, whether it was cancelled, its text, its timer
  spoken,   \* segments, each a sequence of positions
  switch,   \* voice_enabled, and how often it was switched
  ghost     \* positions that are to be silent, handed to the segmenter, consumed by it

spokenVars == <<text, filter, speaking, spoken, switch, ghost>>

Opening == <<"<", "!", "-", "-">>
Closing == <<"-", "-", ">">>
Marker == <<"R", ":", "D", "-", "-">>
LetterOrDigit == {"w", "1", "R", "D"}

NoReply == [on |-> FALSE, cancelled |-> FALSE, pending |-> <<>>, timer |-> "off"]

SpokenInit ==
  /\ text \in Text
  /\ filter = [taken |-> 0, fed |-> 0, muted |-> 0, discarding |-> FALSE, ended |-> FALSE]
  /\ speaking = NoReply /\ spoken = <<>>
  /\ switch = [on |-> TRUE, used |-> 0]
  /\ ghost = [silent |-> {}, handed |-> 0, consumed |-> 0]

-----------------------------------------------------------------------------
(* GoalTextFilter.                                                            *)
Slice(from, to) == SubSeq(text, from, to)
First(what, from, to) ==
  LET found == {i \in from..to - Len(what) + 1 : Slice(i, i + Len(what) - 1) = what}
  IN  IF found = {} THEN 0 ELSE CHOOSE i \in found : \A j \in found : i <= j

\* The body of a comment may yet become a marker: _could_complete_goal.
CouldComplete(body) ==
  /\ IsPrefix(SelectSeq(body, LAMBDA t : t # " "), Marker)
  /\ \A i \in 1..Len(body) - 1 : body[i] = "-" => body[i + 1] # " "
\* GOAL_MARKER_RE, of a comment without its brackets.
IsGoal(body) == SelectSeq(body, LAMBDA t : t # " ") = <<"R", ":", "D">>

\* Positions taken out, of which the muted ones stay silent.
Given(f, to) ==
  LET muted == IF f.muted < to THEN f.muted ELSE to
      from == IF muted > f.taken THEN muted ELSE f.taken
  IN  [n \in 1..to - from |-> from + n]

\* Mutant: one token less.
HeldLess(f) ==
  LET part == {n \in 1..2 : n <= f.fed - f.taken /\ Slice(f.fed - n + 1, f.fed) = SubSeq(Opening, 1, n)}
  IN  IF part = {} THEN 0 ELSE CHOOSE n \in part : \A k \in part : k <= n

\* How much of the end may be the beginning of a comment.
Held(f) ==
  LET part == {n \in 1..3 : n <= f.fed - f.taken /\ Slice(f.fed - n + 1, f.fed) = SubSeq(Opening, 1, n)}
  IN  IF part = {} THEN 0 ELSE CHOOSE n \in part : \A k \in part : k <= n

\* The loop of feed.
RECURSIVE Filtered(_, _, _)
Filtered(f, out, final) ==
  LET start == First(Opening, f.taken + 1, f.fed)
      end == First(Closing, f.taken + 1, f.fed)
      close == First(Closing, start + 4, f.fed)
      Take(to) == [f EXCEPT !.taken = to]
      Keep == Take(IF f.fed - 2 > f.taken THEN f.fed - 2 ELSE f.taken)
  IN  IF f.taken = f.fed THEN [f |-> f, out |-> out]
      ELSE IF f.discarding /\ end = 0 THEN [f |-> Keep, out |-> out]
      ELSE IF f.discarding THEN Filtered([Take(end + 2) EXCEPT !.discarding = FALSE], out, final)
      ELSE IF start = 0
           THEN LET to == f.fed - (IF final THEN 0 ELSE Held(f)) IN [f |-> Take(to), out |-> out \o Given(f, to)]
      ELSE IF start > f.taken + 1 THEN Filtered(Take(start - 1), out \o Given(f, start - 1), final)
      ELSE IF close # 0 /\ IsGoal(Slice(start + 4, close - 1)) THEN Filtered(Take(close + 2), out, final)
      ELSE IF close # 0 \/ ~CouldComplete(Slice(start + 4, f.fed))
           THEN Filtered(Take(start), out \o Given(f, start), final)
      ELSE IF f.fed - f.taken > MaxHeld THEN Filtered([Keep EXCEPT !.discarding = TRUE], out, final)
      ELSE [f |-> f, out |-> out]

\* feed: at the end what is held is dropped, a marker that was never finished.
FeedFilter(f, count, final) ==
  LET r == Filtered([f EXCEPT !.fed = @ + count], <<>>, final)
  IN  IF final THEN [r EXCEPT !.f.taken = r.f.fed, !.f.discarding = FALSE, !.f.ended = TRUE] ELSE r

Mute(f) == [f EXCEPT !.muted = f.fed]

-----------------------------------------------------------------------------
(* TextSegmenter.                                                             *)
TextAt(p, i) == text[p[i]]
RECURSIVE TrimLeft(_)
TrimLeft(p) == IF p # <<>> /\ TextAt(p, 1) = " " THEN TrimLeft(Tail(p)) ELSE p
RECURSIVE TrimRight(_)
TrimRight(p) == IF p # <<>> /\ TextAt(p, Len(p)) = " " THEN TrimRight(Front(p)) ELSE p

\* The first end of a sentence; the point in a number is none.
SentenceEnds(p) ==
  {i \in 1..Len(p) :
     /\ i <= SegmentSize
     /\ \/ TextAt(p, i) = "!"
        \/ /\ TextAt(p, i) = "."
           /\ ~(i > 1 /\ TextAt(p, i - 1) = "1" /\ (i = Len(p) \/ TextAt(p, i + 1) = "1"))}

SplitAt(p) ==
  LET most == IF SegmentSize < Len(p) THEN SegmentSize ELSE Len(p)
      gaps == {i \in 2..most : TextAt(p, i) \in {" ", ","}}
  IN  IF gaps = {} THEN most ELSE CHOOSE i \in gaps : \A j \in gaps : j <= i

\* _pop_segment: where the next segment ends, or 0.
Cut(p, force) ==
  IF SentenceEnds(p) # {} THEN CHOOSE i \in SentenceEnds(p) : \A j \in SentenceEnds(p) : i <= j
  ELSE IF force /\ Len(p) <= SegmentSize THEN Len(p)
  ELSE IF Len(p) < SegmentSize THEN 0
  ELSE SplitAt(p)

RECURSIVE Emitted(_, _)
Emitted(r, force) ==
  LET p == TrimLeft(r.pending)
      end == IF p = <<>> THEN 0 ELSE Cut(p, force)
      segment == TrimRight(SubSeq(p, 1, end))
      rest == TrimLeft(SubSeq(p, end + 1, Len(p)))
  IN  IF end = 0 THEN r
      ELSE Emitted([pending |-> rest, consumed |-> r.consumed + Len(r.pending) - Len(rest),
                    spoken |-> IF segment = <<>> THEN r.spoken ELSE Append(r.spoken, segment)], force)

Trimmed(r) == [r EXCEPT !.pending = TrimLeft(r.pending),
                        !.consumed = @ + Len(r.pending) - Len(TrimLeft(r.pending))]

\* What may be the beginning of a word that goes on.
WordTail(p) ==
  LET n == CHOOSE k \in 0..Len(p) :
             /\ \A i \in k + 1..Len(p) : TextAt(p, i) \in LetterOrDigit \cup {".", "-"}
             /\ k = 0 \/ TextAt(p, k) \notin LetterOrDigit \cup {".", "-"}
  IN  SubSeq(p, n + 1, Len(p))

Waiting == [pending |-> speaking.pending, consumed |-> ghost.consumed, spoken |-> spoken]

-----------------------------------------------------------------------------
Dropped(g, to) == [g EXCEPT !.silent = @ \cup (1..to \ ToSet(FlattenSeq(spoken)))]

\* A reply starts with its first text, never with spaces alone.
Heard(out, g) ==
  IF out = <<>> \/ (~speaking.on /\ \A i \in 1..Len(out) : text[out[i]] = " ")
  THEN UNCHANGED <<speaking, spoken>> /\ ghost' = g
  ELSE LET e == Emitted(Trimmed([pending |-> speaking.pending \o out,
                                 consumed |-> g.consumed, spoken |-> spoken]), FALSE)
       IN  /\ speaking' = [on |-> TRUE, cancelled |-> FALSE, pending |-> e.pending,
                           timer |-> IF e.pending = <<>> THEN "off" ELSE "on"]
           /\ spoken' = e.spoken
           /\ ghost' = [g EXCEPT !.handed = @ + Len(out), !.consumed = e.consumed]

\* CoordinatorStreamHandler, one delta; with the voice off it is followed unheard.
Delta ==
  /\ ~filter.ended /\ ~speaking.cancelled
  /\ \E count \in 1..Len(text) - filter.fed :
       LET r == FeedFilter(filter, count, FALSE)
       IN  IF switch.on
           THEN filter' = r.f /\ Heard(r.out, ghost)
           ELSE /\ filter' = Mute(r.f)
                /\ speaking' = NoReply /\ UNCHANGED spoken
                /\ ghost' = [Dropped(ghost, r.f.fed) EXCEPT !.handed = 0, !.consumed = 0]
  /\ UNCHANGED <<text, switch>>

\* discard_cancelled_voice: before the next delta a reply that was stopped is left.
LeaveStopped ==
  /\ speaking.cancelled /\ ~filter.ended
  /\ filter' = Mute(filter) /\ speaking' = NoReply
  /\ ghost' = [Dropped(ghost, filter.fed) EXCEPT !.handed = 0, !.consumed = 0]
  /\ UNCHANGED <<text, spoken, switch>>

\* The end of the stream, then of the segments.
EndText ==
  /\ ~filter.ended /\ filter.fed = Len(text) /\ ~speaking.cancelled
  /\ LET r == FeedFilter(filter, 0, TRUE)
         e == Emitted(Trimmed([pending |-> speaking.pending \o r.out,
                               consumed |-> ghost.consumed, spoken |-> spoken]), TRUE)
         says == switch.on /\ (speaking.on \/ \E i \in 1..Len(r.out) : text[r.out[i]] # " ")
     IN  /\ filter' = r.f
         /\ IF says
            THEN /\ speaking' = [speaking EXCEPT !.on = TRUE, !.pending = e.pending, !.timer = "off"]
                 /\ spoken' = e.spoken
                 /\ ghost' = [ghost EXCEPT !.handed = @ + Len(r.out), !.consumed = e.consumed]
            ELSE UNCHANGED <<speaking, spoken>> /\ ghost' = Dropped(ghost, Len(text))
  /\ UNCHANGED <<text, switch>>

\* Too long without an end: what there is, except an unfinished word.
FlushTime ==
  /\ speaking.on /\ ~speaking.cancelled /\ ~filter.ended /\ speaking.timer = "on"
  /\ LET p == speaking.pending
         tail == WordTail(p)
         e == Emitted(Trimmed([Waiting EXCEPT !.pending = SubSeq(p, 1, Len(p) - Len(tail))]), TRUE)
     IN  /\ spoken' = e.spoken
         /\ speaking' = [speaking EXCEPT !.pending = e.pending \o tail,
                           !.timer = IF tail = <<>> THEN "off" ELSE "held"]
         /\ ghost' = [ghost EXCEPT !.consumed = e.consumed]
  /\ UNCHANGED <<text, filter, switch>>

\* /voice on and off; off stops what is being said.
SwitchVoice ==
  /\ ~filter.ended /\ switch.used < MaxSwitches
  /\ switch' = [on |-> ~switch.on, used |-> switch.used + 1]
  /\ speaking' = [speaking EXCEPT !.cancelled = @ \/ (speaking.on /\ switch.on),
                                  !.pending = IF switch.on THEN <<>> ELSE @]
  /\ UNCHANGED <<text, filter, spoken, ghost>>

SpokenNext == Delta \/ LeaveStopped \/ EndText \/ FlushTime \/ SwitchVoice

-----------------------------------------------------------------------------
(* What should be heard, of the whole text.                                   *)
Openings == {i \in 1..Len(text) - 3 : Slice(i, i + 3) = Opening}
Close(i) == First(Closing, i + 4, Len(text))
Goals == {i \in Openings : Close(i) # 0 /\ IsGoal(Slice(i + 4, Close(i) - 1))}
Unfinished == {i \in Openings : Close(i) = 0 /\ CouldComplete(Slice(i + 4, Len(text)))}
Meant == {p \in 1..Len(text) :
            /\ \A i \in Goals : p \notin i..Close(i) + 2
            /\ \A i \in Unfinished : p < i}

\* A comment that is too long to be held may be lost as a whole, or not.
TooLong == {i \in Openings : /\ i + MaxHeld <= Len(text)
                             /\ First(Closing, i + 4, i + MaxHeld) = 0
                             /\ CouldComplete(Slice(i + 4, i + MaxHeld))}
Loose == UNION {i..(IF Close(i) = 0 THEN Len(text) ELSE Close(i) + 2) : i \in TooLong}

Said == FlattenSeq(spoken)

(* However the stream is cut and whenever time runs out: markers are never    *)
(* said, all the rest is said once and in order, and nothing that was stopped *)
(* or that came while the voice was off.                                      *)
SaidOnce ==
  /\ \A n \in 1..Len(Said) - 1 : Said[n] < Said[n + 1]
  /\ ToSet(Said) \subseteq Meant \ ghost.silent
  /\ filter.ended => \A p \in (Meant \ Loose) \ ghost.silent : text[p] # " " => p \in ToSet(Said)

(* A word is cut only where a segment is full.                                *)
WordsAreWhole ==
  \A n \in 1..Len(spoken) - 1 :
    LET last == Last(spoken[n]) IN
      Head(spoken[n + 1]) = last + 1 /\ {text[last], text[last + 1]} \subseteq LetterOrDigit
        => Len(spoken[n]) = SegmentSize

(* What waits without a time limit is a word that may go on; and what has     *)
(* gone is counted as consumed, so that the room for text comes back.         *)
NothingIsHeldBack ==
  speaking.on /\ ~speaking.cancelled =>
    /\ ghost.handed = ghost.consumed + Len(speaking.pending)
    /\ speaking.timer # "on" => speaking.pending = WordTail(speaking.pending)
    /\ filter.ended => speaking.pending = <<>>

(* So however the answer is cut into deltas, whenever the flush timer ends and *)
(* the voice is switched, GoalTextFilter.feed and TextSegmenter.segments let   *)
(* the user hear what was written, and nothing else.                          *)
SpokenAsWritten == SaidOnce /\ WordsAreWhole /\ NothingIsHeldBack
=============================================================================
