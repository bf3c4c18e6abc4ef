----------------------------- MODULE FileReview ------------------------------
(***************************************************************************)
(* Changes of files by tools and their review: FileAccessPolicy            *)
(* (runtime/access.py), the writing tools and PendingReviewStore           *)
(* (tools/base_tools.py), and the decisions taken in the review view       *)
(* (ui/tui.py).                                                            *)
(*                                                                         *)
(* A call reads the file and plans its change, asks the user when the file *)
(* is not below WorkDatabase, and works in a thread under the file lock:   *)
(* calls of the coordinator and of Workers run side by side, the user      *)
(* decides from the interface, other programs write the same files.  What  *)
(* is done under the lock is one step; a write by another program between  *)
(* the check of a version and the replacement of the file is outside the   *)
(* model.                                                                  *)
(*                                                                         *)
(* A text is what stands in its parts; a hunk is a set of parts.           *)
(***************************************************************************)
EXTENDS Naturals, FiniteSets

CONSTANTS
  File,
  Internal,    \* the files below WorkDatabase
  Call,        \* tool calls under way at a time
  Part, Value,
  NoText,      \* stands in every part of an empty file
  MaxChanges,  \* bound: calls
  MaxEdits,    \* bound: writes of other programs
  MaxTurns     \* bound: turns

ASSUME FileAssumption ==
  /\ Internal \subseteq File /\ NoText \notin Value
  /\ IsFiniteSet(Call)
  /\ MaxChanges \in Nat /\ MaxEdits \in Nat /\ MaxTurns \in Nat \ {0}

VARIABLES
  disk,       \* the content of each file
  version,    \* its fingerprint: 0 while it is missing
  turn,       \* the turn whose tools may work
  call,       \* what each call does
  approvals,  \* FileAccessPolicy.approvals
  entry,      \* PendingReviewStore._entries
  reviewing,  \* the review mode is on: _on_change is set
  view,       \* what the review view shows of each file
  agreed,     \* history: each file as the user knows it, or agreed to
  foreign,    \* history: a text of another program, while there is an entry
  consent,    \* history: the changes the user said yes to in this turn
  strange,    \* history: a call made another change outside WorkDatabase
  count       \* calls and writes of other programs so far

work == <<turn, call, approvals, consent>>
review == <<entry, reviewing, view, agreed, foreign, strange>>
fileVars == <<disk, version, work, review, count>>

Missing == [exists |-> FALSE, text |-> [p \in Part |-> NoText]]
Empty == [exists |-> TRUE, text |-> [p \in Part |-> NoText]]
Full == {[exists |-> TRUE, text |-> t] : t \in [Part -> Value]}
Content == Full \cup {Missing, Empty}
NoEntry == [id |-> 0, baseline |-> Empty.text, snapshot |-> Empty.text, existed |-> TRUE,
            rejected |-> {}, kept |-> {}]

\* compute_hunks: beside an empty text all is one hunk.
Hunks(old, new) ==
  CASE old = new -> {}
    [] old # new /\ Empty.text \in {old, new} -> {Part}
    [] OTHER -> {{p} : p \in {q \in Part : old[q] # new[q]}}

\* reconstruct: the old side of these hunks, the new one of the others.
Reconstruct(old, new, hunks) == [p \in Part |-> IF p \in UNION hunks THEN old[p] ELSE new[p]]

HunksOf(e) == Hunks(e.baseline, e.snapshot)

\* ReviewEntry: the file as the decisions so far left it.
Expected(e) ==
  IF ~e.existed /\ e.rejected = HunksOf(e) THEN Missing
    ELSE [exists |-> TRUE, text |-> Reconstruct(e.baseline, e.snapshot, e.rejected)]

Scope(c) == call[c].turn = turn
Idle == [at |-> "idle", file |-> CHOOSE f \in File : TRUE, before |-> Missing, after |-> Missing,
         version |-> 0, turn |-> 0]
Proposal(c) == [call[c] EXCEPT !.at = "plan"]
Fingerprint(f) == IF disk[f].exists THEN version[f] ELSE 0

FileTypeOK ==
  /\ disk \in [File -> Content] /\ version \in [File -> Nat \ {0}] /\ turn \in 1..MaxTurns
  /\ \A c \in Call : call[c].at \in {"idle", "plan", "ask", "write"}
  /\ \A f \in File :
       /\ entry[f].rejected \cup entry[f].kept \subseteq HunksOf(entry[f])
       /\ entry[f].rejected \cap entry[f].kept = {}

FileInit ==
  /\ disk \in [File -> {Missing} \cup Full] /\ version = [f \in File |-> 1]
  /\ turn = 1 /\ call = [c \in Call |-> Idle] /\ approvals = {} /\ consent = {} /\ strange = FALSE
  /\ entry = [f \in File |-> NoEntry] /\ reviewing \in BOOLEAN
  /\ view = [f \in File |-> NoEntry] /\ agreed = disk
  /\ foreign = [f \in File |-> Missing]
  /\ count = [changes |-> 0, edits |-> 0]

-----------------------------------------------------------------------------
(* _update_file and delete_file.                                           *)

\* plan_write, plan_delete: the text after the change; none is a deletion.
Plan(c, f, after) ==
  /\ call[c].at = "idle" /\ count.changes < MaxChanges
  /\ after # disk[f]
  /\ call' = [call EXCEPT ![c] = [at |-> "plan", file |-> f, before |-> disk[f], after |-> after,
                                  version |-> Fingerprint(f), turn |-> turn]]
  /\ count' = [count EXCEPT !.changes = @ + 1]
  /\ UNCHANGED <<disk, version, turn, approvals, consent, review>>

\* authorize: approvals of another turn are dropped.
Authorize(c) ==
  /\ call[c].at = "plan"
  /\ LET valid == {a \in approvals : a.turn = call[c].turn} IN
       /\ approvals' = valid
       /\ call' = [call EXCEPT ![c].at =
                     IF call[c].file \in Internal \/ Proposal(c) \in valid THEN "write" ELSE "ask"]
  /\ UNCHANGED <<disk, version, turn, consent, review, count>>

\* confirm: the answer is void when the turn is over.
Answer(c, yes) ==
  /\ call[c].at = "ask"
  /\ IF yes /\ Scope(c)
       THEN /\ approvals' = approvals \cup {Proposal(c)}
            /\ consent' = consent \cup {<<call[c].file, call[c].before, call[c].after>>}
            /\ call' = [call EXCEPT ![c].at = "write"]
       ELSE call' = [call EXCEPT ![c] = Idle] /\ UNCHANGED <<approvals, consent>>
  /\ UNCHANGED <<disk, version, turn, review, count>>

\* A plausible mistake: an approval holds for whatever the file is by now.
VerifiedByTurn(c) == Scope(c)

\* verify, under the file lock.
Verified(c) == Scope(c) /\ Fingerprint(call[c].file) = call[c].version

CheckCurrent(f) == entry[f] # NoEntry => disk[f] = Expected(entry[f])

\* Its fingerprint becomes one that no proposal holds.
Put(f, content) ==
  LET known == {version[f]} \cup {a.version : a \in approvals} \cup {call[c].version : c \in Call} IN
  /\ disk' = [disk EXCEPT ![f] = content]
  /\ version' = [version EXCEPT ![f] = CHOOSE v \in 1..(Cardinality(known) + 1) : v \notin known]

\* What a call changed is what the user said yes to, or is theirs to review.
Witnessed(f, content) ==
  strange' = (strange \/ (f \notin Internal /\ <<f, disk[f], content>> \notin consent))

Forget(f) ==
  /\ entry' = [entry EXCEPT ![f] = NoEntry]
  /\ foreign' = [foreign EXCEPT ![f] = Missing]

\* PendingReviewStore.write: what was kept joins the baseline, what was rejected
\* or is undecided stays what a rejection restores.  The id is another than
\* the view holds.
NewEntry(f, after) ==
  LET old == entry[f]
      restorable == HunksOf(old) \ old.kept
  IN [id |-> IF view[f].id = 1 THEN 2 ELSE 1, rejected |-> {}, kept |-> {}, snapshot |-> after.text,
      baseline |-> IF old = NoEntry THEN disk[f].text
                   ELSE Reconstruct(old.baseline, old.snapshot, restorable),
      existed |-> IF old = NoEntry THEN disk[f].exists ELSE old.existed \/ old.kept # {}]

Write(c) ==
  LET f == call[c].file
      new == NewEntry(f, call[c].after)
  IN
  /\ call[c].at = "write" /\ call[c].after.exists
  /\ call' = [call EXCEPT ![c] = Idle]
  /\ IF CheckCurrent(f) /\ Verified(c) /\ disk[f] = call[c].before
       THEN /\ Put(f, call[c].after) /\ Witnessed(f, call[c].after)
            /\ IF reviewing /\ new.baseline # new.snapshot
                 THEN entry' = [entry EXCEPT ![f] = new] /\ UNCHANGED <<agreed, foreign>>
                 ELSE Forget(f) /\ agreed' = [agreed EXCEPT ![f] = call[c].after]
       ELSE UNCHANGED <<disk, version, entry, agreed, foreign, strange>>
  /\ UNCHANGED <<turn, approvals, consent, reviewing, view, count>>

\* PendingReviewStore.remove
RemoveFile(c) ==
  LET f == call[c].file IN
  /\ call[c].at = "write" /\ ~call[c].after.exists
  /\ call' = [call EXCEPT ![c] = Idle]
  /\ IF Verified(c)
       THEN Put(f, Missing) /\ Witnessed(f, Missing) /\ Forget(f) /\ agreed' = [agreed EXCEPT ![f] = Missing]
       ELSE UNCHANGED <<disk, version, entry, agreed, foreign, strange>>
  /\ UNCHANGED <<turn, approvals, consent, reviewing, view, count>>

\* The turn ends and another one begins; calls of the old one are still there.
NextTurn ==
  /\ turn < MaxTurns /\ turn' = turn + 1 /\ consent' = {}
  /\ UNCHANGED <<disk, version, call, approvals, review, count>>

-----------------------------------------------------------------------------
(* The user: the review view, its decisions, and the mode.                 *)

\* action_review: the view keeps the entries it was opened with.
OpenReview ==
  /\ \E f \in File : entry[f] # NoEntry
  /\ view # entry /\ view' = entry
  /\ UNCHANGED <<disk, version, work, entry, reviewing, agreed, foreign, strange, count>>

\* decide: only on the version that is shown.
Decide(f, hunk, reject) ==
  LET shown == view[f]
      decided == [entry[f] EXCEPT !.rejected = IF reject THEN @ \cup {hunk} ELSE @ \ {hunk},
                                  !.kept = IF reject THEN @ \ {hunk} ELSE @ \cup {hunk}]
  IN
  /\ shown # NoEntry /\ hunk \in HunksOf(shown)
  /\ entry[f].id = shown.id /\ CheckCurrent(f) /\ decided # entry[f]
  /\ Put(f, Expected(decided))
  /\ entry' = [entry EXCEPT ![f] = decided]
  /\ agreed' = [agreed EXCEPT ![f] =
       CASE ~reject -> [exists |-> TRUE, text |-> Reconstruct(shown.snapshot, @.text, {hunk})]
         [] reject /\ hunk \in entry[f].kept ->
              [exists |-> shown.existed \/ decided.kept # {},
               text |-> Reconstruct(shown.baseline, @.text, {hunk})]
         [] OTHER -> @]
  /\ foreign' = [foreign EXCEPT ![f] = Missing]
  /\ UNCHANGED <<work, reviewing, view, strange, count>>

\* finish_decided, as the view closes.
FinishDecided ==
  /\ LET done == {f \in File : entry[f] # NoEntry
                               /\ HunksOf(entry[f]) = entry[f].rejected \cup entry[f].kept}
     IN /\ view # [f \in File |-> NoEntry] /\ view' = [f \in File |-> NoEntry]
        /\ entry' = [f \in File |-> IF f \in done THEN NoEntry ELSE entry[f]]
        /\ agreed' = [f \in File |-> IF f \in done /\ foreign[f] # Missing
                                       THEN disk[f] ELSE agreed[f]]
        /\ foreign' = [f \in File |-> IF f \in done THEN Missing ELSE foreign[f]]
  /\ UNCHANGED <<disk, version, work, reviewing, strange, count>>

\* deactivate, activate: what was not decided stays as it is.
ToggleMode ==
  /\ view = [f \in File |-> NoEntry]
  /\ reviewing' = ~reviewing
  /\ entry' = (IF reviewing THEN [f \in File |-> NoEntry] ELSE entry)
  /\ foreign' = (IF reviewing THEN [f \in File |-> Missing] ELSE foreign)
  /\ agreed' = (IF reviewing THEN disk ELSE agreed)
  /\ UNCHANGED <<disk, version, work, view, strange, count>>

\* Another program, the user's editor for one, writes the file.
Edit(f, content) ==
  /\ count.edits < MaxEdits /\ content.exists /\ content # disk[f]
  /\ count' = [count EXCEPT !.edits = @ + 1]
  /\ Put(f, content)
  /\ IF entry[f] = NoEntry
       THEN agreed' = [agreed EXCEPT ![f] = content] /\ UNCHANGED foreign
       ELSE /\ foreign' = [foreign EXCEPT ![f] =
                             IF content = Expected(entry[f]) THEN Missing ELSE content]
            /\ UNCHANGED agreed
  /\ UNCHANGED <<work, entry, reviewing, view, strange>>

-----------------------------------------------------------------------------
FileNext ==
  \/ \E c \in Call :
       \/ \E f \in File, after \in Content : Plan(c, f, after)
       \/ Authorize(c) \/ Write(c) \/ RemoveFile(c)
       \/ \E yes \in BOOLEAN : Answer(c, yes)
  \/ NextTurn \/ OpenReview \/ FinishDecided \/ ToggleMode
  \/ \E f \in File :
       \/ \E hunk \in HunksOf(view[f]), reject \in BOOLEAN : Decide(f, hunk, reject)
       \/ \E content \in Content : Edit(f, content)

FileSpec == FileInit /\ [][FileNext]_fileVars

-----------------------------------------------------------------------------
\* What a rejection of everything undecided leaves.
Rejected(e) ==
  LET rejected == HunksOf(e) \ e.kept IN
  Expected([e EXCEPT !.rejected = rejected])

\* Through any number of writes and decisions the user can have back what they
\* had, with the hunks they kept; and without an entry the file is what they
\* know it to be (reconstruct and ReviewEntry in PendingReviewStore.write).
UndecidedCanBeUndone ==
  \A f \in File :
    IF entry[f] = NoEntry THEN disk[f] = agreed[f]
      ELSE Rejected(entry[f]) = agreed[f]

\* A text another program wrote over a version under review is not overwritten:
\* neither by a decision nor by the next write (ReviewEntry.check_current).
ForeignTextStays == \A f \in File : foreign[f] # Missing => disk[f] = foreign[f]

\* Outside WorkDatabase a call changes a file only as the user confirmed in this
\* turn, and from the text they were shown (confirm, authorize, verify).
\* Through any number of calls, turns and decisions what the tools do to a file
\* is known to the user and theirs to undo.
ReviewIsFaithful == UndecidedCanBeUndone /\ ForeignTextStays /\ ~strange
=============================================================================
