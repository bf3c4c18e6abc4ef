---------------------------- MODULE MemoryProofs ----------------------------
(***************************************************************************)
(* Proofs about the memory, for every bound.                               *)
(*                                                                         *)
(* Part A, MemoryStore, for every set of processes: type correctness, that *)
(* two processes never both add what they learn at the same time, that a   *)
(* clear is final for older evidence, and that trusted vectors are current *)
(* but for those written while a recall had rebound the index object.      *)
(* publication.lock is held from the checks of Apply to the save, and from *)
(* the start of a clear to its end, so what was checked is still true when *)
(* it is used; the lock of the record table keeps what was embedded as it  *)
(* is until the vectors and marks are written.                             *)
(*                                                                         *)
(* Part B, MemoryWindows: evidence is kept until what it told is           *)
(* published, whatever dies; and no turn is perceived twice, as long as    *)
(* deaths leave at most one job beyond the cursor.  processing.lock makes  *)
(* the stage of a job tell what was done for it, the overlap covers the    *)
(* turn that ends between two statements of a drain, and what the owner    *)
(* read before it sealed leaves out covered turns only.                    *)
(***************************************************************************)
EXTENDS MemoryStore, MemoryWindows, FiniteSetTheorems, TLAPS

-----------------------------------------------------------------------------
(* Part A: the record table, its vectors and MEMORY.md.                       *)

Row == Saved \cup {Missing}
Text == {NoText} \cup (Body \X Model)
StorePlace == {"idle", "search", "found", "apply", "save", "checkpoint", "read", "delete",
          "snapshot", "embed", "commit", "mark"}
Result == Body \cup {"delete", None}
JobState == [id : Id \cup {0}, epoch : Nat, seen : [Id -> Row] \cup {<<>>}, base : Row,
             target : Id \cup {0}, draft : Result]
Texts == {<<>>} \cup UNION {[S -> Body] : S \in SUBSET Id}
WorkState == [at : StorePlace, job : JobState, clear : BOOLEAN, batch : SUBSET Id,
              texts : Texts, by : Model \cup {0}]

Typed ==
  /\ rows \in [Id -> Row] /\ vec \in [Model -> [Id -> Text]]
  /\ model \in Model /\ index \in [Process -> Model]
  /\ publication \in Process \cup {Free} /\ write \in Process \cup {Free}
  /\ work \in [Process -> WorkState]
  /\ cleared \in Nat /\ clearing \in BOOLEAN /\ jobs \in 0..MaxJobs

\* A job's result is about the one record that its search found, or about a
\* new one if it found none.
JobOK(w) ==
  /\ w.at \in {"search", "found", "apply", "save", "checkpoint"} => w.job.id \in Id
  /\ w.at = "found" => w.job.seen \in [Id -> Row]
  /\ w.at \in {"apply", "save", "checkpoint"} =>
       /\ w.job.seen \in [Id -> Row] /\ w.job.target \in Id
       /\ w.job.draft \in Body \cup {"delete"} /\ w.job.base = w.job.seen[w.job.target]
       /\ w.job.draft = "delete" => w.job.seen[w.job.target].state = "active"
       /\ \A i \in Id : w.job.seen[i].state = "active" =>
            w.job.seen[w.job.target].state = "active"
  /\ w.at \in {"commit", "mark"} => w.by \in Model

\* Who holds which lock where.
LocksOK(p, w, published, written) ==
  /\ w.at \in {"save", "checkpoint"} \/ w.clear => published = p
  /\ w.at \in {"read", "delete"} => w.clear
  /\ w.at \in {"idle", "search", "found", "apply", "save", "checkpoint"} => ~w.clear
  /\ w.at = "mark" => written = p

\* What was checked is still so when it is used: by a save what Apply found,
\* and by a write of vectors the text that was embedded.
StillTrue(w) ==
  /\ w.at = "save" =>
       /\ w.job.epoch >= cleared
       /\ \/ rows[w.job.target].change = w.job.id
          \/ /\ rows[w.job.target].version = w.job.base.version
             /\ \/ w.job.draft = "delete"
                \/ \A i \in Id : w.job.seen[i].state = rows[i].state
  /\ w.at = "mark" => \A i \in w.batch : i \in Active /\ w.texts[i] = rows[i].body

\* A clear deletes all there is.
ClearsAll(w) == w.at = "delete" => w.batch = Active

OneActive == \A i, j \in Active : i = j

PublishInv ==
  /\ Typed
  /\ \A p \in Process : /\ LocksOK(p, work[p], publication, write)
                         /\ JobOK(work[p]) /\ StillTrue(work[p]) /\ ClearsAll(work[p])
  /\ OneActive /\ ClearedStaysForgotten

\* Deleted records keep their vectors, and may come back with the same text.
MarksAreTrue ==
  \A i \in Id, m \in Model :
    rows[i].mark = <<rows[i].body, m>> /\ vec[m][i] # NoText =>
      vec[m][i] = <<rows[i].body, m>> \/ <<i, m>> \in mixed

\* What is about to be written is by the bound model, or the history knows.
BoundOrNoted ==
  \A p \in Process :
    work[p].at = "mark" /\ work[p].batch # {} => index[p] = work[p].by \/ p \in rebound

IndexInv == BoundOrNoted /\ MarksAreTrue

-----------------------------------------------------------------------------
(* What the steps of a process do to its place and job.                    *)

\* A step of p leaves the work of the others alone.
Works(p, w) == w \in WorkState /\ work' = [work EXCEPT ![p] = w]

\* Putting one process into another state of work.
LEMMA WorkLemma ==
  ASSUME Typed, NEW p \in Process, NEW w, Works(p, w)
  PROVE  /\ work' \in [Process -> WorkState] /\ work'[p] = w
         /\ \A q \in Process : q # p => work'[q] = work[q]
BY DEF Typed, Works

\* A process at rest has a state of work.
LEMMA IdleLemma == Idle \in WorkState
<1>1. NoJob \in JobState
  <2>1. Missing \in Row
    BY DEF Row
  <2> QED BY <2>1 DEF NoJob, JobState, Result
<1>2. <<>> \in Texts
  BY DEF Texts
<1> QED BY <1>1, <1>2 DEF Idle, WorkState, StorePlace

\* Moving a process on leaves its job as it is.
LEMMA MoveLemma ==
  ASSUME Typed, NEW p \in Process, NEW place \in StorePlace
  PROVE  Move(p, place) = [work EXCEPT ![p] = [work[p] EXCEPT !.at = place]]
         /\ [work[p] EXCEPT !.at = place] \in WorkState
BY DEF Typed, Move, WorkState

\* A revision shows the states and versions of the rows as they are.
LEMMA RevisionLemma ==
  ASSUME Typed
  PROVE  /\ Revision \in [Id -> Row]
         /\ \A i \in Id : Revision[i].state = rows[i].state /\ Revision[i].version = rows[i].version
<1>1. ASSUME NEW i \in Id
      PROVE  /\ [rows[i] EXCEPT !.mark = NoText] \in Row
             /\ [rows[i] EXCEPT !.mark = NoText].state = rows[i].state
             /\ [rows[i] EXCEPT !.mark = NoText].version = rows[i].version
  <2>1. CASE rows[i] \in Saved
    BY <2>1 DEF Row, Saved
  <2>2. CASE rows[i] = Missing
    <3>1. [rows[i] EXCEPT !.mark = NoText] = Missing
      BY <2>2 DEF Missing
    <3> QED BY <2>2, <3>1 DEF Row
  <2> QED BY <2>1, <2>2 DEF Typed, Row
<1> QED BY <1>1 DEF Revision

\* A step that leaves the records and the clears alone, and takes no lock from
\* another process.
LEMMA QuietLemma ==
  ASSUME PublishInv, Typed', NEW p \in Process, NEW w, Works(p, w),
         UNCHANGED <<rows, cleared, clearing>>,
         publication' = publication \/ publication \in {p, Free},
         write' = write \/ write \in {p, Free},
         JobOK(w), LocksOK(p, w, publication', write'), StillTrue(w), ClearsAll(w)
  PROVE  PublishInv'
<1> USE DEF PublishInv
<1>1. /\ work'[p] = w
      /\ \A q \in Process : q # p => work'[q] = work[q]
  BY WorkLemma
<1>2. ASSUME NEW q \in Process
      PROVE  JobOK(work[q])' /\ StillTrue(work[q])' /\ ClearsAll(work[q])'
  <2>1. CASE q = p
    BY <1>1, <2>1 DEF JobOK, StillTrue, ClearsAll, Active
  <2>2. CASE q # p
    BY <1>1, <2>2 DEF JobOK, StillTrue, ClearsAll, Active
  <2> QED BY <2>1, <2>2
<1>3. ASSUME NEW q \in Process PROVE LocksOK(q, work[q], publication, write)'
  <2>1. CASE q = p
    BY <1>1, <2>1 DEF LocksOK
  <2>2. CASE q # p
    BY <1>1, <2>2, StoreAssumption DEF LocksOK, Free
  <2> QED BY <2>1, <2>2
<1>4. OneActive' /\ ClearedStaysForgotten'
  BY DEF OneActive, ClearedStaysForgotten, Active
<1> QED BY <1>2, <1>3, <1>4

\* A process that finishes comes to rest and lets its lock go.
LEMMA FinishLemma ==
  ASSUME NEW p \in Process, Typed, Finish(p), LocksOK(p, work[p], publication, write)
  PROVE  /\ Works(p, Idle) /\ work' \in [Process -> WorkState]
         /\ publication' \in Process \cup {Free}
         /\ publication' = publication \/ publication \in {p, Free}
         /\ JobOK(Idle) /\ LocksOK(p, Idle, publication', write') /\ StillTrue(Idle) /\ ClearsAll(Idle)
<1>1. Works(p, Idle)
  BY IdleLemma DEF Finish, Works
<1>2. JobOK(Idle) /\ LocksOK(p, Idle, publication', write') /\ StillTrue(Idle) /\ ClearsAll(Idle)
  BY DEF JobOK, LocksOK, StillTrue, ClearsAll, Idle
<1>3. publication' = publication \/ (publication = p /\ publication' = Free)
  BY DEF Finish, LocksOK
<1> QED BY <1>1, <1>2, <1>3, WorkLemma DEF Typed

\* Vectors that are written are of texts by models.
LEMMA VectorsLemma ==
  ASSUME NEW p \in Process, Typed, work[p].by \in Model,
         \A i \in work[p].batch : i \in Active /\ work[p].texts[i] = rows[i].body,
         vec' = [vec EXCEPT ![index[p]] = [i \in Id |-> IF i \in work[p].batch
                                             THEN <<work[p].texts[i], work[p].by>> ELSE @[i]]]
  PROVE  vec' \in [Model -> [Id -> Text]]
<1>1. ASSUME NEW i \in work[p].batch PROVE <<work[p].texts[i], work[p].by>> \in Text
  <2>1. rows[i].body \in Body
    BY DEF Typed, Active, Row, Saved, Missing, None
  <2> QED BY <2>1 DEF Text
<1>2. [i \in Id |-> IF i \in work[p].batch THEN <<work[p].texts[i], work[p].by>>
                    ELSE vec[index[p]][i]] \in [Id -> Text]
  BY <1>1 DEF Typed
<1> QED BY <1>2 DEF Typed

\* The invariant holds at first.
LEMMA StoreInitially == StoreInit => PublishInv
<1> SUFFICES ASSUME StoreInit PROVE PublishInv
  OBVIOUS
<1> USE StoreAssumption DEF StoreInit
<1>1. Typed
  <2>1. rows \in [Id -> Row] /\ model \in Model /\ index \in [Process -> Model]
    BY DEF Row, Model
  <2>2. vec \in [Model -> [Id -> Text]] /\ jobs \in 0..MaxJobs
    BY DEF Text
  <2>3. work \in [Process -> WorkState]
    BY IdleLemma
  <2> QED BY <2>1, <2>2, <2>3 DEF Typed
<1>2. \A p \in Process : /\ LocksOK(p, work[p], publication, write)
                         /\ JobOK(work[p]) /\ StillTrue(work[p]) /\ ClearsAll(work[p])
  BY DEF JobOK, LocksOK, StillTrue, ClearsAll, Idle
<1>3. Active = {}
  BY DEF Active, Missing, None
<1>4. OneActive /\ ClearedStaysForgotten
  BY <1>3 DEF OneActive, ClearedStaysForgotten
<1> QED BY <1>1, <1>2, <1>4 DEF PublishInv

\* Every step keeps it.
LEMMA StoreStep == PublishInv /\ [StoreNext]_storeVars => PublishInv'
<1> SUFFICES ASSUME PublishInv, [StoreNext]_storeVars PROVE PublishInv'
  OBVIOUS
<1> USE StoreAssumption
<1>0. Typed
  BY DEF PublishInv
<1>1. ASSUME NEW p \in Process, BeginJob(p) PROVE PublishInv'
  <2> DEFINE j == [NoJob EXCEPT !.id = jobs + 1, !.epoch = cleared]
             w == [Idle EXCEPT !.at = "search", !.job = j]
  <2>1. j \in JobState /\ j.id \in Id
    <3>1. NoJob \in JobState
      BY IdleLemma DEF Idle, WorkState
    <3>2. jobs + 1 \in Id /\ cleared \in Nat
      BY <1>0, <1>1 DEF Typed, BeginJob, Id
    <3> QED BY <3>1, <3>2 DEF JobState
  <2>2. w \in WorkState /\ w.at = "search" /\ ~w.clear /\ w.job = j
    BY <2>1, IdleLemma DEF WorkState, StorePlace, Idle
  <2>3. Works(p, w)
    BY <1>1, <2>2 DEF Works, BeginJob
  <2> HIDE DEF w, j
  <2>4. Typed'
    BY <1>0, <1>1, <2>3, WorkLemma DEF Typed, BeginJob
  <2>5. JobOK(w) /\ LocksOK(p, w, publication', write') /\ StillTrue(w) /\ ClearsAll(w)
    BY <2>1, <2>2 DEF JobOK, LocksOK, StillTrue, ClearsAll
  <2> QED BY <1>1, <2>3, <2>4, <2>5, QuietLemma DEF BeginJob
<1>2. ASSUME NEW p \in Process, Search(p) PROVE PublishInv'
  <2> DEFINE j == [work[p].job EXCEPT !.seen = Revision]
             w == [work[p] EXCEPT !.at = "found", !.job = j]
  <2>0. work[p] \in WorkState /\ work[p].at = "search" /\ JobOK(work[p])
        /\ LocksOK(p, work[p], publication, write)
    BY <1>2 DEF PublishInv, Typed, Search
  <2>1. j \in JobState /\ j.id = work[p].job.id /\ j.seen = Revision
    BY <1>0, <2>0, RevisionLemma DEF JobState, WorkState
  <2>2. w \in WorkState /\ w.at = "found" /\ w.clear = work[p].clear /\ w.job = j
    BY <2>0, <2>1 DEF WorkState, StorePlace
  <2>3. work' = [work EXCEPT ![p] = w]
    BY <1>0, <1>2, <2>0 DEF Search, Move, Typed, WorkState, JobState
  <2> HIDE DEF w, j
  <2>4. Works(p, w)
    BY <2>2, <2>3 DEF Works
  <2>5. Typed'
    BY <1>0, <1>2, <2>4, WorkLemma DEF Typed, Search
  <2>6. JobOK(w) /\ LocksOK(p, w, publication', write') /\ StillTrue(w) /\ ClearsAll(w)
    BY <1>0, <1>2, <2>0, <2>1, <2>2, RevisionLemma
       DEF JobOK, LocksOK, StillTrue, ClearsAll, Search
  <2> QED BY <1>2, <2>4, <2>5, <2>6, QuietLemma DEF Search
<1>3. ASSUME NEW p \in Process, Draft(p) PROVE PublishInv'
  <2>0. work[p] \in WorkState /\ work[p].at = "found" /\ JobOK(work[p])
        /\ LocksOK(p, work[p], publication, write)
    BY <1>3 DEF PublishInv, Typed, Draft
  <2>1. CASE work[p].job.seen # Revision
    <3> DEFINE w == [work[p] EXCEPT !.at = "search"]
    <3>1. Works(p, w)
      BY <1>0, <1>3, <2>1, MoveLemma DEF Draft, Works, StorePlace
    <3>2. w.at = "search" /\ w.clear = work[p].clear /\ w.job = work[p].job
      BY <2>0 DEF WorkState
    <3> HIDE DEF w
    <3>3. Typed'
      BY <1>0, <1>3, <3>1, WorkLemma DEF Typed, Draft
    <3>4. JobOK(w) /\ LocksOK(p, w, publication', write') /\ StillTrue(w) /\ ClearsAll(w)
      BY <1>3, <2>0, <3>2 DEF JobOK, LocksOK, StillTrue, ClearsAll, Draft
    <3> QED BY <1>3, <3>1, <3>3, <3>4, QuietLemma DEF Draft
  <2>2. CASE work[p].job.seen = Revision
    <3>1. PICK i \in IF Active = {} THEN {work[p].job.id} ELSE Active, d \in Body \cup {"delete"} :
            /\ d = "delete" => Active # {}
            /\ work' = [Move(p, "apply") EXCEPT ![p].job.target = i, ![p].job.base = Revision[i],
                                              ![p].job.draft = d]
      BY <1>3, <2>2 DEF Draft
    <3>2. i \in Id /\ (d = "delete" => i \in Active) /\ (Active # {} => i \in Active)
      BY <2>0, <3>1 DEF JobOK, Active
    <3> DEFINE j == [work[p].job EXCEPT !.target = i, !.base = Revision[i], !.draft = d]
               w == [work[p] EXCEPT !.at = "apply", !.job = j]
    <3>3. j \in JobState /\ j.id = work[p].job.id /\ j.seen = Revision /\ j.target = i
          /\ j.base = Revision[i] /\ j.draft = d
      BY <1>0, <2>0, <2>2, <3>2, RevisionLemma DEF JobState, WorkState, Result
    <3>4. w \in WorkState /\ w.at = "apply" /\ w.clear = work[p].clear /\ w.job = j
      BY <2>0, <3>3 DEF WorkState, StorePlace
    <3>5. work' = [work EXCEPT ![p] = w]
      BY ZenonT(40), <1>0, <2>0, <3>1 DEF Move, Typed, WorkState, JobState
    <3> HIDE DEF w, j
    <3>6. Works(p, w)
      BY <3>4, <3>5 DEF Works
    <3>7. Typed'
      BY <1>0, <1>3, <3>6, WorkLemma DEF Typed, Draft
    <3>8. JobOK(w)
      BY <1>0, <2>0, <3>2, <3>3, <3>4, RevisionLemma DEF JobOK, Active
    <3>9. LocksOK(p, w, publication', write') /\ StillTrue(w) /\ ClearsAll(w)
      BY <1>3, <2>0, <3>4 DEF LocksOK, StillTrue, ClearsAll, Draft
    <3> QED BY <1>3, <3>6, <3>7, <3>8, <3>9, QuietLemma DEF Draft
  <2> QED BY <2>1, <2>2
<1>4. ASSUME NEW p \in Process, Apply(p) PROVE PublishInv'
  <2>0. work[p] \in WorkState /\ work[p].at = "apply" /\ JobOK(work[p]) /\ publication = Free
        /\ LocksOK(p, work[p], publication, write)
    BY <1>4 DEF PublishInv, Typed, Apply
  <2>1. CASE work' = Move(p, "search") /\ UNCHANGED publication
    <3> DEFINE w == [work[p] EXCEPT !.at = "search"]
    <3>1. Works(p, w)
      BY <1>0, <2>1, MoveLemma DEF Works, StorePlace
    <3>2. w.at = "search" /\ w.clear = work[p].clear /\ w.job = work[p].job
      BY <2>0 DEF WorkState
    <3> HIDE DEF w
    <3>3. Typed'
      BY <1>0, <1>4, <2>1, <3>1, WorkLemma DEF Typed, Apply
    <3>4. JobOK(w) /\ LocksOK(p, w, publication', write') /\ StillTrue(w) /\ ClearsAll(w)
      BY <1>4, <2>0, <2>1, <3>2 DEF JobOK, LocksOK, StillTrue, ClearsAll, Apply
    <3> QED BY <1>4, <2>1, <3>1, <3>3, <3>4, QuietLemma DEF Apply
  <2>2. CASE work' = [work EXCEPT ![p] = [Idle EXCEPT !.at = "snapshot"]] /\ UNCHANGED publication
    <3> DEFINE w == [Idle EXCEPT !.at = "snapshot"]
    <3>1. w \in WorkState /\ w.at = "snapshot" /\ ~w.clear
      BY IdleLemma DEF Idle, WorkState, StorePlace
    <3>2. Works(p, w)
      BY <2>2, <3>1 DEF Works
    <3> HIDE DEF w
    <3>3. Typed'
      BY <1>0, <1>4, <2>2, <3>2, WorkLemma DEF Typed, Apply
    <3>4. JobOK(w) /\ LocksOK(p, w, publication', write') /\ StillTrue(w) /\ ClearsAll(w)
      BY <3>1 DEF JobOK, LocksOK, StillTrue, ClearsAll
    <3> QED BY <1>4, <2>2, <3>2, <3>3, <3>4, QuietLemma DEF Apply
  <2>3. CASE /\ work' = Move(p, "save") /\ publication' = p
             /\ Found(p) /\ SameBase(p) /\ work[p].job.epoch >= cleared
    <3> DEFINE w == [work[p] EXCEPT !.at = "save"]
    <3>1. Works(p, w)
      BY <1>0, <2>3, MoveLemma DEF Works, StorePlace
    <3>2. w.at = "save" /\ w.clear = work[p].clear /\ w.job = work[p].job
      BY <2>0 DEF WorkState
    <3> HIDE DEF w
    <3>3. Typed'
      BY <1>0, <1>4, <2>3, <3>1, WorkLemma DEF Typed, Apply
    <3>4. JobOK(w) /\ LocksOK(p, w, publication', write') /\ ClearsAll(w)
      BY <1>4, <2>0, <2>3, <3>2 DEF JobOK, LocksOK, ClearsAll, Apply
    <3>5. StillTrue(w)
      BY <1>0, <2>3, <3>2, RevisionLemma DEF StillTrue, Found, SameBase, Own
    <3> QED BY <1>4, <2>0, <2>3, <3>1, <3>3, <3>4, <3>5, QuietLemma DEF Apply
  <2>4. work[p].job.epoch < cleared \/ work[p].job.epoch >= cleared
    BY <1>0, <2>0 DEF Typed, WorkState, JobState
  <2> QED BY <1>4, <2>1, <2>2, <2>3, <2>4 DEF Apply
<1>5. ASSUME NEW p \in Process, Save(p) PROVE PublishInv'
  <2> DEFINE w == [work[p] EXCEPT !.at = "checkpoint"]
             job == work[p].job
             old == rows[job.target]
  <2>0. work[p] \in WorkState /\ work[p].at = "save" /\ JobOK(work[p]) /\ StillTrue(work[p])
        /\ publication = p /\ LocksOK(p, work[p], publication, write)
    BY <1>5 DEF PublishInv, Typed, Save, LocksOK
  <2>1. Works(p, w)
    BY <1>0, <1>5, MoveLemma DEF Works, StorePlace, Save
  <2>2. w.at = "checkpoint" /\ w.clear = work[p].clear /\ w.job = job
    BY <2>0 DEF WorkState
  <2> HIDE DEF w
  <2>3. JobOK(w) /\ LocksOK(p, w, publication', write') /\ StillTrue(w) /\ ClearsAll(w)
    BY <1>5, <2>0, <2>2 DEF JobOK, LocksOK, StillTrue, ClearsAll, Save
  <2>4. CASE Own(p)
    <3>1. Typed' /\ UNCHANGED rows
      BY <1>0, <1>5, <2>1, <2>4, WorkLemma DEF Typed, Save
    <3> QED BY <1>5, <2>1, <2>3, <3>1, QuietLemma DEF Save
  <2>5. CASE ~Own(p)
    <3>1. rows' = [rows EXCEPT ![job.target] = Record(p)]
      BY <1>5, <2>5 DEF Save
    <3>2. job.target \in Id /\ job.id \in Id /\ job.epoch \in Nat /\ job.epoch >= cleared
          /\ job.draft \in Body \cup {"delete"} /\ job.seen \in [Id -> Row]
          /\ job.base = job.seen[job.target] /\ old.version = job.base.version
      BY <2>0, <2>5 DEF JobOK, StillTrue, Own, WorkState, JobState
    <3>3. ASSUME job.draft = "delete" PROVE old \in Saved
      <4>1. job.base.state = "active" /\ job.base \in Row
        BY <2>0, <3>2, <3>3 DEF JobOK
      <4>2. job.base.version > 0
        BY <4>1 DEF Row, Saved, Missing, None
      <4> QED BY <1>0, <3>2, <4>2 DEF Typed, Row, Missing
    <3>4. old.version \in Nat /\ old.mark \in Text
      <4>1. CASE old \in Saved
        BY <4>1 DEF Saved, Text
      <4>2. CASE old = Missing
        BY <4>2 DEF Missing, Text
      <4> QED BY <1>0, <3>2, <4>1, <4>2 DEF Typed, Row
    <3>5. Record(p) \in Saved /\ Record(p).source = job.epoch
          /\ (Record(p).state = "active" => job.draft # "delete")
      <4>1. CASE job.draft = "delete"
        BY <3>2, <3>3, <3>4, <4>1 DEF Record, Saved, Text
      <4>2. CASE job.draft # "delete"
        BY <3>2, <3>4, <4>2 DEF Record, Saved, Text
      <4> QED BY <4>1, <4>2
    <3>6. rows' \in [Id -> Row] /\ rows'[job.target] = Record(p)
          /\ \A i \in Id : i # job.target => rows'[i] = rows[i]
      BY <1>0, <3>1, <3>2, <3>5 DEF Typed, Row
    <3>7. Typed'
      BY <1>0, <1>5, <2>1, <3>6, WorkLemma DEF Typed, Save
    <3>8. ASSUME NEW q \in Process
          PROVE  /\ LocksOK(q, work[q], publication, write)'
                 /\ JobOK(work[q])' /\ StillTrue(work[q])' /\ ClearsAll(work[q])'
      <4>1. CASE q = p
        <5>1. work'[q] = w
          BY <1>0, <2>1, <4>1, WorkLemma
        <5>2. LocksOK(q, work[q], publication, write)'
          BY <2>3, <4>1, <5>1 DEF LocksOK
        <5>3. JobOK(work[q])'
          BY <2>3, <5>1 DEF JobOK
        <5>4. StillTrue(work[q])' /\ ClearsAll(work[q])'
          BY <2>2, <5>1 DEF StillTrue, ClearsAll
        <5> QED BY <5>2, <5>3, <5>4
      <4>2. CASE q # p
        <5>1. work'[q] = work[q] /\ LocksOK(q, work[q], publication, write) /\ JobOK(work[q])
          BY <1>0, <2>1, <4>2, WorkLemma DEF PublishInv
        <5>2. work[q].at \notin {"save", "delete", "mark"}
          BY <1>5, <2>0, <4>2, <5>1 DEF LocksOK, Save, Free
        <5> QED BY <1>5, <5>1, <5>2 DEF LocksOK, JobOK, StillTrue, ClearsAll, Save
      <4> QED BY <4>1, <4>2
    <3>9. OneActive'
      <4>1. ASSUME NEW i \in Id, i # job.target, rows[i].state = "active", job.draft # "delete"
            PROVE  FALSE
        <5>1. \A k \in Id : job.seen[k].state = rows[k].state
          BY <2>0, <2>5, <4>1 DEF StillTrue, Own
        <5>2. rows[job.target].state = "active"
          BY <2>0, <3>2, <4>1, <5>1 DEF JobOK
        <5> QED BY <3>2, <4>1, <5>2 DEF PublishInv, OneActive, Active
      <4>2. ASSUME NEW i \in Active', NEW k \in Active' PROVE i = k
        BY <3>5, <3>6, <4>1, <4>2 DEF PublishInv, OneActive, Active
      <4> QED BY <4>2 DEF OneActive
    <3>10. ClearedStaysForgotten'
      BY <1>5, <3>2, <3>5, <3>6 DEF PublishInv, ClearedStaysForgotten, Active, Save
    <3> QED BY <3>7, <3>8, <3>9, <3>10 DEF PublishInv
  <2> QED BY <2>4, <2>5
<1>6. ASSUME NEW p \in Process, CheckpointRecords(p) PROVE PublishInv'
  <2> DEFINE w == [Idle EXCEPT !.at = "snapshot"]
  <2>0. publication = p
    BY <1>6 DEF PublishInv, CheckpointRecords, LocksOK
  <2>1. w \in WorkState /\ w.at = "snapshot" /\ ~w.clear
    BY IdleLemma DEF Idle, WorkState, StorePlace
  <2>2. Works(p, w)
    BY <1>6, <2>1 DEF Works, CheckpointRecords
  <2> HIDE DEF w
  <2>3. Typed'
    BY <1>0, <1>6, <2>2, WorkLemma DEF Typed, CheckpointRecords
  <2>4. JobOK(w) /\ LocksOK(p, w, publication', write') /\ StillTrue(w) /\ ClearsAll(w)
    BY <2>1 DEF JobOK, LocksOK, StillTrue, ClearsAll
  <2> QED BY <1>6, <2>0, <2>2, <2>3, <2>4, QuietLemma DEF CheckpointRecords
<1>7. ASSUME NEW p \in Process, BeginClear(p) PROVE PublishInv'
  <2> DEFINE w == [Idle EXCEPT !.at = "read", !.clear = TRUE]
  <2>1. w \in WorkState /\ w.at = "read" /\ w.clear
    BY IdleLemma DEF Idle, WorkState, StorePlace
  <2>2. Works(p, w)
    BY <1>7, <2>1 DEF Works, BeginClear
  <2> HIDE DEF w
  <2>3. Typed'
    BY <1>0, <1>7, <2>2, WorkLemma DEF Typed, BeginClear
  <2>4. ASSUME NEW q \in Process
        PROVE  /\ LocksOK(q, work[q], publication, write)'
               /\ JobOK(work[q])' /\ StillTrue(work[q])' /\ ClearsAll(work[q])'
    <3>1. CASE q = p
      BY <1>0, <1>7, <2>1, <2>2, <3>1, WorkLemma
         DEF LocksOK, JobOK, StillTrue, ClearsAll, BeginClear
    <3>2. CASE q # p
      <4>1. /\ work'[q] = work[q] /\ LocksOK(q, work[q], publication, write) /\ JobOK(work[q])
            /\ StillTrue(work[q])
        BY <1>0, <2>2, <3>2, WorkLemma DEF PublishInv
      <4>2. work[q].at \notin {"save", "checkpoint", "delete"} /\ ~work[q].clear
        BY <1>7, <4>1 DEF LocksOK, BeginClear, Free
      <4> QED BY <1>7, <4>1, <4>2 DEF LocksOK, JobOK, StillTrue, ClearsAll, BeginClear, Active
    <3> QED BY <3>1, <3>2
  <2>5. OneActive' /\ ClearedStaysForgotten'
    BY <1>7 DEF PublishInv, OneActive, Active, ClearedStaysForgotten, BeginClear
  <2> QED BY <2>3, <2>4, <2>5 DEF PublishInv
<1>8. ASSUME NEW p \in Process, ReadAll(p) PROVE PublishInv'
  <2> DEFINE w == [work[p] EXCEPT !.at = "delete", !.batch = Active]
  <2>0. work[p] \in WorkState /\ work[p].at = "read" /\ LocksOK(p, work[p], publication, write)
    BY <1>8 DEF PublishInv, Typed, ReadAll
  <2>1. w \in WorkState /\ w.at = "delete" /\ w.clear = work[p].clear /\ w.batch = Active
    BY <2>0 DEF WorkState, StorePlace, Active
  <2>2. work' = [work EXCEPT ![p] = w]
    BY <1>0, <1>8, <2>0 DEF ReadAll, Move, Typed, WorkState
  <2> HIDE DEF w
  <2>3. Works(p, w)
    BY <2>1, <2>2 DEF Works
  <2>4. Typed'
    BY <1>0, <1>8, <2>3, WorkLemma DEF Typed, ReadAll
  <2>5. JobOK(w) /\ LocksOK(p, w, publication', write') /\ StillTrue(w) /\ ClearsAll(w)
    BY <1>8, <2>0, <2>1 DEF JobOK, LocksOK, StillTrue, ClearsAll, ReadAll
  <2> QED BY <1>8, <2>3, <2>4, <2>5, QuietLemma DEF ReadAll
<1>9. ASSUME NEW p \in Process, DeleteAll(p) PROVE PublishInv'
  <2> DEFINE w == [work[p] EXCEPT !.at = "snapshot", !.batch = {}]
  <2>0. /\ work[p] \in WorkState /\ work[p].at = "delete" /\ LocksOK(p, work[p], publication, write)
        /\ work[p].clear /\ publication = p /\ work[p].batch = Active
    BY <1>9 DEF PublishInv, Typed, DeleteAll, LocksOK, ClearsAll
  <2>1. w \in WorkState /\ w.at = "snapshot" /\ w.clear
    BY <2>0 DEF WorkState, StorePlace
  <2>2. work' = [work EXCEPT ![p] = w]
    BY <1>0, <1>9, <2>0 DEF DeleteAll, Move, Typed, WorkState
  <2> HIDE DEF w
  <2>3. Works(p, w)
    BY <2>1, <2>2 DEF Works
  <2>4. ASSUME NEW i \in Id
        PROVE rows'[i] \in Row /\ rows'[i].state # "active"
    <3>1. CASE i \notin work[p].batch
      BY <1>0, <1>9, <2>0, <3>1 DEF DeleteAll, Typed, Active
    <3>2. CASE i \in work[p].batch
      <4>1. rows'[i] = [rows[i] EXCEPT !.state = "deleted", !.version = @ + 1, !.change = 0]
        BY <1>9, <3>2 DEF DeleteAll
      <4>2. rows[i] \in Saved
        BY <1>0, <2>0, <3>2 DEF Typed, Row, Active, Missing, None
      <4>3. rows[i].version + 1 \in Nat \ {0}
        BY <4>2 DEF Saved
      <4>4. [rows[i] EXCEPT !.state = "deleted", !.version = @ + 1, !.change = 0] \in Saved
        BY <4>2, <4>3 DEF Saved
      <4>5. rows'[i].state = "deleted"
        BY <4>1, <4>2 DEF Saved
      <4> QED BY <4>1, <4>4, <4>5 DEF Row
    <3> QED BY <3>1, <3>2
  <2>5. rows' \in [Id -> Row]
    BY <1>9, <2>4 DEF DeleteAll
  <2>6. Typed'
    BY <1>0, <1>9, <2>3, <2>5, WorkLemma DEF Typed, DeleteAll
  <2>7. ASSUME NEW q \in Process
        PROVE  /\ LocksOK(q, work[q], publication, write)'
               /\ JobOK(work[q])' /\ StillTrue(work[q])' /\ ClearsAll(work[q])'
    <3>1. CASE q = p
      BY <1>0, <1>9, <2>0, <2>1, <2>3, <3>1, WorkLemma
         DEF LocksOK, JobOK, StillTrue, ClearsAll, DeleteAll
    <3>2. CASE q # p
      <4>1. work'[q] = work[q] /\ LocksOK(q, work[q], publication, write) /\ JobOK(work[q])
        BY <1>0, <2>3, <3>2, WorkLemma DEF PublishInv
      <4>2. work[q].at \notin {"save", "delete", "mark"}
        BY <1>9, <2>0, <3>2, <4>1 DEF LocksOK, DeleteAll, Free
      <4> QED BY <1>9, <4>1, <4>2 DEF LocksOK, JobOK, StillTrue, ClearsAll, DeleteAll
    <3> QED BY <3>1, <3>2
  <2>8. OneActive' /\ ClearedStaysForgotten'
    BY <2>4 DEF OneActive, Active, ClearedStaysForgotten
  <2> QED BY <2>6, <2>7, <2>8 DEF PublishInv
<1>10. ASSUME NEW p \in Process, Snapshot(p) PROVE PublishInv'
  <2> DEFINE left == [i \in Id |-> IF i \in Active THEN vec[model][i] ELSE NoText]
             todo == {i \in Active : rows[i].mark # <<rows[i].body, model>> \/ left[i] = NoText}
  <2>0. work[p] \in WorkState /\ work[p].at = "snapshot" /\ LocksOK(p, work[p], publication, write)
    BY <1>10 DEF PublishInv, Typed, Snapshot
  <2>1. vec' = [vec EXCEPT ![model] = left] /\ index' = [index EXCEPT ![p] = model]
    BY <1>10 DEF Snapshot, Bind
  <2>2. vec' \in [Model -> [Id -> Text]] /\ index' \in [Process -> Model]
    <3>1. left \in [Id -> Text]
      BY <1>0 DEF Typed, Text
    <3> QED BY <1>0, <2>1, <3>1 DEF Typed
  <2>3. CASE todo = {} /\ Finish(p)
    <3>1. Works(p, Idle) /\ Typed'
      BY <1>0, <1>10, <2>0, <2>2, <2>3, FinishLemma DEF Typed, Snapshot
    <3> QED BY <1>0, <1>10, <2>0, <2>3, <3>1, FinishLemma, QuietLemma DEF Snapshot
  <2>4. CASE /\ work' = [Move(p, "embed") EXCEPT ![p].batch = todo,
                                               ![p].texts = [i \in todo |-> rows[i].body]]
             /\ UNCHANGED publication
    <3> DEFINE texts == [i \in todo |-> rows[i].body]
               w == [work[p] EXCEPT !.at = "embed", !.batch = todo, !.texts = texts]
    <3>1. texts \in Texts /\ todo \in SUBSET Id
      <4>1. todo \in SUBSET Id
        BY DEF Active
      <4>2. \A i \in todo : rows[i].body \in Body
        BY <1>0 DEF Typed, Active, Row, Saved, Missing, None
      <4>3. texts \in [todo -> Body]
        BY <4>2
      <4> HIDE DEF todo, texts
      <4> QED BY <4>1, <4>3 DEF Texts
    <3>2. w \in WorkState /\ w.at = "embed" /\ w.clear = work[p].clear
      <4> HIDE DEF todo, texts
      <4> QED BY <2>0, <3>1 DEF WorkState, StorePlace
    <3>3. work' = [work EXCEPT ![p] = w]
      <4> HIDE DEF todo
      <4> QED BY <1>0, <2>0, <2>4 DEF Move, Typed, WorkState
    <3> HIDE DEF w
    <3>4. Works(p, w)
      BY <3>2, <3>3 DEF Works
    <3>5. Typed'
      BY <1>0, <1>10, <2>2, <2>4, <3>4, WorkLemma DEF Typed, Snapshot
    <3>6. JobOK(w) /\ LocksOK(p, w, publication', write') /\ StillTrue(w) /\ ClearsAll(w)
      BY <1>10, <2>0, <2>4, <3>2 DEF JobOK, LocksOK, StillTrue, ClearsAll, Snapshot
    <3> QED BY <1>10, <2>4, <3>4, <3>5, <3>6, QuietLemma DEF Snapshot
  <2> QED BY <1>10, <2>3, <2>4 DEF Snapshot
<1>11. ASSUME NEW p \in Process, Embed(p) PROVE PublishInv'
  <2> DEFINE w == [work[p] EXCEPT !.at = "commit", !.by = model]
  <2>0. work[p] \in WorkState /\ work[p].at = "embed" /\ LocksOK(p, work[p], publication, write)
    BY <1>11 DEF PublishInv, Typed, Embed
  <2>1. w \in WorkState /\ w.at = "commit" /\ w.clear = work[p].clear /\ w.by \in Model
    BY <1>0, <2>0 DEF WorkState, StorePlace, Typed
  <2>2. work' = [work EXCEPT ![p] = w]
    BY <1>0, <1>11, <2>0 DEF Embed, Move, Typed, WorkState
  <2> HIDE DEF w
  <2>3. Works(p, w)
    BY <2>1, <2>2 DEF Works
  <2>4. Typed'
    BY <1>0, <1>11, <2>3, WorkLemma DEF Typed, Embed, Bind
  <2>5. JobOK(w) /\ LocksOK(p, w, publication', write') /\ StillTrue(w) /\ ClearsAll(w)
    BY <1>11, <2>0, <2>1 DEF JobOK, LocksOK, StillTrue, ClearsAll, Embed
  <2> QED BY <1>11, <2>3, <2>4, <2>5, QuietLemma DEF Embed
<1>12. ASSUME NEW p \in Process, EmbedFails(p) PROVE PublishInv'
  <2>1. LocksOK(p, work[p], publication, write)
    BY <1>12 DEF PublishInv
  <2>2. Works(p, Idle) /\ Typed'
    BY <1>0, <1>12, <2>1, FinishLemma DEF Typed, EmbedFails, Bind
  <2> QED BY <1>0, <1>12, <2>1, <2>2, FinishLemma, QuietLemma DEF EmbedFails
<1>13. ASSUME NEW p \in Process, TakeWrite(p) PROVE PublishInv'
  <2>0. /\ work[p] \in WorkState /\ work[p].at = "commit" /\ write = Free
        /\ LocksOK(p, work[p], publication, write) /\ JobOK(work[p])
    BY <1>13 DEF PublishInv, Typed, TakeWrite
  <2>1. CASE Finish(p) /\ Bind(p) /\ UNCHANGED write
    <3>1. Works(p, Idle) /\ Typed'
      BY <1>0, <1>13, <2>0, <2>1, FinishLemma DEF Typed, TakeWrite, Bind
    <3> QED BY <1>0, <1>13, <2>0, <2>1, <3>1, FinishLemma, QuietLemma DEF TakeWrite
  <2>2. CASE /\ write' = p
             /\ index' = IF Valid(p) = {} THEN index ELSE [index EXCEPT ![p] = model]
             /\ work' = [Move(p, "mark") EXCEPT ![p].batch = Valid(p)]
             /\ UNCHANGED publication
    <3> DEFINE w == [work[p] EXCEPT !.at = "mark", !.batch = Valid(p)]
    <3>1. /\ w \in WorkState /\ w.at = "mark" /\ w.clear = work[p].clear
          /\ w.batch = Valid(p) /\ w.texts = work[p].texts /\ w.by \in Model
      BY <2>0 DEF WorkState, StorePlace, Valid, JobOK
    <3>2. work' = [work EXCEPT ![p] = w]
      BY <1>0, <2>0, <2>2 DEF Move, Typed, WorkState
    <3> HIDE DEF w
    <3>3. Works(p, w)
      BY <3>1, <3>2 DEF Works
    <3>4. Typed'
      BY <1>0, <1>13, <2>2, <3>3, WorkLemma DEF Typed, TakeWrite
    <3>5. JobOK(w) /\ LocksOK(p, w, publication', write') /\ StillTrue(w) /\ ClearsAll(w)
      BY <2>0, <2>2, <3>1 DEF JobOK, LocksOK, StillTrue, ClearsAll, Valid
    <3> QED BY <1>13, <2>2, <3>3, <3>4, <3>5, QuietLemma DEF TakeWrite
  <2> QED BY <1>13, <2>1, <2>2 DEF TakeWrite
<1>14. ASSUME NEW p \in Process, WriteVectors(p) PROVE PublishInv'
  <2> DEFINE w == work[p]
  <2>0. /\ w \in WorkState /\ w.at = "mark" /\ LocksOK(p, w, publication, write) /\ write = p
        /\ w.by \in Model /\ \A i \in w.batch : i \in Active /\ w.texts[i] = rows[i].body
    BY <1>14 DEF PublishInv, Typed, WriteVectors, LocksOK, JobOK, StillTrue
  <2>1. Finish(p)
    BY <1>14 DEF WriteVectors
  <2>2. ASSUME NEW i \in Id
        PROVE  /\ rows'[i] \in Row /\ rows'[i].state = rows[i].state
               /\ rows'[i].version = rows[i].version /\ rows'[i].change = rows[i].change
               /\ rows'[i].source = rows[i].source
    <3>1. CASE i \in w.batch
      <4>1. rows'[i] = [rows[i] EXCEPT !.mark = <<rows[i].body, index[p]>>]
        BY <1>14, <3>1 DEF WriteVectors
      <4>2. rows[i] \in Saved
        BY <1>0, <2>0, <3>1 DEF Typed, Row, Active, Missing, None
      <4>3. <<rows[i].body, index[p]>> \in Text
        BY <1>0, <4>2 DEF Typed, Saved, Text
      <4> QED BY <4>1, <4>2, <4>3 DEF Row, Saved, Text
    <3>2. CASE i \notin w.batch
      BY <1>0, <1>14, <3>2 DEF Typed, WriteVectors
    <3> QED BY <3>1, <3>2
  <2>3. rows' \in [Id -> Row] /\ Active' = Active
    BY <1>14, <2>2 DEF WriteVectors, Active
  <2>4. vec' \in [Model -> [Id -> Text]]
    BY <1>0, <1>14, <2>0, VectorsLemma DEF WriteVectors
  <2>5. Typed'
    BY <1>0, <1>14, <2>0, <2>1, <2>3, <2>4, FinishLemma, StoreAssumption DEF Typed, WriteVectors
  <2>6. ASSUME NEW q \in Process
        PROVE  /\ LocksOK(q, work[q], publication, write)'
               /\ JobOK(work[q])' /\ StillTrue(work[q])' /\ ClearsAll(work[q])'
    <3>1. CASE q = p
      <4>1. work'[q] = Idle
        BY <1>0, <2>0, <2>1, <3>1, FinishLemma, WorkLemma
      <4> QED BY <4>1 DEF LocksOK, JobOK, StillTrue, ClearsAll, Idle
    <3>2. CASE q # p
      <4>1. /\ work'[q] = work[q] /\ LocksOK(q, work[q], publication, write) /\ JobOK(work[q])
            /\ StillTrue(work[q]) /\ ClearsAll(work[q])
        BY <1>0, <2>0, <2>1, <3>2, FinishLemma, WorkLemma DEF PublishInv
      <4>2. work[q].at # "mark" /\ (publication = q => publication' = q)
        BY <2>0, <2>1, <3>2, <4>1 DEF LocksOK, Finish
      <4>3. LocksOK(q, work[q], publication, write)'
        BY <4>1, <4>2 DEF LocksOK
      <4>4. StillTrue(work[q])'
        BY <1>14, <2>2, <4>1, <4>2 DEF StillTrue, JobOK, WriteVectors
      <4> QED BY <2>3, <4>1, <4>3, <4>4 DEF JobOK, ClearsAll
    <3> QED BY <3>1, <3>2
  <2>7. OneActive' /\ ClearedStaysForgotten'
    BY <1>14, <2>2, <2>3 DEF PublishInv, OneActive, ClearedStaysForgotten, Active, WriteVectors
  <2> QED BY <2>5, <2>6, <2>7 DEF PublishInv
<1>15. ASSUME NEW p \in Process, DieBeforeMarks(p) PROVE PublishInv'
  <2>0. /\ work[p] \in WorkState /\ work[p].at = "mark" /\ LocksOK(p, work[p], publication, write)
        /\ write = p /\ write' = Free /\ work[p].by \in Model
        /\ \A i \in work[p].batch : i \in Active /\ work[p].texts[i] = rows[i].body
    BY <1>15 DEF PublishInv, Typed, DieBeforeMarks, LocksOK, JobOK, StillTrue
  <2>1. Finish(p)
    BY <1>15 DEF DieBeforeMarks
  <2>2. vec' \in [Model -> [Id -> Text]]
    BY <1>0, <1>15, <2>0, VectorsLemma DEF DieBeforeMarks
  <2>3. Typed'
    BY <1>0, <1>15, <2>0, <2>1, <2>2, FinishLemma DEF Typed, DieBeforeMarks
  <2> QED BY <1>0, <1>15, <2>0, <2>1, <2>3, FinishLemma, QuietLemma DEF DieBeforeMarks
<1>16. ASSUME NEW p \in Process, Recall(p) PROVE PublishInv'
  BY <1>16 DEF PublishInv, Typed, LocksOK, JobOK, StillTrue, ClearsAll, OneActive, Active,
               ClearedStaysForgotten, Recall, Bind
<1>17. CASE Configure
  <2>1. Typed'
    BY <1>17 DEF PublishInv, Typed, Configure
  <2> QED
    BY <1>17, <2>1 DEF PublishInv, LocksOK, JobOK, StillTrue, ClearsAll, OneActive, Active,
               ClearedStaysForgotten, Configure
<1>18. ASSUME NEW p \in Process, Die(p) PROVE PublishInv'
  <2> DEFINE w == Resumed(p)
  <2>0. work[p] \in WorkState /\ JobOK(work[p]) /\ LocksOK(p, work[p], publication, write)
    BY <1>18 DEF PublishInv, Typed
  <2>1. w \in WorkState /\ w.job = work[p].job /\ ~w.clear
        /\ w.at \in {"search", "apply", "idle", "snapshot"}
        /\ (w.at = "search" => work[p].at \in {"search", "found"})
        /\ (w.at = "apply" => work[p].at \in {"apply", "save", "checkpoint"})
    <3> DEFINE at == CASE work[p].at \in {"search", "found"} -> "search"
                       [] work[p].at \in {"apply", "save", "checkpoint"} -> "apply"
                       [] work[p].clear -> "idle"
                       [] work[p].at \in {"snapshot", "embed", "commit", "mark"} -> "snapshot"
                       [] OTHER -> "idle"
    <3>1. /\ at \in {"search", "apply", "idle", "snapshot"}
          /\ (at = "search" => work[p].at \in {"search", "found"})
          /\ (at = "apply" => work[p].at \in {"apply", "save", "checkpoint"})
      BY <2>0 DEF LocksOK
    <3>2. w = [Idle EXCEPT !.job = work[p].job, !.at = at]
      BY DEF Resumed
    <3> HIDE DEF at
    <3> QED BY <2>0, <3>1, <3>2, IdleLemma DEF WorkState, StorePlace, Idle
  <2>2. Works(p, w)
    BY <1>18, <2>1 DEF Works, Die
  <2> HIDE DEF w
  <2>3. Typed'
    BY <1>0, <1>18, <2>2, WorkLemma DEF Typed, Die
  <2>4. JobOK(w) /\ LocksOK(p, w, publication', write') /\ StillTrue(w) /\ ClearsAll(w)
    BY <2>0, <2>1 DEF JobOK, LocksOK, StillTrue, ClearsAll
  <2> QED BY <1>18, <2>2, <2>3, <2>4, QuietLemma DEF Die
<1>19. CASE UNCHANGED storeVars
  BY SMTT(30), <1>19 DEF PublishInv, Typed, LocksOK, JobOK, StillTrue, ClearsAll, OneActive, Active,
               ClearedStaysForgotten, storeVars
<1> QED
  BY <1>1, <1>2, <1>3, <1>4, <1>5, <1>6, <1>7, <1>8, <1>9, <1>10, <1>11, <1>12, <1>13, <1>14,
     <1>15, <1>16, <1>17, <1>18, <1>19 DEF StoreNext, Publish, Clear, Reconcile

\* So it holds always.
LEMMA PublishInvHolds == StoreSpec => []PublishInv
BY StoreInitially, StoreStep, PTL DEF StoreSpec

\* What the history notes are processes and vectors.
Recalled == rebound \subseteq Process /\ mixed \subseteq Id \X Model

LEMMA RecalledStep ==
  ASSUME PublishInv, Recalled, [StoreNext]_storeVars
  PROVE  Recalled'
<1> USE DEF Recalled
<1>1. ASSUME NEW p \in Process PROVE Mixed(p) \subseteq Id \X Model
  <2>1. work[p].batch \subseteq Id /\ index[p] \in Model
    BY DEF PublishInv, Typed, WorkState
  <2> QED BY <2>1 DEF Mixed
<1>2. CASE UNCHANGED recalls
  BY <1>2 DEF recalls
<1>3. ASSUME NEW p \in Process, TakeWrite(p) PROVE Recalled'
  BY <1>3 DEF TakeWrite
<1>4. ASSUME NEW p \in Process, WriteVectors(p) \/ DieBeforeMarks(p) PROVE Recalled'
  BY <1>1, <1>4 DEF WriteVectors, DieBeforeMarks
<1>5. ASSUME NEW p \in Process, Recall(p) PROVE Recalled'
  BY <1>5 DEF Recall
<1>6. ASSUME NEW p \in Process, Publish(p) PROVE UNCHANGED recalls
  BY <1>6 DEF Publish, BeginJob, Search, Draft, Apply, Save, CheckpointRecords
<1>7. ASSUME NEW p \in Process, Clear(p) PROVE UNCHANGED recalls
  BY <1>7 DEF Clear, BeginClear, ReadAll, DeleteAll
<1>8. ASSUME NEW p \in Process, Reconcile(p) PROVE Recalled'
  <2>1. CASE Snapshot(p) \/ Embed(p) \/ EmbedFails(p)
    BY <1>2, <2>1 DEF Snapshot, Embed, EmbedFails
  <2> QED BY <1>3, <1>4, <1>8, <2>1 DEF Reconcile
<1>9. ASSUME NEW p \in Process, Die(p) PROVE UNCHANGED recalls
  BY <1>9 DEF Die
<1>10. CASE Configure \/ UNCHANGED storeVars
  BY <1>2, <1>10 DEF Configure, storeVars
<1> QED BY <1>2, <1>5, <1>6, <1>7, <1>8, <1>9, <1>10 DEF StoreNext

\* Every variable of MemoryStore keeps its type.
THEOREM StoreTypeCorrect == StoreSpec => []StoreTypeOK
<1>1. PublishInv /\ Recalled => StoreTypeOK
  <2> SUFFICES ASSUME PublishInv, Recalled PROVE StoreTypeOK
    OBVIOUS
  <2>1. \A p \in Process : work[p].at \in StorePlace
    BY DEF PublishInv, Typed, WorkState
  <2> QED BY <2>1 DEF PublishInv, Typed, Recalled, StoreTypeOK, Row, Text, StorePlace
<1>2. StoreInit => Recalled
  BY DEF StoreInit, Recalled
<1>3. PublishInv /\ Recalled /\ [StoreNext]_storeVars => Recalled'
  BY RecalledStep
<1> QED BY <1>1, <1>2, <1>3, PublishInvHolds, PTL DEF StoreSpec

\* Any number of processes that learn the same thing at the same time, dying
\* and repeating themselves at any step, leave one record of it
\* (_check_searches and materialize under publication.lock).
THEOREM OneRecordPerSubjectCorrect == StoreSpec => []OneRecordPerSubject
<1>1. PublishInv => OneRecordPerSubject
  <2> SUFFICES ASSUME PublishInv PROVE Cardinality(Active) <= 1
    BY DEF OneRecordPerSubject
  <2>1. CASE Active = {}
    BY <2>1, FS_EmptySet
  <2>2. ASSUME NEW i \in Active PROVE Cardinality(Active) <= 1
    <3>1. Active = {i}
      BY <2>2 DEF PublishInv, OneActive
    <3>2. Cardinality({i}) = 1
      BY FS_Singleton
    <3> QED BY <3>1, <3>2
  <2> QED BY <2>1, <2>2
<1> QED BY <1>1, PublishInvHolds, PTL

\* A clear is final for all evidence older than it, whatever was being
\* searched, published, saved again after a death or indexed when it began
\* (MemoryService._clear, cleared_at).
THEOREM ClearedStaysForgottenCorrect == StoreSpec => []ClearedStaysForgotten
<1>1. PublishInv => ClearedStaysForgotten
  BY DEF PublishInv
<1> QED BY <1>1, PublishInvHolds, PTL

-----------------------------------------------------------------------------
(* Vectors and marks, but for what is written after a recall bound the     *)
(* index object of a reconciliation that was about to write.               *)

\* What a process that is about to write works with stays, or is noted.
StaysOrNoted(q) ==
  /\ work'[q] = work[q] /\ (index'[q] = index[q] \/ q \in rebound')
  /\ q \in rebound => q \in rebound'

\* Only TakeWrite brings a process to its write, and what it works with then
\* is left alone, but for a recall.
LEMMA WritingLemma ==
  ASSUME PublishInv, [StoreNext]_storeVars,
         NEW q \in Process, work'[q].at = "mark", ~TakeWrite(q)
  PROVE  StaysOrNoted(q)
<1> USE DEF Typed, StaysOrNoted, recalls
<1>0. Typed
  BY DEF PublishInv
<1>1. ASSUME NEW p \in Process, BeginJob(p) PROVE StaysOrNoted(q)
  BY <1>0, <1>1 DEF BeginJob, Idle
<1>2. ASSUME NEW p \in Process, Search(p) PROVE StaysOrNoted(q)
  BY <1>0, <1>2 DEF Search, Move, WorkState
<1>3. ASSUME NEW p \in Process, Draft(p) PROVE StaysOrNoted(q)
  <2>0. index' = index /\ rebound' = rebound
    BY <1>3 DEF Draft
  <2>1. CASE work' = Move(p, "search")
    BY <1>0, <2>0, <2>1 DEF Move, WorkState
  <2>2. ASSUME NEW i, NEW d,
               work' = [Move(p, "apply") EXCEPT ![p].job.target = i, ![p].job.base = Revision[i],
                                                ![p].job.draft = d]
        PROVE  work'[q] = work[q]
    BY <1>0, <2>2 DEF Move, WorkState
  <2>3. CASE work[p].job.seen = Revision
    <3>1. PICK i \in IF Active = {} THEN {work[p].job.id} ELSE Active, d \in Body \cup {"delete"} :
            work' = [Move(p, "apply") EXCEPT ![p].job.target = i, ![p].job.base = Revision[i],
                                             ![p].job.draft = d]
      BY <1>3, <2>3 DEF Draft
    <3> QED BY <2>0, <2>2, <3>1
  <2> QED BY <1>3, <2>1, <2>3 DEF Draft
<1>4. ASSUME NEW p \in Process, Apply(p) PROVE StaysOrNoted(q)
  BY <1>0, <1>4 DEF Apply, Move, WorkState, Idle
<1>5. ASSUME NEW p \in Process, Save(p) PROVE StaysOrNoted(q)
  BY <1>0, <1>5 DEF Save, Move, WorkState
<1>6. ASSUME NEW p \in Process, CheckpointRecords(p) PROVE StaysOrNoted(q)
  BY <1>0, <1>6 DEF CheckpointRecords, Idle
<1>7. ASSUME NEW p \in Process, BeginClear(p) PROVE StaysOrNoted(q)
  BY <1>0, <1>7 DEF BeginClear, Idle
<1>8. ASSUME NEW p \in Process, ReadAll(p) PROVE StaysOrNoted(q)
  BY <1>0, <1>8 DEF ReadAll, Move, WorkState
<1>9. ASSUME NEW p \in Process, DeleteAll(p) PROVE StaysOrNoted(q)
  BY <1>0, <1>9 DEF DeleteAll, Move, WorkState
<1>10. ASSUME NEW p \in Process, Snapshot(p) PROVE StaysOrNoted(q)
  <2>1. CASE Finish(p)
    BY <1>0, <1>10, <2>1 DEF Finish, Idle, Snapshot, Bind
  <2>2. ASSUME NEW todo, NEW texts,
               work' = [Move(p, "embed") EXCEPT ![p].batch = todo, ![p].texts = texts]
        PROVE  work'[q] = work[q] /\ p # q
    BY <1>0, <2>2 DEF Move, WorkState
  <2> QED BY <1>0, <1>10, <2>1, <2>2 DEF Snapshot, Bind
<1>11. ASSUME NEW p \in Process, Embed(p) PROVE StaysOrNoted(q)
  BY <1>0, <1>11 DEF Embed, Move, WorkState, Bind
<1>12. ASSUME NEW p \in Process, EmbedFails(p) PROVE StaysOrNoted(q)
  BY <1>0, <1>12 DEF EmbedFails, Finish, Idle, Bind
<1>13. ASSUME NEW p \in Process, TakeWrite(p) PROVE StaysOrNoted(q)
  <2>1. p # q
    BY <1>13
  <2> QED BY <1>0, <1>13, <2>1 DEF TakeWrite, Finish, Bind, Move, WorkState
<1>14. ASSUME NEW p \in Process, WriteVectors(p) PROVE StaysOrNoted(q)
  BY <1>0, <1>14 DEF WriteVectors, Finish, Idle
<1>15. ASSUME NEW p \in Process, DieBeforeMarks(p) PROVE StaysOrNoted(q)
  BY <1>0, <1>15 DEF DieBeforeMarks, Finish, Idle
<1>16. ASSUME NEW p \in Process, Recall(p) PROVE StaysOrNoted(q)
  BY <1>0, <1>16 DEF Recall, Bind
<1>17. CASE Configure
  BY <1>17 DEF Configure
<1>18. ASSUME NEW p \in Process, Die(p) PROVE StaysOrNoted(q)
  <2>1. Resumed(p).at # "mark"
    BY DEF Resumed, Idle
  <2> QED BY <1>0, <1>18, <2>1 DEF Die
<1>19. CASE UNCHANGED storeVars
  BY <1>19 DEF storeVars
<1> QED
  BY <1>1, <1>2, <1>3, <1>4, <1>5, <1>6, <1>7, <1>8, <1>9, <1>10, <1>11, <1>12, <1>13, <1>14,
     <1>15, <1>16, <1>17, <1>18, <1>19 DEF StoreNext, Publish, Clear, Reconcile

\* The vectors stay those of the bound model until a recall binds another one.
LEMMA BoundStep ==
  ASSUME PublishInv, [StoreNext]_storeVars, BoundOrNoted
  PROVE  BoundOrNoted'
<1>1. ASSUME NEW q \in Process, work'[q].at = "mark", work'[q].batch # {}
      PROVE  index'[q] = work'[q].by \/ q \in rebound'
  <2>1. CASE TakeWrite(q)
    <3>1. /\ work' = [Move(q, "mark") EXCEPT ![q].batch = Valid(q)]
          /\ index' = IF Valid(q) = {} THEN index ELSE [index EXCEPT ![q] = model]
          /\ ~(Valid(q) # {} /\ work[q].by # model)
      BY <1>1, <2>1 DEF TakeWrite, Finish, Idle, PublishInv, Typed
    <3>2. work'[q].batch = Valid(q) /\ work'[q].by = work[q].by
      BY <3>1 DEF Move, PublishInv, Typed, WorkState
    <3> QED BY <1>1, <3>1, <3>2 DEF PublishInv, Typed
  <2>2. CASE ~TakeWrite(q)
    <3>1. StaysOrNoted(q)
      BY <1>1, <2>2, WritingLemma
    <3> QED BY <1>1, <3>1 DEF BoundOrNoted, StaysOrNoted
  <2> QED BY <2>1, <2>2
<1> QED BY <1>1 DEF BoundOrNoted

\* The history names the vectors that are not by the model of their table.
LEMMA MixedFacts ==
  ASSUME PublishInv, BoundOrNoted, NEW p \in Process, work[p].at = "mark",
         vec' = [vec EXCEPT ![index[p]] = [i \in Id |-> IF i \in work[p].batch
                   THEN <<work[p].texts[i], work[p].by>> ELSE @[i]]],
         mixed' = Mixed(p), NEW i \in Id, NEW m \in Model
  PROVE  IF i \in work[p].batch /\ m = index[p]
         THEN vec'[m][i] = <<rows[i].body, m>> \/ <<i, m>> \in mixed'
         ELSE vec'[m][i] = vec[m][i] /\ (<<i, m>> \in mixed <=> <<i, m>> \in mixed')
<1>1. Typed
  BY DEF PublishInv
<1>2. CASE i \in work[p].batch /\ m = index[p]
  <2>1. vec'[m][i] = <<rows[i].body, work[p].by>>
    BY <1>1, <1>2 DEF PublishInv, StillTrue, Typed
  <2>2. p \in rebound => <<i, m>> \in mixed'
    BY <1>2 DEF Mixed
  <2>3. index[p] = work[p].by \/ p \in rebound
    BY <1>2 DEF BoundOrNoted
  <2> QED BY <1>2, <2>1, <2>2, <2>3
<1>3. CASE ~(i \in work[p].batch /\ m = index[p])
  <2>1. vec'[m][i] = vec[m][i]
    BY <1>1, <1>3 DEF Typed
  <2>2. <<i, m>> \notin work[p].batch \X {index[p]}
    BY <1>3
  <2>3. <<i, m>> \in mixed <=> <<i, m>> \in mixed'
    BY <2>2 DEF Mixed
  <2> QED BY <1>3, <2>1, <2>3
<1> QED BY <1>2, <1>3

\* A true mark stays true.
LEMMA MarksStep ==
  ASSUME PublishInv, [StoreNext]_storeVars, BoundOrNoted, MarksAreTrue
  PROVE  MarksAreTrue'
<1> USE DEF MarksAreTrue
<1>0. Typed
  BY DEF PublishInv
<1>1. ASSUME NEW p \in Process, Save(p) PROVE MarksAreTrue'
  <2>1. CASE Own(p)
    BY <1>1, <2>1 DEF Save, recalls
  <2>2. CASE ~Own(p)
    <3>1. work[p].job.target \in Id
      BY <1>1 DEF PublishInv, JobOK, Save
    <3>2. /\ rows' = [rows EXCEPT ![work[p].job.target] = Record(p)] /\ vec' = vec /\ mixed' = mixed
      BY <1>1, <2>2 DEF Save, recalls
    <3>3. \/ Record(p).mark = NoText
          \/ /\ Record(p).mark = rows[work[p].job.target].mark
             /\ Record(p).body = rows[work[p].job.target].body
      BY DEF Record
    <3>4. ASSUME NEW i \in Id, NEW m \in Model, rows'[i].mark = <<rows'[i].body, m>>,
                 vec'[m][i] # NoText
          PROVE  vec'[m][i] = <<rows'[i].body, m>> \/ <<i, m>> \in mixed'
      <4>1. NoText # <<rows'[i].body, m>>
        BY DEF NoText, Model
      <4> QED BY <1>0, <3>1, <3>2, <3>3, <3>4, <4>1 DEF Typed
    <3> QED BY <3>4
  <2> QED BY <2>1, <2>2
<1>2. ASSUME NEW p \in Process, DeleteAll(p) PROVE MarksAreTrue'
  <2>1. \A i \in Id : rows'[i].mark = rows[i].mark /\ rows'[i].body = rows[i].body
    <3>1. ASSUME NEW i \in Id PROVE rows'[i].mark = rows[i].mark /\ rows'[i].body = rows[i].body
      <4>1. CASE i \in work[p].batch
        <5>1. rows'[i] = [rows[i] EXCEPT !.state = "deleted", !.version = @ + 1, !.change = 0]
          BY <1>2, <4>1 DEF DeleteAll
        <5>2. rows[i] \in Row
          BY <1>0 DEF Typed
        <5> QED BY <5>1, <5>2 DEF Row, Saved, Missing
      <4>2. CASE i \notin work[p].batch
        BY <1>2, <4>2 DEF DeleteAll
      <4> QED BY <4>1, <4>2
    <3> QED BY <3>1
  <2> QED BY <1>2, <2>1 DEF DeleteAll, recalls
<1>3. ASSUME NEW p \in Process, Snapshot(p) PROVE MarksAreTrue'
  <2> DEFINE left == [i \in Id |-> IF i \in Active THEN vec[model][i] ELSE NoText]
  <2>1. vec' = [vec EXCEPT ![model] = left] /\ rows' = rows /\ mixed' = mixed
    BY <1>3 DEF Snapshot, recalls
  <2>2. \A i \in Id, m \in Model : vec'[m][i] \in {vec[m][i], NoText}
    BY <1>0, <2>1 DEF Typed
  <2> QED BY <2>1, <2>2
<1>5. ASSUME NEW p \in Process, WriteVectors(p) PROVE MarksAreTrue'
  <2>1. ASSUME NEW i \in Id, NEW m \in Model
        PROVE  IF i \in work[p].batch /\ m = index[p]
               THEN vec'[m][i] = <<rows[i].body, m>> \/ <<i, m>> \in mixed'
               ELSE vec'[m][i] = vec[m][i] /\ (<<i, m>> \in mixed <=> <<i, m>> \in mixed')
    BY <1>5, MixedFacts DEF WriteVectors
  <2>2. ASSUME NEW i \in Id
        PROVE  /\ rows'[i].body = rows[i].body
               /\ rows'[i].mark = IF i \in work[p].batch THEN <<rows[i].body, index[p]>>
                                                         ELSE rows[i].mark
    <3>1. CASE i \in work[p].batch
      <4>1. rows'[i] = [rows[i] EXCEPT !.mark = <<rows[i].body, index[p]>>]
        BY <1>5, <3>1 DEF WriteVectors
      <4>2. rows[i] \in Row
        BY <1>0 DEF Typed
      <4> QED BY <3>1, <4>1, <4>2 DEF Row, Saved, Missing
    <3>2. CASE i \notin work[p].batch
      BY <1>5, <3>2 DEF WriteVectors
    <3> QED BY <3>1, <3>2
  <2>3. ASSUME NEW i \in Id, NEW m \in Model, rows'[i].mark = <<rows'[i].body, m>>,
               vec'[m][i] # NoText
        PROVE  vec'[m][i] = <<rows'[i].body, m>> \/ <<i, m>> \in mixed'
    <3>1. CASE i \in work[p].batch
      <4>1. <<rows[i].body, index[p]>> = <<rows[i].body, m>>
        BY <2>2, <2>3, <3>1
      <4>2. index[p] = m
        BY <4>1
      <4> QED BY <2>1, <2>2, <3>1, <4>2
    <3>2. CASE i \notin work[p].batch
      <4>1. /\ vec'[m][i] = vec[m][i] /\ rows[i].mark = <<rows[i].body, m>>
            /\ <<i, m>> \in mixed <=> <<i, m>> \in mixed'
        BY <2>1, <2>2, <2>3, <3>2
      <4>2. vec[m][i] = <<rows[i].body, m>> \/ <<i, m>> \in mixed
        BY <2>3, <4>1
      <4> QED BY <2>2, <4>1, <4>2
    <3> QED BY <3>1, <3>2
  <2> QED BY <2>3
<1>6. ASSUME NEW p \in Process, DieBeforeMarks(p) PROVE MarksAreTrue'
  <2>1. ASSUME NEW i \in Id, NEW m \in Model
        PROVE  IF i \in work[p].batch /\ m = index[p]
               THEN vec'[m][i] = <<rows[i].body, m>> \/ <<i, m>> \in mixed'
               ELSE vec'[m][i] = vec[m][i] /\ (<<i, m>> \in mixed <=> <<i, m>> \in mixed')
    BY <1>6, MixedFacts DEF DieBeforeMarks
  <2> QED BY <1>6, <2>1 DEF DieBeforeMarks
<1>7. CASE UNCHANGED <<rows, vec, mixed>>
  BY <1>7
<1> QED
  BY <1>1, <1>2, <1>3, <1>5, <1>6, <1>7
     DEF StoreNext, Publish, Clear, Reconcile, BeginJob, Search, Draft, Apply, CheckpointRecords,
         BeginClear, ReadAll, Embed, EmbedFails, TakeWrite, Recall, Configure, Die, storeVars, recalls

\* What a search counts as indexed and current are vectors of the present text
\* by the present model, whoever published, cleared or died meanwhile -- but
\* for those last written after MemoryStore.search bound the index object of a
\* process between the check of its reconciliation and the write.
THEOREM TrustedVectorsCorrect == StoreSpec => []TrustedVectorsAreCurrent
<1>1. StoreInit => IndexInv
  <2> SUFFICES ASSUME StoreInit PROVE IndexInv
    OBVIOUS
  <2>1. BoundOrNoted
    BY DEF StoreInit, BoundOrNoted, Idle
  <2>2. MarksAreTrue
    BY DEF StoreInit, MarksAreTrue
  <2> QED BY <2>1, <2>2 DEF IndexInv
<1>2. PublishInv /\ IndexInv /\ [StoreNext]_storeVars => IndexInv'
  BY BoundStep, MarksStep DEF IndexInv
<1>3. IndexInv => TrustedVectorsAreCurrent
  BY DEF IndexInv, MarksAreTrue, TrustedVectorsAreCurrent, Active
<1> QED BY <1>1, <1>2, <1>3, PublishInvHolds, PTL DEF StoreSpec

-----------------------------------------------------------------------------
(* Part B: windows of turns, from sealing to pruning.                         *)

\* Windows that were sealed.
JobIds == {j.id : j \in file.jobs}
\* Places of the holder of processing.lock without a job, ...
Between == {"pick", "prune", "compact"}
\* ... with one, ...
OnJob == {"produce", "publish", "checkpoint", "project", "scan", "cover", "index"}
\* ... and all of them.
Locked == Between \cup OnJob
\* Stages of a job whose turns are covered.
Finished == {"done", "indexed"}
\* What a drain, the owner and the journal may hold.
WorkerRecord == [at : Place, bound : BOOLEAN, through : Nat, todo : SUBSET WindowId, job : Nat \X Nat, scan : SUBSET Turn]
OwnerRecord == [at : {"idle", "turn", "rows", "jobs", "reserve", "kick"}, start : 0..MaxTurns,
                rows : SUBSET Turn, end : 0..MaxTurns]
FileRecord == [completed : 0..MaxTurns, consumed : 0..MaxTurns, reserved : 0..MaxTurns,
               covered : SUBSET Turn, ready : SUBSET Turn, jobs : SUBSET Job, blocked : BOOLEAN]
\* The parts of the state that the argument uses have these types.
WindowsShape ==
  /\ file \in FileRecord /\ owner \in OwnerRecord /\ lock \in Worker \cup {NoWorker}
  /\ worker \in [Worker -> WorkerRecord] /\ pendingEnd \in Nat

\* Completed turns that do not count as covered yet, but for those that slipped
\* past a drain where nothing protects them.
Unperceived == {t \in 1..file.completed : t \notin file.covered \cup Unprotected}

\* A sealed window: its turns were completed, and its stage tells what is covered,
\* stored and projected.  "once": as long as no turn is in two windows.
SealedOK(once, j) ==
  /\ j.id[2] \in j.new /\ j.id[2] <= file.completed
  /\ \A t \in j.new : j.id[1] < t /\ t <= j.id[2]
  /\ j.stage = "committed" => j.id \in store
  /\ j.stage \in Finished => j.new \subseteq file.covered /\ j.id \in store \cap core
  /\ once /\ j.stage \notin Finished => j.new \cap file.covered = {}
\* A job beyond the cursor took every turn from the cursor on whose evidence is
\* there or was read, unless it follows one that did.
BeyondOK(j) ==
  /\ j.id[1] = file.reserved /\ Cardinality(j.new) = Size
  /\ \/ \A t \in file.ready \cup owner.rows : file.reserved < t /\ t <= j.id[2] => t \in j.new
     \/ (owner.at = "reserve" /\ \E k \in Beyond : k # j)
\* The jobs of the journal, and that covered turns belong to one that is finished.
JobsOK(once) ==
  /\ \A j, k \in file.jobs : j.id = k.id => j = k
  /\ \A j \in file.jobs : SealedOK(once, j)
  /\ once => (\A j \in Beyond : BeyondOK(j)) /\ TurnsPerceivedOnce
  /\ \A t \in file.covered : \E j \in file.jobs : t \in j.new /\ j.stage \in Finished

\* The cursors never pass a turn that was not perceived.
CursorsOK ==
  /\ file.reserved <= file.completed
  /\ file.ready \subseteq 1..file.completed
  /\ \A t \in Unperceived : t \in file.ready /\ file.consumed <= t /\ file.consumed < t + Overlap

\* What the owner has read is still what matters: turns it did not see are covered.
OwnerOK(once) ==
  /\ owner.at = "turn" => file.completed < MaxTurns
  /\ owner.at \in {"rows", "jobs", "reserve"} => owner.start = file.reserved
  /\ once /\ owner.at # "reserve" => OneBeyond
  /\ owner.at = "jobs" =>
       /\ owner.rows \subseteq 1..file.completed
       /\ \A t \in file.ready \ file.covered : t > owner.start => t \in owner.rows
       /\ once => \A j \in Beyond : j.new \subseteq owner.rows \/ j.new \cap owner.rows = {}
  /\ owner.at = "reserve" =>
       /\ owner.end > owner.start /\ owner.end <= file.completed
       /\ once => \A j \in Beyond : j.id[2] <= owner.end

\* The stage s of the job of a drain that is at the place p.
StageAt(p, s) ==
  /\ p = "produce" => s = "registered"
  /\ p = "publish" => s \in {"produced", "committed"}
  /\ p = "checkpoint" => s = "produced"
  /\ p \in {"project", "scan", "cover"} => s = "committed"
  /\ p = "index" => s = "done"

\* What was done for the job j of the drain x; before it moves the cursor, the drain
\* knows of every turn but one that ended after its look and that the overlap covers.
OnJobOK(x, j) ==
  /\ StageAt(x.at, j.stage)
  /\ x.at = "checkpoint" => j.id \in store
  /\ x.at \in {"scan", "cover"} => j.id \in core
  /\ x.at = "cover" =>
       /\ x.scan \subseteq 1..file.completed
       /\ \A t \in Unperceived : t \in j.new \cup x.scan \/ (Overlap > 0 /\ t = file.completed /\ owner.at # "turn")

\* A drain that works holds the lock, and its list names sealed windows.
DrainOK(w, x) ==
  x.at \in Locked =>
    /\ lock = w /\ x.todo \subseteq JobIds
    /\ x.at \in OnJob => \E j \in file.jobs : j.id = x.job /\ OnJobOK(x, j)
    /\ x.at = "compact" => /\ Unperceived \subseteq x.scan
                           /\ owner.at = "turn" => file.completed + 1 \in x.scan
\* Every drain and the retry.
DrainsOK == \A w \in Worker : DrainOK(w, worker[w])

\* The inductive invariant; what needs that no death left two jobs is under "once".
WindowsInv(once) == WindowsShape /\ JobsOK(once) /\ CursorsOK /\ OwnerOK(once) /\ DrainsOK

\* Sets of turns are finite sets of numbers.
LEMMA TurnSets ==
  ASSUME NEW S \in SUBSET Turn
  PROVE  IsFiniteSet(S) /\ S \subseteq Nat /\ Cardinality(S) \in Nat
<1>0. MaxTurns \in Nat
  BY WindowsAssumption
<1>1. IsFiniteSet(Turn) /\ Turn \subseteq Nat
  <2>1. IsFiniteSet(1..MaxTurns)
    BY <1>0, FS_Interval
  <2> QED BY <1>0, <2>1 DEF Turn
<1>2. IsFiniteSet(S)
  BY <1>1, FS_Subset
<1> QED BY <1>1, <1>2, FS_CardinalityType

\* A finite set of numbers has a greatest and a least element.
LEMMA Extremes ==
  ASSUME NEW S, S \subseteq Nat, IsFiniteSet(S), S # {}
  PROVE  (\E t \in S : \A u \in S : u <= t) /\ (\E t \in S : \A u \in S : t <= u)
<1> DEFINE Order == StrictSubsetOrdering(S)
           Over(t) == {u \in S : u > t}
           Under(t) == {u \in S : u < t}
<1>1. IsWellFoundedOn(Order, FiniteSubsetsOf(S)) /\ FiniteSubsetsOf(S) = SUBSET S
  BY FS_StrictSubsetOrderingWellFounded, FS_FiniteSubsetsOfFinite
<1>2. \A X, Y \in SUBSET S : X \subseteq Y /\ X # Y => <<X, Y>> \in Order
  BY DEF StrictSubsetOrdering
<1>3. \E t \in S : \A u \in S : u <= t
  <2> DEFINE T == {Over(t) : t \in S}
  <2>0. \A t \in S : Over(t) \in SUBSET S
    OBVIOUS
  <2>1. T \subseteq FiniteSubsetsOf(S) /\ T # {}
    <3>1. PICK s \in S : TRUE
      OBVIOUS
    <3>2. Over(s) \in T
      OBVIOUS
    <3>3. ASSUME NEW X \in T PROVE X \in SUBSET S
      BY <2>0
    <3> HIDE DEF T
    <3> QED BY <1>1, <3>2, <3>3
  <2>2. \E X \in T : \A Y \in T : ~ (<<Y, X>> \in Order)
    <3> HIDE DEF T, Order
    <3> QED BY <1>1, <2>1, WFMin
  <2>3. PICK t \in S : \A Y \in T : ~ (<<Y, Over(t)>> \in Order)
    BY <2>2
  <2>4. ASSUME NEW u \in S, u > t PROVE FALSE
    <3>1. Over(u) \in SUBSET S /\ Over(t) \in SUBSET S /\ Over(u) \in T
      OBVIOUS
    <3>2. Over(u) \subseteq Over(t)
      <4> SUFFICES ASSUME NEW x \in S, x > u PROVE x > t
        OBVIOUS
      <4>1. x \in Nat /\ u \in Nat /\ t \in Nat
        OBVIOUS
      <4> QED BY <4>1, <2>4
    <3>3. u \in Over(t) /\ u \notin Over(u)
      <4>1. u \in Nat
        OBVIOUS
      <4> QED BY <4>1, <2>4
    <3> QED BY <3>1, <3>2, <3>3, <2>3, <1>2
  <2> QED BY <2>4
<1>4. \E t \in S : \A u \in S : t <= u
  <2> DEFINE T == {Under(t) : t \in S}
  <2>0. \A t \in S : Under(t) \in SUBSET S
    OBVIOUS
  <2>1. T \subseteq FiniteSubsetsOf(S) /\ T # {}
    <3>1. PICK s \in S : TRUE
      OBVIOUS
    <3>2. Under(s) \in T
      OBVIOUS
    <3>3. ASSUME NEW X \in T PROVE X \in SUBSET S
      BY <2>0
    <3> HIDE DEF T
    <3> QED BY <1>1, <3>2, <3>3
  <2>2. \E X \in T : \A Y \in T : ~ (<<Y, X>> \in Order)
    <3> HIDE DEF T, Order
    <3> QED BY <1>1, <2>1, WFMin
  <2>3. PICK t \in S : \A Y \in T : ~ (<<Y, Under(t)>> \in Order)
    BY <2>2
  <2>4. ASSUME NEW u \in S, u < t PROVE FALSE
    <3>1. Under(u) \in SUBSET S /\ Under(t) \in SUBSET S /\ Under(u) \in T
      OBVIOUS
    <3>2. Under(u) \subseteq Under(t)
      <4> SUFFICES ASSUME NEW x \in S, x < u PROVE x < t
        OBVIOUS
      <4>1. x \in Nat /\ u \in Nat /\ t \in Nat
        OBVIOUS
      <4> QED BY <4>1, <2>4
    <3>3. u \in Under(t) /\ u \notin Under(u)
      <4>1. u \in Nat
        OBVIOUS
      <4> QED BY <4>1, <2>4
    <3> QED BY <3>1, <3>2, <3>3, <2>3, <1>2
  <2> QED BY <2>4
<1> QED BY <1>3, <1>4

\* Greatest and Least choose them.
LEMMA ExtremeFacts ==
  ASSUME NEW S \in SUBSET Turn, S # {}
  PROVE  /\ Greatest(S) \in S /\ \A u \in S : u <= Greatest(S)
         /\ Least(S) \in S /\ \A u \in S : Least(S) <= u
<1>1. (\E t \in S : \A u \in S : u <= t) /\ (\E t \in S : \A u \in S : t <= u)
  BY TurnSets, Extremes
<1> QED BY <1>1 DEF Greatest, Least

\* Lowest(S, n) takes the first of S, at most n; n of them that precede all others
\* of S are what it takes.
LEMMA LowestFacts ==
  ASSUME NEW S \in SUBSET Turn, NEW n \in Nat
  PROVE  /\ Lowest(S, n) \subseteq S
         /\ \A t \in S, g \in Lowest(S, n) : t <= g => t \in Lowest(S, n)
         /\ Cardinality(Lowest(S, n)) <= n
         /\ \A T \in SUBSET S : /\ Cardinality(T) = n
                                /\ \A t \in T, u \in S \ T : t < u
                                => Lowest(S, n) = T
<1> DEFINE L == Lowest(S, n)
           Under(t) == {u \in S : u < t}
<1>0. \A t \in S : Under(t) \in SUBSET Turn /\ IsFiniteSet(Under(t)) /\ Cardinality(Under(t)) \in Nat
  <2> TAKE t \in S
  <2>1. Under(t) \in SUBSET Turn
    OBVIOUS
  <2> QED BY <2>1, TurnSets
<1>1. L \subseteq S /\ \A t \in S : t \in L <=> Cardinality(Under(t)) < n
  BY DEF Lowest
<1>s. S \subseteq Nat
  BY TurnSets
<1> HIDE DEF L
<1>2. \A t \in S, g \in L : t <= g => t \in L
  <2> SUFFICES ASSUME NEW t \in S, NEW g \in L, t <= g PROVE t \in L
    OBVIOUS
  <2>0. t <= g /\ g \in S
    BY <1>1
  <2>1. Under(t) \in SUBSET Under(g)
    <3>1. t \in Nat /\ g \in Nat
      BY <1>s, <1>1
    <3>2. ASSUME NEW x \in S, x < t PROVE x < g
      <4>1. x \in Nat
        BY <1>s
      <4> QED BY <4>1, <3>1, <3>2, <2>0
    <3> QED BY <3>2
  <2>2. Cardinality(Under(t)) <= Cardinality(Under(g))
    <3>1. IsFiniteSet(Under(g))
      BY <1>0, <1>1
    <3> HIDE DEF Under
    <3> QED BY <2>1, <3>1, FS_Subset
  <2>3. Cardinality(Under(g)) < n /\ Cardinality(Under(g)) \in Nat /\ Cardinality(Under(t)) \in Nat
    BY <2>0, <1>0, <1>1
  <2> HIDE DEF Under
  <2> QED BY <2>2, <2>3, <1>1
<1>3. Cardinality(L) <= n
  <2>1. CASE L = {}
    BY <2>1, FS_EmptySet
  <2>2. CASE L # {}
    <3> DEFINE g == Greatest(L)
    <3>1. g \in L /\ \A u \in L : u <= g
      <4>1. L \in SUBSET Turn
        BY <1>1
      <4> QED BY <4>1, <2>2, ExtremeFacts
    <3> HIDE DEF g
    <3>2. L \subseteq Under(g) \cup {g}
      BY <3>1, <1>1, <1>s
    <3>3. IsFiniteSet(Under(g)) /\ g \notin Under(g) /\ Cardinality(Under(g)) < n /\ Cardinality(Under(g)) \in Nat
      BY <3>1, <1>0, <1>1, <1>s
    <3>4. IsFiniteSet(Under(g) \cup {g}) /\ Cardinality(Under(g) \cup {g}) = Cardinality(Under(g)) + 1
      <4> HIDE DEF Under
      <4> QED BY <3>3, FS_AddElement
    <3>5. Cardinality(L) <= Cardinality(Under(g) \cup {g}) /\ IsFiniteSet(L)
      <4> DEFINE X == Under(g) \cup {g}
      <4>1. L \in SUBSET X /\ IsFiniteSet(X)
        BY <3>2, <3>4
      <4> HIDE DEF X
      <4>2. IsFiniteSet(L) /\ Cardinality(L) <= Cardinality(X)
        BY <4>1, FS_Subset
      <4> QED BY <4>2 DEF X
    <3>6. Cardinality(L) \in Nat
      BY <3>5, FS_CardinalityType
    <3> QED BY <3>3, <3>4, <3>5, <3>6
  <2> QED BY <2>1, <2>2
<1>4. ASSUME NEW T \in SUBSET S, Cardinality(T) = n, \A t \in T, u \in S \ T : t < u
      PROVE  L = T
  <2>0. T \in SUBSET Turn /\ IsFiniteSet(T)
    <3>1. T \in SUBSET Turn
      OBVIOUS
    <3> QED BY <3>1, TurnSets
  <2>1. ASSUME NEW t \in T PROVE t \in L
    <3>1. Under(t) \in SUBSET (T \ {t})
      <4>1. ASSUME NEW x \in S, x < t PROVE x \in T \ {t}
        <5>1. x \in Nat /\ t \in Nat
          BY <1>s
        <5>2. x \notin T => t < x
          BY <1>4
        <5> QED BY <5>1, <5>2, <4>1
      <4> QED BY <4>1
    <3>2. IsFiniteSet(T \ {t}) /\ Cardinality(T \ {t}) = n - 1
      BY <2>0, <1>4, FS_RemoveElement
    <3>3. Cardinality(Under(t)) <= n - 1
      <4> HIDE DEF Under
      <4> QED BY <3>1, <3>2, FS_Subset
    <3>4. Cardinality(Under(t)) \in Nat /\ t \in S
      BY <1>0
    <3> HIDE DEF Under
    <3> QED BY <3>3, <3>4, <1>1
  <2>2. ASSUME NEW t \in S \ T PROVE t \notin L
    <3>1. T \in SUBSET Under(t) /\ IsFiniteSet(Under(t))
      BY <1>4, <1>0, <2>2
    <3>2. n <= Cardinality(Under(t))
      <4> HIDE DEF Under
      <4> QED BY <3>1, <1>4, FS_Subset
    <3> QED BY <3>2, <1>0, <1>1
  <2> QED BY <2>1, <2>2, <1>1
<1> QED BY <1>1, <1>2, <1>3, <1>4 DEF L

\* Types of the parts, for the steps that do arithmetic.
LEMMA ShapeFacts ==
  ASSUME WindowsShape
  PROVE  /\ MaxTurns \in Nat /\ Size \in Nat /\ Overlap \in Nat /\ Turn \subseteq Nat
         /\ {file.completed, file.consumed, file.reserved} \subseteq 0..MaxTurns
         /\ {file.completed, file.consumed, file.reserved} \subseteq Nat
         /\ file.covered \subseteq Turn /\ file.ready \subseteq Turn /\ file.jobs \subseteq Job
         /\ \A j \in Job : j.id \in WindowId /\ j.id[1] \in Nat /\ j.id[2] \in Turn /\ j.id[2] \in Nat
                           /\ j.id[1] \in 0..MaxTurns /\ j.new \subseteq Turn /\ j.stage \in Stage
         /\ \A w \in Worker : worker[w] \in WorkerRecord
         /\ owner.start \in Nat /\ owner.end \in Nat /\ owner.rows \subseteq Turn
<1>1. MaxTurns \in Nat /\ Size \in Nat /\ Overlap \in Nat /\ Turn \subseteq Nat
  BY WindowsAssumption DEF Turn
<1>2. /\ {file.completed, file.consumed, file.reserved} \subseteq 0..MaxTurns
      /\ file.covered \subseteq Turn /\ file.ready \subseteq Turn /\ file.jobs \subseteq Job
  BY DEF WindowsShape, FileRecord
<1>3. ASSUME NEW j \in Job
      PROVE  j.id \in WindowId /\ j.id[1] \in Nat /\ j.id[2] \in Turn /\ j.id[2] \in Nat
             /\ j.id[1] \in 0..MaxTurns /\ j.new \subseteq Turn /\ j.stage \in Stage
  <2>1. j.id \in WindowId /\ j.new \subseteq Turn /\ j.stage \in Stage
    BY DEF Job
  <2>2. j.id[1] \in 0..MaxTurns /\ j.id[2] \in Turn
    BY <2>1 DEF WindowId
  <2>3. PICK a \in 0..MaxTurns, b \in Turn : a = j.id[1] /\ b = j.id[2]
    BY <2>2
  <2>4. a \in Nat /\ b \in Nat
    BY <1>1
  <2> QED BY <2>1, <2>2, <2>3, <2>4
<1>4. \A w \in Worker : worker[w] \in WorkerRecord
  BY DEF WindowsShape
<1>5. owner.start \in Nat /\ owner.end \in Nat /\ owner.rows \subseteq Turn
  BY <1>1 DEF WindowsShape, OwnerRecord
<1> QED BY <1>1, <1>2, <1>3, <1>4, <1>5

\* A window has one job.
LEMMA JobOfFacts ==
  ASSUME NEW once \in BOOLEAN, JobsOK(once), NEW j \in file.jobs
  PROVE  JobOf(j.id) = j
BY DEF JobsOK, JobOf

\* The jobs J are those on file, the one of this id at stage s.
JobsMoved(id, s, J) ==
  /\ J \subseteq Job
  /\ \A j \in file.jobs : \E k \in J :
       k.id = j.id /\ k.new = j.new /\ k.stage = (IF j.id = id THEN s ELSE j.stage)
  /\ \A k \in J : \E j \in file.jobs :
       k.id = j.id /\ k.new = j.new /\ k.stage = (IF j.id = id THEN s ELSE j.stage)
  /\ \A j, k \in J : j.id = k.id => j = k

\* Advance moves one job and nothing else of the journal.
LEMMA AdvanceMoves ==
  ASSUME NEW once \in BOOLEAN, WindowsShape, JobsOK(once), NEW id \in WindowId, NEW s \in Stage
  PROVE  /\ JobsMoved(id, s, Advance(id, s).jobs) /\ Advance(id, s) \in FileRecord
         /\ Advance(id, s).completed = file.completed /\ Advance(id, s).consumed = file.consumed
         /\ Advance(id, s).reserved = file.reserved /\ Advance(id, s).covered = file.covered
         /\ Advance(id, s).ready = file.ready /\ Advance(id, s).blocked = file.blocked
<1> DEFINE M(j) == IF j.id # id THEN j
                   ELSE [j EXCEPT !.stage = s, !.events = IF s = "indexed" THEN {} ELSE j.events]
           J == {M(j) : j \in file.jobs}
<1>1. ASSUME NEW j \in file.jobs
      PROVE  /\ M(j) \in Job /\ M(j).id = j.id /\ M(j).new = j.new
             /\ M(j).stage = (IF j.id = id THEN s ELSE j.stage)
  <2>1. j \in Job
    BY ShapeFacts
  <2>2. PICK e : e = IF s = "indexed" THEN {} ELSE j.events
    OBVIOUS
  <2>3. e \in SUBSET Turn
    BY <2>1, <2>2 DEF Job
  <2>4. CASE j.id = id
    <3>1. PICK m : m = [j EXCEPT !.stage = s, !.events = e]
      OBVIOUS
    <3>2. m \in Job /\ m.id = j.id /\ m.new = j.new /\ m.stage = s
      BY <3>1, <2>1, <2>3 DEF Job
    <3>3. M(j) = m
      BY <2>4, <2>2, <3>1
    <3> HIDE DEF M
    <3> QED BY <3>2, <3>3, <2>4
  <2>5. CASE j.id # id
    BY <2>1, <2>5
  <2> QED BY <2>4, <2>5
<1>2. Advance(id, s) = [file EXCEPT !.jobs = J]
  BY DEF Advance
<1> HIDE DEF M
<1>3. J \subseteq Job
  BY <1>1
<1>4. JobsMoved(id, s, J)
  <2>1. \A j \in file.jobs : \E k \in J :
          k.id = j.id /\ k.new = j.new /\ k.stage = (IF j.id = id THEN s ELSE j.stage)
    BY <1>1
  <2>2. \A k \in J : \E j \in file.jobs :
          k.id = j.id /\ k.new = j.new /\ k.stage = (IF j.id = id THEN s ELSE j.stage)
    BY <1>1
  <2>3. ASSUME NEW j \in J, NEW k \in J, j.id = k.id PROVE j = k
    <3>1. PICK a \in file.jobs : j = M(a)
      OBVIOUS
    <3>2. PICK b \in file.jobs : k = M(b)
      OBVIOUS
    <3>3. a.id = b.id
      BY <3>1, <3>2, <2>3, <1>1
    <3>4. a = b
      BY <3>3 DEF JobsOK
    <3> QED BY <3>1, <3>2, <3>4
  <2> HIDE DEF J
  <2> QED BY <1>3, <2>1, <2>2, <2>3 DEF JobsMoved
<1> HIDE DEF J
<1>5. PICK g : g = [file EXCEPT !.jobs = J]
  OBVIOUS
<1>6. /\ g \in FileRecord /\ g.jobs = J /\ g.completed = file.completed /\ g.consumed = file.consumed
      /\ g.reserved = file.reserved /\ g.covered = file.covered
      /\ g.ready = file.ready /\ g.blocked = file.blocked
  BY <1>5, <1>3 DEF WindowsShape, FileRecord
<1> QED BY <1>2, <1>4, <1>5, <1>6

\* Moving a job that was published keeps what holds of the jobs and of the owner.
LEMMA MoveKeepsJobs ==
  ASSUME NEW once \in BOOLEAN, WindowsShape, JobsOK(once), OwnerOK(once), NEW j0 \in file.jobs, NEW s \in Stage,
         JobsMoved(j0.id, s, file'.jobs), UNCHANGED <<owner, slipped>>, file'.ready \subseteq file.ready,
         file'.completed = file.completed, file'.reserved = file.reserved,
         file'.covered = file.covered \cup (IF s \in Finished THEN j0.new ELSE {}),
         store \subseteq store', core \subseteq core',
         s \in Finished => j0.id \in store' \cap core',
         s = "committed" => j0.id \in store',
         j0.stage \in Finished => s \in Finished
  PROVE  JobsOK(once)' /\ OwnerOK(once)' /\ Unperceived' \subseteq Unperceived
<1> DEFINE J == file'.jobs
           Like(k, j) == k.id = j.id /\ k.new = j.new /\ k.stage = (IF j.id = j0.id THEN s ELSE j.stage)
<1>1. /\ \A j \in file.jobs : \E k \in J : Like(k, j)
      /\ \A k \in J : \E j \in file.jobs : Like(k, j)
      /\ \A j, k \in J : j.id = k.id => j = k
  BY DEF JobsMoved
<1>2. /\ \A j, k \in file.jobs : j.id = k.id => j = k
      /\ once => \A j, k \in file.jobs : j = k \/ j.new \cap k.new = {}
  BY DEF JobsOK, TurnsPerceivedOnce
<1>3. ASSUME NEW k \in J PROVE SealedOK(once, k)'
  <2>1. PICK j \in file.jobs : Like(k, j)
    BY <1>1
  <2>2. SealedOK(once, j)
    BY DEF JobsOK
  <2>3. CASE j = j0
    <3>1. k.id = j0.id /\ k.new = j0.new /\ k.stage = s /\ SealedOK(once, j0)
      BY <2>1, <2>2, <2>3
    <3>2. k.stage \in Finished => k.new \subseteq file'.covered /\ k.id \in store' \cap core'
      BY <3>1
    <3>3. once /\ k.stage \notin Finished => k.new \cap file'.covered = {}
      BY <3>1 DEF SealedOK
    <3> QED BY <3>1, <3>2, <3>3 DEF SealedOK
  <2>4. CASE j # j0
    <3>1. k.id = j.id /\ k.new = j.new /\ k.stage = j.stage /\ (once => j.new \cap j0.new = {})
      BY <2>1, <2>4, <1>2
    <3>2. k.stage \in Finished => k.new \subseteq file'.covered /\ k.id \in store' \cap core'
      BY <3>1, <2>2 DEF SealedOK
    <3>3. once /\ k.stage \notin Finished => k.new \cap file'.covered = {}
      BY <3>1, <2>2 DEF SealedOK
    <3> QED BY <3>1, <3>2, <3>3, <2>2 DEF SealedOK
  <2> QED BY <2>3, <2>4
<1>4. \A k \in Beyond' : \E j \in Beyond : k.id = j.id /\ k.new = j.new
  BY <1>1 DEF Beyond
<1>5. \A j \in Beyond : \E k \in Beyond' : k.id = j.id /\ k.new = j.new
  BY <1>1 DEF Beyond
<1>6. ASSUME once, NEW k \in Beyond' PROVE BeyondOK(k)'
  <2>1. PICK j \in Beyond : k.id = j.id /\ k.new = j.new
    BY <1>4
  <2>2. BeyondOK(j)
    BY <1>6 DEF JobsOK
  <2>3. (\E b \in Beyond : b # j) => \E c \in Beyond' : c # k
    <3>1. SUFFICES ASSUME NEW b \in Beyond, b # j PROVE \E c \in Beyond' : c # k
      OBVIOUS
    <3>2. PICK c \in Beyond' : c.id = b.id
      BY <1>5
    <3>3. b.id # j.id
      BY <3>1, <1>2 DEF Beyond
    <3> QED BY <3>2, <3>3, <2>1
  <2>4. \A t \in file'.ready \cup owner'.rows : t \in file.ready \cup owner.rows
    OBVIOUS
  <2> QED BY <2>1, <2>2, <2>3, <2>4 DEF BeyondOK
<1>7. ASSUME once PROVE TurnsPerceivedOnce'
  <2>1. SUFFICES ASSUME NEW a \in J, NEW b \in J PROVE a = b \/ a.new \cap b.new = {}
    BY DEF TurnsPerceivedOnce
  <2>2. PICK j \in file.jobs : Like(a, j)
    BY <1>1
  <2>3. PICK k \in file.jobs : Like(b, k)
    BY <1>1
  <2>4. CASE j = k
    BY <2>2, <2>3, <2>4, <1>1
  <2>5. CASE j # k
    BY <2>2, <2>3, <2>5, <1>2, <1>7
  <2> QED BY <2>4, <2>5
<1>8. ASSUME NEW t \in file'.covered PROVE \E k \in J : t \in k.new /\ k.stage \in Finished
  <2>1. CASE t \in file.covered
    <3>1. PICK j \in file.jobs : t \in j.new /\ j.stage \in Finished
      BY <2>1 DEF JobsOK
    <3>2. PICK k \in J : Like(k, j)
      BY <1>1
    <3>3. k.stage \in Finished
      <4>1. j.id = j0.id => j = j0
        BY <1>2
      <4> QED BY <3>1, <3>2, <4>1
    <3> QED BY <3>1, <3>2, <3>3
  <2>2. CASE t \notin file.covered
    <3>1. t \in j0.new /\ s \in Finished
      BY <2>2
    <3>2. PICK k \in J : Like(k, j0)
      BY <1>1
    <3> QED BY <3>1, <3>2
  <2> QED BY <2>1, <2>2
<1>9. JobsOK(once)'
  BY <1>1, <1>3, <1>6, <1>7, <1>8 DEF JobsOK
<1>10. Unperceived' \subseteq Unperceived
  BY DEF Unperceived, Unprotected
<1>11. OneBeyond => OneBeyond'
  BY <1>1, <1>4 DEF OneBeyond, Beyond, Unprotected
<1>12. OwnerOK(once)'
  <2>1. once /\ owner.at # "reserve" => OneBeyond'
    BY <1>11 DEF OwnerOK
  <2>2. owner.at = "jobs" =>
          /\ \A t \in file'.ready \ file'.covered : t > owner.start => t \in owner.rows
          /\ once => \A j \in Beyond' : j.new \subseteq owner.rows \/ j.new \cap owner.rows = {}
    BY <1>10, <1>4 DEF OwnerOK
  <2>3. once /\ owner.at = "reserve" => \A j \in Beyond' : j.id[2] <= owner.end
    BY <1>4 DEF OwnerOK
  <2>4. owner.at = "turn" => file'.completed < MaxTurns
    BY DEF OwnerOK
  <2> QED BY <2>1, <2>2, <2>3, <2>4 DEF OwnerOK
<1> QED BY <1>9, <1>10, <1>12

\* A turn that is completed, and records that are added, disturb no job.
LEMMA SameJobs ==
  ASSUME NEW once \in BOOLEAN, WindowsShape, JobsOK(once), file'.jobs = file.jobs, file'.reserved = file.reserved,
         file'.covered = file.covered, file'.completed \in Nat, file.completed <= file'.completed,
         store \subseteq store', core \subseteq core', owner.at = "reserve" => owner'.at = "reserve",
         \A t \in file'.ready \cup owner'.rows : t \in file.ready \cup owner.rows \/ (t \in Nat /\ t > file.completed)
  PROVE  JobsOK(once)' /\ Beyond' = Beyond /\ JobIds' = JobIds
<1>1. Beyond' = Beyond /\ JobIds' = JobIds
  BY DEF Beyond, JobIds
<1>2. ASSUME NEW j \in file.jobs PROVE SealedOK(once, j)'
  <2>1. SealedOK(once, j)
    BY DEF JobsOK
  <2>2. j.id[2] <= file'.completed
    <3>1. j.id[2] \in Nat /\ file.completed \in Nat
      BY ShapeFacts
    <3> QED BY <3>1, <2>1 DEF SealedOK
  <2> QED BY <2>1, <2>2 DEF SealedOK
<1>3. ASSUME once, NEW j \in Beyond PROVE BeyondOK(j)'
  <2>1. BeyondOK(j) /\ j.id[2] <= file.completed
    BY <1>3 DEF JobsOK, Beyond, SealedOK
  <2>2. j.id[2] \in Nat /\ file.completed \in Nat
    BY ShapeFacts DEF Beyond
  <2>3. ASSUME NEW t \in file'.ready \cup owner'.rows, t <= j.id[2] PROVE t \in file.ready \cup owner.rows
    BY <2>1, <2>2, <2>3
  <2>4. \/ \A t \in file'.ready \cup owner'.rows : file'.reserved < t /\ t <= j.id[2] => t \in j.new
        \/ (owner'.at = "reserve" /\ \E k \in Beyond' : k # j)
    BY <2>1, <2>3, <1>1 DEF BeyondOK
  <2> QED BY <2>1, <2>4 DEF BeyondOK
<1> QED BY <1>1, <1>2, <1>3 DEF JobsOK, TurnsPerceivedOnce

\* What a drain relies on stays when jobs are added and the owner begins no turn
\* between two adjacent statements.
LEMMA DrainFrame ==
  ASSUME NEW w \in Worker, NEW x, DrainOK(w, x), lock' = lock,
         file.jobs \subseteq file'.jobs, store \subseteq store', core \subseteq core',
         file'.completed = file.completed, Unperceived' \subseteq Unperceived,
         x.at \in {"cover", "compact"} /\ owner'.at = "turn" => owner.at = "turn"
  PROVE  DrainOK(w, x)'
<1> SUFFICES ASSUME x.at \in Locked PROVE DrainOK(w, x)'
  BY DEF DrainOK
<1>1. lock' = w /\ x.todo \subseteq JobIds'
  BY DEF DrainOK, JobIds
<1>2. ASSUME x.at \in OnJob PROVE \E j \in file'.jobs : j.id = x.job /\ OnJobOK(x, j)'
  <2>1. PICK j \in file.jobs : j.id = x.job /\ OnJobOK(x, j)
    BY <1>2 DEF DrainOK
  <2>2. OnJobOK(x, j)'
    BY <2>1 DEF OnJobOK
  <2> QED BY <2>1, <2>2
<1>3. x.at = "compact" => /\ Unperceived' \subseteq x.scan
                          /\ owner'.at = "turn" => file'.completed + 1 \in x.scan
  BY DEF DrainOK
<1> QED BY <1>1, <1>2, <1>3 DEF DrainOK

\* One worker takes a step; those who do not hold the lock rely on nothing.
Puts(w, x) == worker' = [worker EXCEPT ![w] = x]

\* Only the drain that moves has to be looked at.
LEMMA OneDrainMoves ==
  ASSUME WindowsShape, NEW w \in Worker, NEW x \in WorkerRecord, Puts(w, x), DrainOK(w, x)',
         \A v \in Worker \ {w} : worker[v].at \in Locked => DrainOK(v, worker[v])'
  PROVE  worker' \in [Worker -> WorkerRecord] /\ DrainsOK'
<1>1. /\ worker' \in [Worker -> WorkerRecord] /\ worker'[w] = x
      /\ \A v \in Worker \ {w} : worker'[v] = worker[v]
  BY DEF Puts, WindowsShape
<1>2. ASSUME NEW v \in Worker PROVE DrainOK(v, worker[v])'
  <2>1. CASE v = w
    BY <2>1, <1>1 DEF DrainOK, OnJobOK
  <2>2. CASE v # w /\ worker[v].at \in Locked
    BY <2>2
  <2>3. CASE v # w /\ worker[v].at \notin Locked
    BY <2>3, <1>1 DEF DrainOK
  <2> QED BY <2>1, <2>2, <2>3
<1> QED BY <1>1, <1>2 DEF DrainsOK

\* A step that saves nothing and takes no lock keeps the invariant.
LEMMA NothingSaved ==
  ASSUME NEW once \in BOOLEAN, WindowsInv(once), UNCHANGED <<file, slipped, store, core, lock>>, owner' \in OwnerRecord, OwnerOK(once)',
         pendingEnd' \in Nat, owner'.rows \subseteq file.ready \cup owner.rows, owner.at = "reserve" => owner'.at = "reserve",
         owner'.at = "turn" => owner.at = "turn" \/ ~BetweenStatements,
         worker' \in [Worker -> WorkerRecord],
         \A v \in Worker : worker'[v] = worker[v] \/ worker'[v].at \notin Locked
  PROVE  WindowsInv(once)'
<1>1. WindowsShape'
  BY DEF WindowsInv, WindowsShape
<1>2. JobsOK(once)'
  <2>1. file.completed \in Nat
    BY ShapeFacts DEF WindowsInv
  <2> QED BY <2>1, SameJobs DEF WindowsInv
<1>3. CursorsOK'
  BY DEF WindowsInv, CursorsOK, Unperceived, Unprotected
<1>4. ASSUME NEW v \in Worker PROVE DrainOK(v, worker[v])'
  <2>1. CASE worker'[v].at \notin Locked
    BY <2>1 DEF DrainOK
  <2>2. CASE worker'[v] = worker[v]
    <3>1. PICK x : x = worker[v]
      OBVIOUS
    <3>2. DrainOK(v, x)
      BY <3>1 DEF WindowsInv, DrainsOK
    <3>3. x.at \in {"cover", "compact"} /\ owner'.at = "turn" => owner.at = "turn"
      BY <3>1 DEF BetweenStatements
    <3>4. DrainOK(v, x)'
      BY <3>2, <3>3, DrainFrame DEF Unperceived, Unprotected
    <3>5. x = worker'[v]
      BY <3>1, <2>2
    <3> QED BY <3>4, <3>5 DEF DrainOK, OnJobOK
  <2> QED BY <2>1, <2>2
<1> QED BY <1>1, <1>2, <1>3, <1>4 DEF WindowsInv, DrainsOK

\* A drain that is away, ...
LEMMA AwayFacts == Away \in WorkerRecord /\ Away.at = "off"
BY DEF Away, WorkerRecord, Place

\* ... and an owner at rest, in full.
LEMMA RestFacts == Rest \in OwnerRecord /\ Rest.at = "idle" /\ Rest.rows = {}
BY WindowsAssumption DEF Rest, OwnerRecord

\* A turn begins: not between two adjacent statements of a drain.
LEMMA BeginStep == ASSUME NEW once \in BOOLEAN, WindowsInv(once), BeginTurn PROVE WindowsInv(once)'
<1>1. PICK o : o = [Rest EXCEPT !.at = "turn"]
  OBVIOUS
<1>2. o \in OwnerRecord /\ o.at = "turn" /\ o.rows = {}
  BY <1>1, WindowsAssumption DEF Rest, OwnerRecord
<1>3. owner' = o /\ UNCHANGED <<file, slipped, store, core, pendingEnd, worker, lock>> /\ owner.at = "idle" /\ ~BetweenStatements
      /\ file.completed < MaxTurns
  BY <1>1 DEF BeginTurn, mishaps
<1>4. OwnerOK(once)'
  BY <1>2, <1>3 DEF WindowsInv, OwnerOK, OneBeyond, Beyond, Unprotected
<1> QED BY <1>2, <1>3, <1>4, NothingSaved DEF WindowsInv, WindowsShape

\* A turn ends uncounted.
LEMMA UncountedStep == ASSUME NEW once \in BOOLEAN, WindowsInv(once), TurnEndsUncounted PROVE WindowsInv(once)'
<1>1. PICK o : o = [Rest EXCEPT !.at = "rows", !.start = file.reserved]
  OBVIOUS
<1>2. o \in OwnerRecord /\ o.at = "rows" /\ o.rows = {} /\ o.start = file.reserved
  <2>1. file.reserved \in 0..MaxTurns
    BY ShapeFacts DEF WindowsInv
  <2> QED BY <1>1, <2>1, RestFacts DEF OwnerRecord
<1>3. owner' = o /\ UNCHANGED <<file, slipped, store, core, pendingEnd, worker, lock>> /\ owner.at = "turn"
  BY <1>1 DEF TurnEndsUncounted, mishaps
<1>4. OwnerOK(once)'
  BY <1>2, <1>3 DEF WindowsInv, OwnerOK, OneBeyond, Beyond, Unprotected
<1> QED BY <1>2, <1>3, <1>4, NothingSaved DEF WindowsInv, WindowsShape

\* Compression touches the context only.
LEMMA CompressStep == ASSUME NEW once \in BOOLEAN, WindowsInv(once), CompressContext PROVE WindowsInv(once)'
<1>1. UNCHANGED <<file, slipped, store, core, owner, pendingEnd, worker, lock>>
  BY DEF CompressContext, mishaps
<1>2. OwnerOK(once)'
  BY <1>1 DEF WindowsInv, OwnerOK, OneBeyond, Beyond, Unprotected, Unperceived
<1> QED BY <1>1, <1>2, NothingSaved DEF WindowsInv, WindowsShape

\* The owner reads its rows: each job beyond the cursor is wholly among them or not.
LEMMA RowsStep == ASSUME NEW once \in BOOLEAN, WindowsInv(once), SealRows PROVE WindowsInv(once)'
<1> DEFINE R == {t \in Rows : t \notin file.covered \/ t <= owner.start}
<1>0. owner \in OwnerRecord /\ owner.at = "rows" /\ owner.start = file.reserved
  BY DEF SealRows, WindowsInv, WindowsShape, OwnerOK
<1>1. R \subseteq Turn /\ R \subseteq 1..file.completed
  BY DEF Rows, WindowsInv, CursorsOK, WindowsShape, FileRecord
<1>2. PICK o : o = [owner EXCEPT !.at = "jobs", !.rows = R]
  OBVIOUS
<1>3. o \in OwnerRecord /\ o.at = "jobs" /\ o.rows = R /\ o.start = owner.start
  <2> HIDE DEF R
  <2> QED BY <1>0, <1>1, <1>2 DEF OwnerRecord
<1>4. owner' = o /\ UNCHANGED <<file, slipped, store, core, pendingEnd, worker, lock>>
  BY <1>2 DEF SealRows, mishaps
<1>5. \A t \in file.ready \ file.covered : t \in R
  <2>1. file.ready \subseteq 1..file.completed /\ file.completed \in Nat
    BY ShapeFacts DEF WindowsInv, CursorsOK
  <2> QED BY <2>1 DEF Rows
<1>6. ASSUME once, NEW j \in Beyond PROVE j.new \subseteq R \/ j.new \cap R = {}
  <2>0. j \in file.jobs /\ SealedOK(once, j) /\ BeyondOK(j) /\ j \in Job /\ Turn \subseteq Nat /\ file.completed \in Nat
        /\ file.reserved \in Nat
    BY <1>6, ShapeFacts DEF WindowsInv, JobsOK, Beyond
  <2>t. ASSUME NEW t \in j.new PROVE t \in Nat /\ 1 <= t /\ t <= file.completed /\ ~(t <= owner.start)
    <3>1. t \in Turn /\ j.id[1] \in Nat /\ j.id[2] \in Nat
      BY <2>0, ShapeFacts DEF WindowsInv
    <3>2. t \in Nat /\ 1 <= t
      BY <3>1, <2>0 DEF Turn
    <3>3. j.id[1] < t /\ t <= j.id[2] /\ j.id[2] <= file.completed /\ j.id[1] = owner.start
      BY <2>0, <1>0 DEF SealedOK, BeyondOK
    <3> QED BY <3>1, <3>2, <3>3, <2>0
  <2>1. CASE j.stage \in Finished
    <3>1. ASSUME NEW t \in j.new PROVE t \notin R
      <4>1. t \in file.covered
        BY <2>0, <2>1 DEF SealedOK
      <4> QED BY <4>1, <2>t
    <3> QED BY <3>1
  <2>2. CASE j.stage \notin Finished
    <3>1. ASSUME NEW t \in j.new PROVE t \in R
      <4>1. t \notin file.covered
        BY <2>0, <2>2, <1>6 DEF SealedOK
      <4>2. t \in Unperceived
        <5>1. t \notin Unprotected
          BY <1>0, <1>6 DEF WindowsInv, OwnerOK, OneBeyond
        <5> QED BY <4>1, <5>1, <2>t, <2>0 DEF Unperceived
      <4>3. t \in file.ready
        BY <4>2 DEF WindowsInv, CursorsOK
      <4> QED BY <4>1, <4>3, <1>5
    <3> QED BY <3>1
  <2> QED BY <2>1, <2>2
<1> HIDE DEF R
<1>7. OwnerOK(once)'
  <2>1. Beyond' = Beyond /\ (once => OneBeyond')
    BY <1>0, <1>4 DEF Beyond, OneBeyond, Unprotected, WindowsInv, OwnerOK
  <2> QED BY <2>1, <1>0, <1>1, <1>3, <1>4, <1>5, <1>6 DEF OwnerOK
<1>8. R \subseteq file.ready
  BY DEF R, Rows
<1> QED BY <1>0, <1>3, <1>4, <1>7, <1>8, NothingSaved DEF WindowsInv, WindowsShape

\* The owner starts a drain, or one runs.
LEMMA KickStep == ASSUME NEW once \in BOOLEAN, WindowsInv(once), Kick PROVE WindowsInv(once)'
<1>1. UNCHANGED <<file, slipped, store, core, lock>> /\ owner' = Rest /\ pendingEnd' \in Nat /\ owner.at = "kick"
  BY ShapeFacts DEF Kick, WindowsInv, mishaps
<1>2. Rest \in OwnerRecord /\ Rest.at = "idle" /\ Rest.rows = {}
  BY RestFacts
<1>3. OwnerOK(once)'
  BY <1>1, <1>2 DEF WindowsInv, OwnerOK, OneBeyond, Beyond, Unprotected
<1>4. /\ worker' \in [Worker -> WorkerRecord]
      /\ \A v \in Worker : worker'[v] = worker[v] \/ worker'[v].at \notin Locked
  <2>1. CASE UNCHANGED worker
    BY <2>1 DEF WindowsInv, WindowsShape
  <2>2. CASE \E d \in Drain : worker' = [worker EXCEPT ![d] = [Away EXCEPT !.at = "look", !.bound = TRUE]]
    <3>1. PICK d \in Drain : worker' = [worker EXCEPT ![d] = [Away EXCEPT !.at = "look", !.bound = TRUE]]
      BY <2>2
    <3>2. PICK x : x = [Away EXCEPT !.at = "look", !.bound = TRUE]
      OBVIOUS
    <3>3. x \in WorkerRecord /\ x.at = "look"
      BY <3>2, AwayFacts DEF WorkerRecord, Place
    <3>4. worker' = [worker EXCEPT ![d] = x] /\ d \in Worker
      BY <3>1, <3>2 DEF Worker
    <3> QED BY <3>3, <3>4 DEF WindowsInv, WindowsShape, Locked, Between, OnJob
  <2> QED BY <2>1, <2>2 DEF Kick
<1> QED BY <1>1, <1>2, <1>3, <1>4, NothingSaved

\* A turn is completed; a drain that is about to move the cursor saw it begin.
LEMMA CompleteStep == ASSUME NEW once \in BOOLEAN, WindowsInv(once), CompleteTurn PROVE WindowsInv(once)'
<1> DEFINE n == file.completed + 1
           c == IF file.consumed < n THEN file.consumed ELSE n - 1
<1>0. /\ file \in FileRecord /\ owner.at = "turn" /\ file.completed < MaxTurns /\ file.reserved <= file.completed
      /\ MaxTurns \in Nat /\ {file.completed, file.consumed, file.reserved} \subseteq 0..MaxTurns
      /\ file.ready \subseteq Turn /\ file.jobs \subseteq Job
  BY ShapeFacts DEF CompleteTurn, WindowsInv, WindowsShape, OwnerOK, CursorsOK
<1>1. /\ n \in 1..MaxTurns /\ n \in Nat /\ file.completed \in Nat /\ c \in 0..MaxTurns /\ c < n /\ c <= file.consumed
      /\ file.reserved < n
  BY <1>0
<1>2. file' = [file EXCEPT !.completed = n, !.ready = @ \cup {n}, !.consumed = c, !.reserved = file.reserved]
  BY <1>0, <1>1 DEF CompleteTurn
<1>3. PICK r : r = file.ready \cup {n}
  OBVIOUS
<1>4. r \in SUBSET Turn
  BY <1>0, <1>1, <1>3 DEF Turn
<1>5. PICK m, d : m = n /\ d = c
  OBVIOUS
<1>6. file' = [file EXCEPT !.completed = m, !.ready = r, !.consumed = d, !.reserved = file.reserved]
  BY <1>2, <1>3, <1>5
<1>7. /\ file' \in FileRecord /\ file'.completed = m /\ file'.ready = r /\ file'.consumed = d
      /\ file'.reserved = file.reserved /\ file'.covered = file.covered /\ file'.jobs = file.jobs
  <2>1. m \in 0..MaxTurns /\ d \in 0..MaxTurns
    BY <1>1, <1>5
  <2> QED BY <1>0, <1>4, <1>6, <2>1 DEF FileRecord
<1>8. /\ file'.completed = n /\ file'.consumed = c /\ file'.ready = file.ready \cup {n}
      /\ UNCHANGED <<store, core, worker, lock, pendingEnd>>
  BY <1>7, <1>5, <1>3 DEF CompleteTurn
<1>s. /\ slipped \subseteq slipped' /\ slipped' \subseteq slipped \cup {n}
      /\ (\E v \in Worker : worker[v].at = "cover") => n \in slipped'
  BY DEF CompleteTurn
<1> HIDE DEF n, c
<1>9. PICK o : o = [Rest EXCEPT !.at = "rows", !.start = file.reserved]
  OBVIOUS
<1>10. o \in OwnerRecord /\ o.at = "rows" /\ o.start = file.reserved /\ o.rows = {}
  BY <1>0, <1>9, RestFacts DEF OwnerRecord
<1>11. owner' = o
  BY <1>7, <1>9 DEF CompleteTurn
<1>12. WindowsShape'
  BY <1>7, <1>8, <1>10, <1>11 DEF WindowsInv, WindowsShape
<1>13. JobsOK(once)' /\ Beyond' = Beyond /\ JobIds' = JobIds
  <2>1. file'.completed \in Nat /\ file.completed <= file'.completed
    BY <1>1, <1>8 DEF n
  <2>2. \A t \in file'.ready \cup owner'.rows : t \in file.ready \cup owner.rows \/ (t \in Nat /\ t > file.completed)
    BY <1>1, <1>8, <1>10, <1>11 DEF n
  <2> QED BY <2>1, <2>2, <1>0, <1>7, <1>8, SameJobs DEF WindowsInv
<1>14. Unperceived' \subseteq Unperceived \cup {n} /\ n = file.completed + 1
  BY <1>7, <1>8, <1>1, <1>s DEF Unperceived, Unprotected, n
<1>u. Overlap = 0 /\ n \in slipped' => n \notin Unperceived'
  BY DEF Unperceived, Unprotected
<1>15. CursorsOK'
  <2>1. file'.reserved <= file'.completed
    BY <1>0, <1>1, <1>7, <1>8
  <2>2. file'.ready \subseteq 1..file'.completed
    BY <1>0, <1>1, <1>8, <1>14 DEF WindowsInv, CursorsOK
  <2>3. ASSUME NEW t \in Unperceived' PROVE t \in file'.ready /\ file'.consumed <= t /\ file'.consumed < t + Overlap
    <3>1. CASE t = n
      BY <3>1, <1>1, <1>8, <1>0, WindowsAssumption
    <3>2. CASE t \in Unperceived
      <4>1. t \in file.ready /\ file.consumed <= t /\ file.consumed < t + Overlap /\ t \in Nat
        BY <3>2 DEF WindowsInv, CursorsOK, Unperceived
      <4>2. file.consumed \in Nat /\ c \in Nat /\ Overlap \in Nat
        BY <1>0, <1>1, WindowsAssumption
      <4> QED BY <4>1, <4>2, <1>1, <1>8
    <3> QED BY <3>1, <3>2, <1>14
  <2> QED BY <2>1, <2>2, <2>3 DEF CursorsOK
<1>16. OwnerOK(once)'
  <2>1. ASSUME once PROVE OneBeyond'
    <3>1. OneBeyond
      BY <2>1, <1>0 DEF WindowsInv, OwnerOK
    <3>2. ASSUME NEW j \in Beyond PROVE n \notin j.new
      <4>1. SealedOK(once, j) /\ j.id[2] \in Nat
        BY ShapeFacts DEF WindowsInv, JobsOK, Beyond
      <4> QED BY <4>1, <1>0, <1>14 DEF SealedOK
    <3> QED BY <3>1, <3>2, <1>13, <1>s DEF OneBeyond, Unprotected
  <2> QED BY <2>1, <1>7, <1>10, <1>11 DEF OwnerOK
<1>17. ASSUME NEW v \in Worker PROVE DrainOK(v, worker[v])'
  <2>1. PICK x : x = worker[v]
    OBVIOUS
  <2>2. DrainOK(v, x)
    BY <2>1 DEF WindowsInv, DrainsOK
  <2>3. DrainOK(v, x)'
    <3> SUFFICES ASSUME x.at \in Locked PROVE DrainOK(v, x)'
      BY DEF DrainOK
    <3>1. lock' = v /\ x.todo \subseteq JobIds'
      BY <2>2, <1>8, <1>13 DEF DrainOK
    <3>2. ASSUME x.at \in OnJob PROVE \E j \in file'.jobs : j.id = x.job /\ OnJobOK(x, j)'
      <4>1. PICK j \in file.jobs : j.id = x.job /\ OnJobOK(x, j)
        BY <3>2, <2>2 DEF DrainOK
      <4>2. x.at = "cover" =>
              /\ x.scan \subseteq 1..file'.completed
              /\ \A t \in Unperceived' : t \in j.new \cup x.scan \/ (Overlap > 0 /\ t = file'.completed /\ owner'.at # "turn")
        <5>1. x.at = "cover" => \A t \in Unperceived : t \in j.new \cup x.scan
          BY <4>1, <1>0 DEF OnJobOK
        <5>2. 1..file.completed \subseteq 1..file'.completed
          BY <1>0, <1>8, <1>14
        <5>3. x.at = "cover" => x.scan \subseteq 1..file'.completed
          BY <4>1, <5>2 DEF OnJobOK
        <5>4. x.at = "cover" => n \in slipped'
          BY <2>1, <1>s
        <5>5. Overlap = 0 \/ Overlap > 0
          BY WindowsAssumption
        <5> QED BY <5>1, <5>3, <5>4, <5>5, <1>8, <1>10, <1>11, <1>14, <1>u
      <4>3. OnJobOK(x, j)'
        BY <4>1, <4>2, <1>8 DEF OnJobOK
      <4> QED BY <4>1, <4>3, <1>7
    <3>3. x.at = "compact" => Unperceived' \subseteq x.scan
      <4>1. x.at = "compact" => Unperceived \subseteq x.scan /\ n \in x.scan
        BY <2>2, <1>0, <1>14 DEF DrainOK
      <4> QED BY <4>1, <1>14
    <3> QED BY <3>1, <3>2, <3>3, <1>10, <1>11 DEF DrainOK
  <2> QED BY <2>1, <2>3, <1>8 DEF DrainOK, OnJobOK
<1> QED BY <1>12, <1>13, <1>15, <1>16, <1>17 DEF WindowsInv, DrainsOK

\* After the cursor moved, no job is beyond it.
LEMMA ReserveStep == ASSUME NEW once \in BOOLEAN, WindowsInv(once), Reserve PROVE WindowsInv(once)'
<1>0. /\ file \in FileRecord /\ owner \in OwnerRecord /\ owner.at = "reserve" /\ owner.start = file.reserved
      /\ owner.end > owner.start /\ owner.end <= file.completed /\ (once => \A j \in Beyond : j.id[2] <= owner.end)
      /\ owner.end \in 0..MaxTurns /\ MaxTurns \in Nat /\ file.completed \in Nat /\ file.reserved \in Nat
      /\ owner.end \in Nat /\ file.jobs \subseteq Job
  BY ShapeFacts DEF Reserve, WindowsInv, WindowsShape, OwnerOK, OwnerRecord
<1>1. PICK e : e = owner.end
  OBVIOUS
<1>2. file' = [file EXCEPT !.reserved = e] /\ UNCHANGED <<slipped, store, core, worker, lock, pendingEnd>>
  BY <1>1 DEF Reserve, mishaps
<1>3. /\ file' \in FileRecord /\ file'.reserved = e /\ file'.completed = file.completed
      /\ file'.consumed = file.consumed /\ file'.ready = file.ready /\ file'.covered = file.covered
      /\ file'.jobs = file.jobs
  BY <1>0, <1>1, <1>2 DEF FileRecord
<1>4. PICK o : o = [owner EXCEPT !.at = "rows", !.start = e]
  OBVIOUS
<1>5. o \in OwnerRecord /\ o.at = "rows" /\ o.start = e /\ owner' = o
  BY <1>0, <1>1, <1>4 DEF OwnerRecord, Reserve
<1>6. ASSUME once PROVE Beyond' = {}
  <2> SUFFICES ASSUME NEW j \in file.jobs, j.id[2] > e PROVE FALSE
    BY <1>3 DEF Beyond
  <2>1. j.id[2] \in Nat
    BY <1>0, ShapeFacts DEF WindowsInv
  <2>2. j \in Beyond
    BY <2>1, <1>0, <1>1 DEF Beyond
  <2> QED BY <2>1, <2>2, <1>0, <1>1, <1>6
<1>7. WindowsShape'
  BY <1>2, <1>3, <1>5 DEF WindowsInv, WindowsShape
<1>8. JobsOK(once)'
  <2>1. \A j \in file.jobs : SealedOK(once, j)'
    BY <1>2, <1>3 DEF WindowsInv, JobsOK, SealedOK
  <2> QED BY <2>1, <1>3, <1>6 DEF WindowsInv, JobsOK, TurnsPerceivedOnce
<1>9. CursorsOK' /\ Unperceived' = Unperceived
  BY <1>0, <1>1, <1>2, <1>3 DEF WindowsInv, CursorsOK, Unperceived, Unprotected
<1>10. OwnerOK(once)'
  BY <1>3, <1>5, <1>6 DEF OwnerOK, OneBeyond
<1>11. ASSUME NEW v \in Worker PROVE DrainOK(v, worker[v])'
  <2>1. PICK x : x = worker[v]
    OBVIOUS
  <2>2. DrainOK(v, x)
    BY <2>1 DEF WindowsInv, DrainsOK
  <2>3. DrainOK(v, x)'
    BY <2>2, <1>2, <1>3, <1>5, <1>9, DrainFrame
  <2> QED BY <2>1, <2>3, <1>2 DEF DrainOK, OnJobOK
<1> QED BY <1>7, <1>8, <1>9, <1>10, <1>11 DEF WindowsInv, DrainsOK

\* A death keeps the journal, and everybody forgets the rest.
LEMMA DeathStep == ASSUME NEW once \in BOOLEAN, WindowsInv(once), Death, once => OneBeyond PROVE WindowsInv(once)'
<1>1. /\ UNCHANGED <<file, slipped, store, core>> /\ owner' = Rest /\ pendingEnd' = 0 /\ lock' = NoWorker
      /\ worker' = [w \in Worker |-> Away]
  BY DEF Death
<1>2. WindowsShape'
  BY <1>1, AwayFacts, RestFacts DEF WindowsInv, WindowsShape
<1>3. Beyond' = Beyond /\ Unperceived' = Unperceived
  BY <1>1 DEF Beyond, Unperceived, Unprotected
<1>4. JobsOK(once)'
  <2>1. \A j \in file.jobs : SealedOK(once, j)'
    BY <1>1 DEF WindowsInv, JobsOK, SealedOK
  <2>2. ASSUME once, NEW j \in Beyond PROVE BeyondOK(j)'
    <3>1. BeyondOK(j) /\ \A k \in Beyond : k = j
      BY <2>2 DEF WindowsInv, JobsOK, OneBeyond
    <3>2. owner'.rows = {} /\ file'.ready = file.ready /\ file'.reserved = file.reserved
      BY <1>1, RestFacts
    <3> QED BY <3>1, <3>2 DEF BeyondOK
  <2> QED BY <2>1, <2>2, <1>1, <1>3 DEF WindowsInv, JobsOK, TurnsPerceivedOnce
<1>5. CursorsOK' /\ OwnerOK(once)'
  <2>1. CursorsOK'
    BY <1>1, <1>3 DEF WindowsInv, CursorsOK
  <2>2. once => OneBeyond'
    BY <1>1, <1>3 DEF OneBeyond, Unprotected
  <2> QED BY <2>1, <2>2, <1>1, RestFacts DEF OwnerOK
<1>6. DrainsOK'
  BY <1>1, AwayFacts DEF DrainsOK, DrainOK, Locked, Between, OnJob
<1> QED BY <1>2, <1>4, <1>5, <1>6 DEF WindowsInv

\* What is sealed is new, or the very window that is there already.
LEMMA FreshFacts ==
  ASSUME NEW once \in BOOLEAN, WindowsInv(once), owner.at = "jobs", ~(Cardinality(Fresh) < Size)
  PROVE  /\ Fresh \in SUBSET Turn /\ Fresh # {} /\ Cardinality(Fresh) = Size
         /\ \A t \in Fresh : file.reserved < t /\ t <= file.completed
         /\ once =>
            \/ \E j \in Beyond : j.id = <<owner.start, Greatest(Fresh)>> /\ Fresh = j.new
            \/ /\ \A j \in file.jobs : j.new \cap Fresh = {}
               /\ Fresh \cap file.covered = {}
               /\ \A j \in Beyond : j.id[2] < Greatest(Fresh)
               /\ Beyond = {} => \A t \in file.ready \cup owner.rows :
                                   file.reserved < t /\ t <= Greatest(Fresh) => t \in Fresh
<1> DEFINE New == {t \in owner.rows : t > owner.start}
           S == New \ Reserved
<1>0. /\ Size \in Nat /\ Size > 0 /\ file.completed \in Nat /\ file.reserved \in Nat /\ Turn \subseteq Nat
      /\ owner.start = file.reserved /\ owner.rows \subseteq 1..file.completed /\ owner.rows \subseteq Turn
      /\ file.jobs \subseteq Job
      /\ file.ready \subseteq Turn
      /\ \A t \in file.ready \ file.covered : t > file.reserved => t \in owner.rows
      /\ once => \A j \in Beyond : j.new \subseteq owner.rows \/ j.new \cap owner.rows = {}
  BY ShapeFacts, WindowsAssumption DEF WindowsInv, OwnerOK
<1>j. ASSUME NEW j \in file.jobs
      PROVE  /\ j \in Job /\ j.id \in WindowId /\ j.id[1] \in Nat /\ j.id[2] \in Nat /\ j.id[2] \in Turn
             /\ j.new \subseteq Turn /\ SealedOK(once, j)
             /\ \A t \in j.new : t \in Nat /\ j.id[1] < t /\ t <= j.id[2]
             /\ j \notin Beyond => j.id[2] <= file.reserved
  <2>1. j \in Job /\ j.id \in WindowId /\ j.id[1] \in Nat /\ j.id[2] \in Nat /\ j.id[2] \in Turn /\ j.new \subseteq Turn
    BY <1>0, ShapeFacts DEF WindowsInv
  <2>2. SealedOK(once, j)
    BY DEF WindowsInv, JobsOK
  <2>3. j \notin Beyond => j.id[2] <= file.reserved
    BY <2>1, <1>0 DEF Beyond
  <2> QED BY <2>1, <2>2, <2>3, <1>0 DEF SealedOK
<1>1. S \in SUBSET Turn /\ New \subseteq owner.rows /\ \A t \in New : t \in Nat /\ file.reserved < t /\ t <= file.completed
  BY <1>0
<1>2. Fresh = Lowest(S, Size)
  BY DEF Fresh
<1>3. /\ Fresh \subseteq S
      /\ \A t \in S, g \in Fresh : t <= g => t \in Fresh
      /\ Cardinality(Fresh) <= Size
      /\ \A T \in SUBSET S : Cardinality(T) = Size /\ (\A t \in T, u \in S \ T : t < u) => Fresh = T
  <2> HIDE DEF S
  <2> QED BY <1>0, <1>1, <1>2, LowestFacts
<1>4. Fresh \in SUBSET Turn /\ \A t \in Fresh : t \in New /\ t \notin Reserved
  BY <1>1, <1>3
<1>5. Cardinality(Fresh) = Size /\ Fresh # {}
  <2>1. Cardinality(Fresh) \in Nat
    BY <1>4, TurnSets
  <2>2. Cardinality(Fresh) = Size
    BY <2>1, <1>0, <1>3
  <2> QED BY <2>2, <1>0, FS_EmptySet
<1> DEFINE g == Greatest(Fresh)
<1>6. g \in Fresh /\ \A u \in Fresh : u <= g
  BY <1>4, <1>5, ExtremeFacts
<1>7. g \in New /\ g \in Nat /\ file.reserved < g /\ g <= file.completed
  BY <1>6, <1>4, <1>1
<1> HIDE DEF g
<1>8. ASSUME NEW j \in file.jobs, j \notin Beyond PROVE j.new \cap New = {} /\ j.new \cap Fresh = {}
  <2>1. ASSUME NEW t \in j.new PROVE t \notin New
    BY <1>j, <1>8, <1>1, <1>0
  <2> QED BY <2>1, <1>4
<1>9. ASSUME once, NEW j \in Beyond, j.new \cap Fresh # {}
      PROVE  j.id = <<owner.start, g>> /\ Fresh = j.new
  <2>0. j \in file.jobs /\ BeyondOK(j) /\ j.id[1] = file.reserved /\ Cardinality(j.new) = Size
        /\ \A t \in owner.rows : file.reserved < t /\ t <= j.id[2] => t \in j.new
    BY <1>9 DEF WindowsInv, JobsOK, Beyond, BeyondOK
  <2>1. j \notin Pending
    BY <1>9, <1>4 DEF Reserved
  <2>2. j.new \subseteq owner.rows
    BY <1>9, <1>0, <1>4
  <2>3. j.new \cap Reserved = {}
    <3>1. ASSUME NEW k \in Pending PROVE k.new \cap j.new = {}
      <4>1. k \in file.jobs /\ k # j
        BY <2>1 DEF Pending
      <4> QED BY <4>1, <2>0, <1>9 DEF WindowsInv, JobsOK, TurnsPerceivedOnce
    <3> QED BY <3>1 DEF Reserved
  <2>4. j.new \subseteq S
    <3>1. ASSUME NEW t \in j.new PROVE t > owner.start
      BY <1>j, <2>0, <1>0
    <3> QED BY <3>1, <2>2, <2>3
  <2>5. ASSUME NEW t \in j.new, NEW u \in S \ j.new PROVE t < u
    <3>1. t \in Nat /\ t <= j.id[2] /\ j.id[2] \in Nat
      BY <1>j, <2>0
    <3>2. u \in owner.rows /\ u \in Nat /\ file.reserved < u
      BY <1>1
    <3>3. ~(u <= j.id[2])
      BY <3>2, <2>0
    <3> QED BY <3>1, <3>2, <3>3
  <2>6. Fresh = j.new
    <3> HIDE DEF S
    <3> QED BY <1>3, <2>0, <2>4, <2>5
  <2>7. j.id[2] = g
    <3>1. j.id[2] \in Fresh /\ g <= j.id[2] /\ j.id[2] \in Nat
      BY <2>6, <2>0, <1>6, <1>j DEF SealedOK
    <3> QED BY <3>1, <1>6, <1>7
  <2>8. j.id = <<j.id[1], j.id[2]>>
    BY <2>0, <1>j DEF WindowId
  <2> QED BY <2>0, <2>6, <2>7, <2>8, <1>0
<1>10. ASSUME once, \A j \in Beyond : j.new \cap Fresh = {}
       PROVE  /\ \A j \in file.jobs : j.new \cap Fresh = {}
              /\ Fresh \cap file.covered = {}
              /\ \A j \in Beyond : j.id[2] < g
              /\ Beyond = {} => \A t \in file.ready \cup owner.rows : file.reserved < t /\ t <= g => t \in Fresh
  <2>1. \A j \in file.jobs : j.new \cap Fresh = {}
    BY <1>8, <1>10
  <2>2. Fresh \cap file.covered = {}
    BY <2>1 DEF WindowsInv, JobsOK
  <2>3. ASSUME NEW j \in Beyond PROVE j.id[2] < g
    <3>1. j \in file.jobs /\ BeyondOK(j)
      BY <1>10 DEF WindowsInv, JobsOK, Beyond
    <3>2. g \in owner.rows /\ g \notin j.new
      BY <1>1, <1>6, <1>4, <2>1, <3>1
    <3>3. ~(g <= j.id[2])
      BY <3>1, <3>2, <1>7 DEF BeyondOK
    <3> QED BY <3>1, <3>3, <1>7, <1>j
  <2>4. ASSUME Beyond = {}, NEW t \in file.ready \cup owner.rows, file.reserved < t, t <= g PROVE t \in Fresh
    <3>0. t \in Nat /\ t <= file.completed /\ 1 <= t
      BY <2>4, <1>0, <1>7 DEF Turn
    <3>1. \A j \in file.jobs : t \notin j.new
      <4>1. ASSUME NEW j \in file.jobs PROVE t \notin j.new
        <5>1. j.id[2] <= file.reserved
          BY <2>4, <1>j
        <5> QED BY <5>1, <3>0, <2>4, <1>j, <1>0
      <4> QED BY <4>1
    <3>2. t \notin file.covered /\ t \notin Reserved
      BY <3>1 DEF WindowsInv, JobsOK, Reserved, Pending
    <3>3. t \in owner.rows
      BY <3>2, <2>4, <1>0
    <3>4. t \in S
      BY <3>2, <3>3, <2>4, <1>0
    <3> HIDE DEF S
    <3> QED BY <3>4, <2>4, <1>3, <1>6
  <2> QED BY <2>1, <2>2, <2>3, <2>4
<1> QED BY <1>1, <1>4, <1>5, <1>9, <1>10 DEF g

\* A window is sealed, or is found sealed already.
LEMMA SealStep == ASSUME NEW once \in BOOLEAN, WindowsInv(once), SealJob PROVE WindowsInv(once)'
<1>0. /\ file \in FileRecord /\ owner \in OwnerRecord /\ owner.at = "jobs" /\ owner.start = file.reserved
      /\ UNCHANGED <<slipped, store, core, worker, lock, pendingEnd>> /\ (once => OneBeyond) /\ file.completed \in Nat
      /\ file.reserved \in Nat /\ file.jobs \subseteq Job /\ file.reserved \in 0..MaxTurns /\ Turn \subseteq Nat
  BY ShapeFacts DEF SealJob, WindowsInv, WindowsShape, OwnerOK, mishaps
<1>1. CASE Cardinality(Fresh) < Size
  <2>1. PICK o : o = [owner EXCEPT !.at = "kick"]
    OBVIOUS
  <2>2. o \in OwnerRecord /\ o.at = "kick" /\ o.rows = owner.rows /\ owner' = o /\ UNCHANGED file
    BY <1>0, <1>1, <2>1 DEF OwnerRecord, SealJob
  <2>3. OwnerOK(once)'
    BY <2>2, <1>0 DEF OwnerOK, OneBeyond, Beyond, Unprotected
  <2> QED BY <1>0, <2>2, <2>3, NothingSaved DEF WindowsInv, WindowsShape
<1>2. CASE ~(Cardinality(Fresh) < Size)
  <2>1. PICK g, N, old : /\ g = Greatest(Fresh) /\ N = Fresh
                         /\ old = Highest({t \in owner.rows : t <= owner.start}, Overlap)
    OBVIOUS
  <2>2. /\ N \in SUBSET Turn /\ N # {} /\ Cardinality(N) = Size
        /\ \A t \in N : file.reserved < t /\ t <= file.completed
        /\ once =>
           \/ \E j \in Beyond : j.id = <<owner.start, g>> /\ N = j.new
           \/ /\ \A j \in file.jobs : j.new \cap N = {}
              /\ N \cap file.covered = {}
              /\ \A j \in Beyond : j.id[2] < g
              /\ Beyond = {} => \A t \in file.ready \cup owner.rows : file.reserved < t /\ t <= g => t \in N
    BY <1>0, <1>2, <2>1, FreshFacts
  <2>3. g \in N /\ (\A u \in N : u <= g) /\ g \in Turn /\ g \in Nat /\ file.reserved < g /\ g <= file.completed
    BY <2>1, <2>2, <1>0, ExtremeFacts
  <2>4. old \in SUBSET Turn
    BY <2>1, ShapeFacts DEF Highest, WindowsInv
  <2>5. PICK o : o = [owner EXCEPT !.at = "reserve", !.end = g]
    OBVIOUS
  <2>6. /\ o \in OwnerRecord /\ o.at = "reserve" /\ o.end = g /\ o.start = owner.start /\ o.rows = owner.rows
    <3>1. g \in 0..MaxTurns
      BY <2>3, ShapeFacts DEF WindowsInv, Turn
    <3> QED BY <3>1, <1>0, <2>5 DEF OwnerRecord
  <2>7. owner' = o
    BY <1>0, <1>2, <2>1, <2>5 DEF SealJob
  <2>8. CASE \E j \in file.jobs : j.id = <<owner.start, g>>
    <3>1. UNCHANGED file
      BY <1>0, <1>2, <2>1, <2>8 DEF SealJob
    <3>2. ASSUME once PROVE \A j \in Beyond : j.id[2] <= g
      <4>1. PICK k \in file.jobs : k.id = <<owner.start, g>>
        BY <2>8
      <4>2. k.id[2] = g /\ k \in Beyond
        BY <4>1, <2>3 DEF Beyond
      <4> QED BY <4>2, <1>0, <2>3, <3>2 DEF OneBeyond
    <3>3. Beyond' = Beyond
      BY <3>1 DEF Beyond
    <3>4. OwnerOK(once)'
      BY <3>1, <3>2, <3>3, <2>3, <2>6, <2>7, <1>0 DEF OwnerOK
    <3> QED BY <1>0, <2>6, <2>7, <3>1, <3>4, NothingSaved DEF WindowsInv, WindowsShape
  <2>9. CASE ~\E j \in file.jobs : j.id = <<owner.start, g>>
    <3>1. PICK J : J = [id |-> <<owner.start, g>>, new |-> N, events |-> N \cup old, stage |-> "registered"]
      OBVIOUS
    <3>2. /\ J \in Job /\ J.id = <<owner.start, g>> /\ J.new = N /\ J.stage = "registered"
          /\ J.id[1] = file.reserved /\ J.id[2] = g
      <4>1. <<owner.start, g>> \in WindowId
        BY <1>0, <2>3 DEF WindowId
      <4> QED BY <4>1, <3>1, <2>2, <2>4, <1>0 DEF Job, Stage
    <3>3. PICK JJ : JJ = file.jobs \cup {J}
      OBVIOUS
    <3>4. file' = [file EXCEPT !.jobs = JJ]
      <4>1. file' = [file EXCEPT !.jobs = @ \cup {[id |-> <<owner.start, g>>, new |-> N,
                                                   events |-> N \cup old, stage |-> "registered"]}]
        BY <1>0, <1>2, <2>1, <2>9 DEF SealJob
      <4> QED BY <4>1, <3>1, <3>3
    <3>5. /\ file' \in FileRecord /\ file'.jobs = file.jobs \cup {J} /\ file'.completed = file.completed
          /\ file'.consumed = file.consumed /\ file'.ready = file.ready /\ file'.covered = file.covered
          /\ file'.reserved = file.reserved
      <4>1. JJ \in SUBSET Job
        BY <1>0, <3>2, <3>3
      <4> QED BY <4>1, <1>0, <3>3, <3>4 DEF FileRecord
    <3>6. /\ \A j \in file.jobs : j.id # J.id
          /\ once => /\ \A j \in file.jobs : j.new \cap N = {}
                     /\ N \cap file.covered = {} /\ \A j \in Beyond : j.id[2] < g
                     /\ Beyond = {} => \A t \in file.ready \cup owner.rows : file.reserved < t /\ t <= g => t \in N
      BY <2>2, <2>9, <3>2 DEF Beyond
    <3>7. Beyond' = Beyond \cup {J} /\ J \notin file.jobs /\ J \notin Beyond
      <4>1. J.id[2] > file.reserved
        BY <3>2, <2>3, <1>0
      <4> QED BY <4>1, <3>5, <3>6 DEF Beyond
    <3>8. WindowsShape'
      BY <1>0, <3>5, <2>6, <2>7 DEF WindowsInv, WindowsShape
    <3>9. JobsOK(once)'
      <4>1. SealedOK(once, J)'
        <5>1. J.id[2] \in J.new /\ J.id[2] <= file'.completed /\ \A t \in J.new : J.id[1] < t /\ t <= J.id[2]
          BY <3>2, <3>5, <2>2, <2>3
        <5> QED BY <5>1, <3>2, <3>5, <3>6 DEF SealedOK, Finished
      <4>2. ASSUME NEW j \in file.jobs PROVE SealedOK(once, j)'
        BY <1>0, <3>5 DEF WindowsInv, JobsOK, SealedOK
      <4>3. ASSUME once, NEW j \in Beyond PROVE BeyondOK(j)'
        <5>1. BeyondOK(j)
          BY <4>3 DEF WindowsInv, JobsOK
        <5>2. file'.ready = file.ready /\ owner'.rows = owner.rows /\ owner'.at = "reserve"
          BY <3>5, <2>6, <2>7
        <5>3. Beyond \subseteq Beyond'
          BY <3>7
        <5> QED BY <5>1, <5>2, <5>3, <1>0, <3>5 DEF BeyondOK
      <4>4. ASSUME once PROVE BeyondOK(J)'
        <5>1. CASE Beyond = {}
          <6>1. file'.ready = file.ready /\ owner'.rows = owner.rows
            BY <3>5, <2>6, <2>7
          <6> QED BY <4>4, <5>1, <6>1, <3>2, <3>5, <3>6, <2>2 DEF BeyondOK
        <5>2. CASE Beyond # {}
          <6>1. \E k \in Beyond' : k # J
            BY <5>2, <3>7
          <6> QED BY <6>1, <3>2, <3>5, <2>2, <2>6, <2>7 DEF BeyondOK
        <5> QED BY <5>1, <5>2
      <4>5. once => TurnsPerceivedOnce'
        BY <3>2, <3>5, <3>6 DEF WindowsInv, JobsOK, TurnsPerceivedOnce
      <4>6. \A j, k \in file'.jobs : j.id = k.id => j = k
        BY <3>5, <3>6 DEF WindowsInv, JobsOK
      <4>7. \A t \in file'.covered : \E j \in file'.jobs : t \in j.new /\ j.stage \in Finished
        BY <3>5 DEF WindowsInv, JobsOK
      <4>8. \A j \in file'.jobs : SealedOK(once, j)'
        BY <4>1, <4>2, <3>5
      <4>9. once => \A j \in Beyond' : BeyondOK(j)'
        BY <4>3, <4>4, <3>7
      <4> QED BY <4>5, <4>6, <4>7, <4>8, <4>9 DEF JobsOK
    <3>10. CursorsOK' /\ Unperceived' = Unperceived
      BY <3>5, <1>0 DEF WindowsInv, CursorsOK, Unperceived, Unprotected
    <3>11. OwnerOK(once)'
      <4>1. ASSUME once PROVE \A j \in Beyond' : j.id[2] <= g
        <5>1. ASSUME NEW j \in Beyond PROVE j.id[2] <= g
          <6>1. j.id[2] < g /\ j.id[2] \in Nat
            BY <4>1, <3>6, <1>0, ShapeFacts DEF WindowsInv, Beyond
          <6> QED BY <6>1, <2>3
        <5> QED BY <5>1, <3>7, <3>2, <2>3
      <4> QED BY <4>1, <1>0, <2>3, <2>6, <2>7, <3>5 DEF OwnerOK
    <3>12. ASSUME NEW v \in Worker PROVE DrainOK(v, worker[v])'
      <4>1. PICK x : x = worker[v]
        OBVIOUS
      <4>2. DrainOK(v, x)
        BY <4>1 DEF WindowsInv, DrainsOK
      <4>3. DrainOK(v, x)'
        BY <4>2, <1>0, <3>5, <3>10, <2>6, <2>7, DrainFrame
      <4> QED BY <4>1, <4>3, <1>0 DEF DrainOK, OnJobOK
    <3> QED BY <3>8, <3>9, <3>10, <3>11, <3>12 DEF WindowsInv, DrainsOK
  <2> QED BY <2>8, <2>9
<1> QED BY <1>1, <1>2

\* Turns, reservations and jobs are left alone.
SameTurns ==
  /\ file' \in FileRecord /\ file'.completed = file.completed /\ file'.reserved = file.reserved
  /\ file'.covered = file.covered /\ file'.jobs = file.jobs
  /\ file'.ready \subseteq file.ready /\ slipped' = slipped

\* A step of one drain that leaves turns and jobs alone.
LEMMA OneDrainSteps ==
  ASSUME NEW once \in BOOLEAN, WindowsInv(once), NEW w \in Worker, NEW x \in WorkerRecord, Puts(w, x), DrainOK(w, x)', SameTurns, CursorsOK',
         UNCHANGED <<owner, pendingEnd>>, store \subseteq store', core \subseteq core',
         lock' \in Worker \cup {NoWorker}, \A v \in Worker \ {w} : lock = v => lock' = lock
  PROVE  WindowsInv(once)'
<1>1. JobsOK(once)' /\ Beyond' = Beyond /\ JobIds' = JobIds
  <2>1. file.completed \in Nat
    BY ShapeFacts DEF WindowsInv
  <2>2. \A t \in file'.ready \cup owner'.rows : t \in file.ready \cup owner.rows
    BY DEF SameTurns
  <2> QED BY <2>1, <2>2, SameJobs DEF WindowsInv, SameTurns
<1>2. Unperceived' = Unperceived
  BY DEF SameTurns, Unperceived, Unprotected
<1>4. OwnerOK(once)'
  BY <1>1, <1>2 DEF SameTurns, WindowsInv, OwnerOK, OneBeyond, Unprotected
<1>5. ASSUME NEW v \in Worker \ {w}, worker[v].at \in Locked PROVE DrainOK(v, worker[v])'
  <2>0. worker'[v] = worker[v]
    BY DEF Puts, WindowsInv, WindowsShape
  <2>1. PICK y : y = worker[v]
    OBVIOUS
  <2>2. DrainOK(v, y) /\ lock = v
    BY <1>5, <2>1 DEF WindowsInv, DrainsOK, DrainOK
  <2>3. lock' = lock
    BY <2>2
  <2>4. DrainOK(v, y)'
    BY <2>2, <2>3, <1>2, DrainFrame DEF SameTurns
  <2> QED BY <2>0, <2>1, <2>4 DEF DrainOK, OnJobOK
<1>6. worker' \in [Worker -> WorkerRecord] /\ DrainsOK'
  BY <1>5, OneDrainMoves DEF WindowsInv
<1>7. WindowsShape'
  BY <1>6 DEF WindowsInv, WindowsShape, SameTurns
<1> QED BY <1>1, <1>4, <1>6, <1>7 DEF WindowsInv

\* A step of the holder of the lock that moves its job.
LEMMA JobSteps ==
  ASSUME NEW once \in BOOLEAN, WindowsInv(once), NEW w \in Worker, worker[w].at \in Locked, NEW x \in WorkerRecord, Puts(w, x),
         NEW j0 \in file.jobs, NEW s \in Stage, JobsMoved(j0.id, s, file'.jobs), file' \in FileRecord,
         UNCHANGED <<slipped, owner, pendingEnd, store, core>>,
         file'.completed = file.completed, file'.reserved = file.reserved, file'.ready = file.ready,
         file'.covered = file.covered \cup (IF s \in Finished THEN j0.new ELSE {}),
         s \in Finished => j0.id \in store \cap core, s = "committed" => j0.id \in store,
         j0.stage \in Finished => s \in Finished,
         \A t \in Unperceived' : file'.consumed <= t /\ file'.consumed < t + Overlap,
         lock' \in Worker \cup {NoWorker}, DrainOK(w, x)'
  PROVE  WindowsInv(once)'
<1>1. JobsOK(once)' /\ OwnerOK(once)' /\ Unperceived' \subseteq Unperceived
  BY MoveKeepsJobs DEF WindowsInv
<1>2. CursorsOK'
  BY <1>1 DEF WindowsInv, CursorsOK
<1>3. \A v \in Worker \ {w} : worker[v].at \notin Locked
  BY DEF WindowsInv, DrainsOK, DrainOK
<1>4. worker' \in [Worker -> WorkerRecord] /\ DrainsOK'
  BY <1>3, OneDrainMoves DEF WindowsInv
<1>5. WindowsShape'
  BY <1>4 DEF WindowsInv, WindowsShape
<1> QED BY <1>1, <1>2, <1>4, <1>5 DEF WindowsInv

\* The cursors depend on turns and on what is ready.
LEMMA SameFileFacts ==
  ASSUME NEW once \in BOOLEAN, WindowsInv(once), SameTurns, UNCHANGED <<file.consumed, file.ready>> PROVE CursorsOK'
BY DEF WindowsInv, SameTurns, CursorsOK, Unperceived, Unprotected

\* Nothing saved, nothing moved.
LEMMA UnchangedFile ==
  ASSUME NEW once \in BOOLEAN, WindowsInv(once), UNCHANGED <<file, slipped>> PROVE SameTurns /\ CursorsOK'
BY DEF WindowsInv, WindowsShape, SameTurns, CursorsOK, Unperceived, Unprotected

\* What the holder of the lock works on.
LEMMA HolderFacts ==
  ASSUME NEW once \in BOOLEAN, WindowsInv(once), NEW w \in Worker, worker[w].at \in OnJob
  PROVE  /\ lock = w /\ worker[w].todo \subseteq JobIds /\ worker[w].job \in WindowId /\ worker[w] \in WorkerRecord
         /\ \E j \in file.jobs : /\ j.id = worker[w].job /\ OnJobOK(worker[w], j) /\ JobOf(worker[w].job) = j
                                 /\ j \in Job /\ SealedOK(once, j)
<1>1. DrainOK(w, worker[w])
  BY DEF WindowsInv, DrainsOK
<1>2. PICK j \in file.jobs : j.id = worker[w].job /\ OnJobOK(worker[w], j)
  BY <1>1 DEF DrainOK, Locked
<1>3. JobOf(worker[w].job) = j
  BY <1>2, JobOfFacts DEF WindowsInv
<1>4. j \in Job /\ SealedOK(once, j) /\ j.id \in WindowId /\ worker[w] \in WorkerRecord
  BY ShapeFacts DEF WindowsInv, JobsOK
<1> QED BY <1>1, <1>2, <1>3, <1>4 DEF DrainOK, Locked

\* Who holds nothing relies on nothing.
LEMMA FreeDrain == ASSUME NEW w \in Worker, NEW x, x.at \notin Locked PROVE DrainOK(w, x)'
BY DEF DrainOK

\* Go changes the place of a drain and nothing else.
LEMMA GoFacts ==
  ASSUME WindowsShape, NEW w \in Worker, NEW p \in Place, Go(w, p)
  PROVE  \E x \in WorkerRecord : /\ Puts(w, x) /\ x.at = p /\ x.todo = worker[w].todo /\ x.job = worker[w].job
                                 /\ x.scan = worker[w].scan
<1>1. worker[w] \in WorkerRecord
  BY ShapeFacts
<1>2. PICK x : x = [worker[w] EXCEPT !.at = p]
  OBVIOUS
<1>3. /\ x \in WorkerRecord /\ x.at = p /\ x.todo = worker[w].todo /\ x.job = worker[w].job
      /\ x.scan = worker[w].scan
  BY <1>1, <1>2 DEF WorkerRecord
<1>4. Puts(w, x)
  BY <1>2 DEF Go, Puts
<1> QED BY <1>3, <1>4

\* A drain that leaves holds nothing.
LEMMA LeaveFacts ==
  ASSUME WindowsShape, NEW w \in Worker
  PROVE  Leave(w) \in WorkerRecord /\ Leave(w).at \notin Locked
<1>1. worker[w] \in WorkerRecord
  BY ShapeFacts
<1>2. PICK x : x = [worker[w] EXCEPT !.at = "compare", !.todo = {}]
  OBVIOUS
<1>3. x \in WorkerRecord /\ x.at = "compare"
  BY <1>1, <1>2 DEF WorkerRecord, Place
<1> QED BY <1>2, <1>3, AwayFacts DEF Leave, Locked, Between, OnJob

\* /STM retry starts to wait for the lock.
LEMMA RetryStep == ASSUME NEW once \in BOOLEAN, WindowsInv(once), StartRetry PROVE WindowsInv(once)'
<1>1. PICK x : x = [Away EXCEPT !.at = "wait", !.bound = TRUE]
  OBVIOUS
<1>2. x \in WorkerRecord /\ x.at \notin Locked
  BY <1>1, AwayFacts DEF WorkerRecord, Place, Locked, Between, OnJob
<1>3. PICK w \in Worker : w = "retry"
  BY DEF Worker
<1>4. Puts(w, x) /\ UNCHANGED <<slipped, file, store, core, owner, pendingEnd, lock>>
  BY <1>1, <1>3 DEF StartRetry, Puts, mishaps
<1>5. SameTurns /\ CursorsOK' /\ DrainOK(w, x)' /\ lock' \in Worker \cup {NoWorker}
  BY <1>2, <1>4, UnchangedFile DEF DrainOK, WindowsInv, WindowsShape
<1> QED BY <1>2, <1>4, <1>5, OneDrainSteps

\* A rebind tells the drains that they are no longer of this session.
LEMMA RebindStep == ASSUME NEW once \in BOOLEAN, WindowsInv(once), Rebind PROVE WindowsInv(once)'
<1>1. /\ UNCHANGED <<slipped, file, store, core, owner, lock>> /\ pendingEnd' = 0
      /\ worker' = [w \in Worker |-> [worker[w] EXCEPT !.bound = FALSE]]
  BY DEF Rebind, mishaps
<1>2. ASSUME NEW w \in Worker
      PROVE  /\ worker'[w] \in WorkerRecord /\ worker'[w].at = worker[w].at /\ worker'[w].todo = worker[w].todo
             /\ worker'[w].job = worker[w].job /\ worker'[w].scan = worker[w].scan
  <2>1. worker[w] \in WorkerRecord
    BY ShapeFacts DEF WindowsInv
  <2>2. PICK x : x = [worker[w] EXCEPT !.bound = FALSE]
    OBVIOUS
  <2>3. /\ x \in WorkerRecord /\ x.at = worker[w].at /\ x.todo = worker[w].todo
        /\ x.job = worker[w].job /\ x.scan = worker[w].scan
    BY <2>1, <2>2 DEF WorkerRecord
  <2> QED BY <1>1, <2>2, <2>3
<1>3. WindowsShape'
  <2>1. DOMAIN worker' = Worker /\ worker' = [w \in Worker |-> worker'[w]]
    BY <1>1
  <2>2. worker' \in [Worker -> WorkerRecord]
    BY <1>2, <2>1
  <2> QED BY <1>1, <2>2 DEF WindowsInv, WindowsShape
<1>4. JobsOK(once)' /\ CursorsOK' /\ OwnerOK(once)'
  <2>1. Beyond' = Beyond /\ Unperceived' = Unperceived
    BY <1>1 DEF Beyond, Unperceived, Unprotected
  <2>2. JobsOK(once)'
    <3>1. file.completed \in Nat
      BY ShapeFacts DEF WindowsInv
    <3> QED BY <1>1, <3>1, SameJobs DEF WindowsInv
  <2>3. CursorsOK'
    BY <1>1, <2>1 DEF WindowsInv, CursorsOK
  <2>4. OwnerOK(once)'
    BY <1>1, <2>1 DEF WindowsInv, OwnerOK, OneBeyond, Unprotected
  <2> QED BY <2>2, <2>3, <2>4
<1>5. ASSUME NEW w \in Worker PROVE DrainOK(w, worker[w])'
  <2>1. DrainOK(w, worker[w])
    BY DEF WindowsInv, DrainsOK
  <2>2. Unperceived' = Unperceived /\ JobIds' = JobIds
    BY <1>1 DEF Unperceived, Unprotected, JobIds
  <2> QED BY <2>1, <2>2, <1>1, <1>2 DEF DrainOK, OnJobOK
<1> QED BY <1>3, <1>4, <1>5 DEF WindowsInv, DrainsOK

\* A cancelled drain lets the lock go.
LEMMA CancelStep == ASSUME NEW once \in BOOLEAN, WindowsInv(once), NEW w \in Worker, CancelDrain(w) PROVE WindowsInv(once)'
<1>1. PICK x : x = Away
  OBVIOUS
<1>2. x \in WorkerRecord /\ x.at \notin Locked
  BY <1>1, AwayFacts DEF Locked, Between, OnJob
<1>3. Puts(w, x) /\ UNCHANGED <<slipped, file, store, core, owner, pendingEnd>> /\ Release(w)
  BY <1>1 DEF CancelDrain, Puts, mishaps
<1>4. SameTurns /\ CursorsOK' /\ DrainOK(w, x)' /\ lock' \in Worker \cup {NoWorker}
      /\ \A v \in Worker \ {w} : lock = v => lock' = lock
  BY <1>2, <1>3, UnchangedFile DEF DrainOK, WindowsInv, WindowsShape, Release
<1> QED BY <1>2, <1>3, <1>4, OneDrainSteps

\* A drain looks how far it has to go.
LEMMA LookStep == ASSUME NEW once \in BOOLEAN, WindowsInv(once), NEW w \in Worker, Look(w) PROVE WindowsInv(once)'
<1>1. PICK x : x = IF ~worker[w].bound THEN Away ELSE [worker[w] EXCEPT !.at = "wait", !.through = pendingEnd]
  OBVIOUS
<1>2. x \in WorkerRecord /\ x.at \notin Locked
  <2>1. CASE ~worker[w].bound
    BY <2>1, <1>1, AwayFacts DEF Locked, Between, OnJob
  <2>2. CASE worker[w].bound
    <3>1. x = [worker[w] EXCEPT !.at = "wait", !.through = pendingEnd] /\ worker[w] \in WorkerRecord /\ pendingEnd \in Nat
      BY <2>2, <1>1, ShapeFacts DEF WindowsInv, WindowsShape
    <3>2. x \in WorkerRecord /\ x.at = "wait"
      BY <3>1 DEF WorkerRecord, Place
    <3> QED BY <3>2 DEF Locked, Between, OnJob
  <2> QED BY <2>1, <2>2
<1>3. Puts(w, x) /\ UNCHANGED <<slipped, file, store, core, owner, pendingEnd, lock>>
  BY <1>1 DEF Look, Puts, mishaps
<1>4. SameTurns /\ CursorsOK' /\ DrainOK(w, x)' /\ lock' \in Worker \cup {NoWorker}
  BY <1>2, <1>3, UnchangedFile DEF DrainOK, WindowsInv, WindowsShape
<1> QED BY <1>2, <1>3, <1>4, OneDrainSteps

\* A drain ends or goes round again.
LEMMA CompareStep == ASSUME NEW once \in BOOLEAN, WindowsInv(once), NEW w \in Worker, Compare(w) PROVE WindowsInv(once)'
<1>1. \E x \in WorkerRecord : Puts(w, x) /\ x.at \notin Locked
  <2>1. CASE Go(w, "look")
    <3>1. "look" \in Place
      BY DEF Place
    <3>2. PICK x \in WorkerRecord : Puts(w, x) /\ x.at = "look"
      BY <2>1, <3>1, GoFacts DEF WindowsInv
    <3> QED BY <3>2 DEF Locked, Between, OnJob
  <2>2. CASE worker' = [worker EXCEPT ![w] = Away]
    <3>1. PICK x : x = Away
      OBVIOUS
    <3> QED BY <2>2, <3>1, AwayFacts DEF Puts, Locked, Between, OnJob
  <2> QED BY <2>1, <2>2 DEF Compare
<1>2. PICK x \in WorkerRecord : Puts(w, x) /\ x.at \notin Locked
  BY <1>1
<1>3. UNCHANGED <<slipped, file, store, core, owner, pendingEnd, lock>>
  BY DEF Compare, mishaps
<1>4. SameTurns /\ CursorsOK' /\ DrainOK(w, x)' /\ lock' \in Worker \cup {NoWorker}
  BY <1>2, <1>3, UnchangedFile DEF DrainOK, WindowsInv, WindowsShape
<1> QED BY <1>2, <1>3, <1>4, OneDrainSteps

\* A drain takes the lock and lists the pending jobs, or leaves.
LEMMA TakeStep == ASSUME NEW once \in BOOLEAN, WindowsInv(once), NEW w \in Worker, TakeLock(w) PROVE WindowsInv(once)'
<1>1. PICK b : b = (file.blocked /\ ~(w = "retry"))
  OBVIOUS
<1>2. b \in BOOLEAN /\ file \in FileRecord
  BY <1>1 DEF WindowsInv, WindowsShape
<1>3. file' = [file EXCEPT !.blocked = b] /\ UNCHANGED <<slipped, store, core, owner, pendingEnd>> /\ lock = NoWorker
  BY <1>1 DEF TakeLock, mishaps
<1>4. SameTurns /\ file'.consumed = file.consumed /\ file'.ready = file.ready
  BY <1>2, <1>3 DEF SameTurns, FileRecord
<1>5. CursorsOK'
  BY <1>4, SameFileFacts
<1>6. \A v \in Worker : lock # v
  BY <1>3 DEF Worker, Drain, NoWorker
<1>7. CASE worker' = [worker EXCEPT ![w] = Leave(w)] /\ UNCHANGED lock
  <2>1. PICK x : x = Leave(w)
    OBVIOUS
  <2>2. x \in WorkerRecord /\ x.at \notin Locked /\ Puts(w, x)
    BY <1>7, <2>1, LeaveFacts DEF WindowsInv, Puts
  <2>3. DrainOK(w, x)' /\ lock' \in Worker \cup {NoWorker}
    BY <2>2, <1>7 DEF DrainOK, WindowsInv, WindowsShape
  <2> QED BY <1>3, <1>4, <1>5, <1>7, <2>2, <2>3, OneDrainSteps
<1>8. CASE /\ lock' = w
           /\ worker' = [worker EXCEPT ![w].at = "pick",
                                       ![w].through = IF w = "retry" THEN file.completed ELSE @,
                                       ![w].todo = {j.id : j \in Pending}]
  <2>1. PICK t, d : t = (IF w = "retry" THEN file.completed ELSE worker[w].through) /\ d = {j.id : j \in Pending}
    OBVIOUS
  <2>2. t \in Nat /\ d \in SUBSET WindowId /\ d \subseteq JobIds /\ worker[w] \in WorkerRecord
    <3>1. worker[w] \in WorkerRecord /\ file.completed \in Nat /\ worker[w].through \in Nat
      BY ShapeFacts DEF WindowsInv, WorkerRecord
    <3>2. d \subseteq JobIds
      BY <2>1 DEF Pending, JobIds
    <3>3. JobIds \subseteq WindowId
      BY ShapeFacts DEF WindowsInv, JobIds
    <3> QED BY <2>1, <3>1, <3>2, <3>3
  <2>3. PICK x : x = [worker[w] EXCEPT !.at = "pick", !.through = t, !.todo = d]
    OBVIOUS
  <2>4. x \in WorkerRecord /\ x.at = "pick" /\ x.todo = d
    BY <2>2, <2>3 DEF WorkerRecord, Place
  <2>5. Puts(w, x)
    BY <1>8, <2>1, <2>3 DEF Puts, WindowsInv, WindowsShape
  <2>6. DrainOK(w, x)'
    <3>1. d \subseteq JobIds'
      BY <1>4, <2>2 DEF SameTurns, JobIds
    <3> QED BY <1>8, <2>4, <3>1 DEF DrainOK, OnJob
  <2> QED BY <1>3, <1>4, <1>5, <1>6, <1>8, <2>4, <2>5, <2>6, OneDrainSteps
<1> QED BY <1>7, <1>8 DEF TakeLock

\* The earliest job of the list is taken up where its stage says.
LEMMA PickStep == ASSUME NEW once \in BOOLEAN, WindowsInv(once), NEW w \in Worker, Pick(w) PROVE WindowsInv(once)'
<1>0. /\ UNCHANGED <<slipped, file, store, core, owner, pendingEnd>> /\ SameTurns /\ CursorsOK' /\ worker[w].at = "pick"
      /\ worker[w] \in WorkerRecord /\ lock = w /\ worker[w].todo \subseteq JobIds
  <2>1. UNCHANGED <<slipped, file, store, core, owner, pendingEnd>> /\ worker[w].at = "pick"
    BY DEF Pick, mishaps
  <2>2. DrainOK(w, worker[w]) /\ worker[w] \in WorkerRecord
    BY ShapeFacts DEF WindowsInv, DrainsOK
  <2> QED BY <2>1, <2>2, UnchangedFile DEF DrainOK, Locked, Between
<1>1. CASE worker' = [worker EXCEPT ![w] = Leave(w)] /\ Release(w)
  <2>1. PICK x : x = Leave(w)
    OBVIOUS
  <2>2. x \in WorkerRecord /\ x.at \notin Locked /\ Puts(w, x)
    BY <1>1, <2>1, LeaveFacts DEF WindowsInv, Puts
  <2>3. DrainOK(w, x)' /\ lock' \in Worker \cup {NoWorker}
    BY <2>2, <1>1, <1>0 DEF DrainOK, Release
  <2> QED BY <1>0, <2>2, <2>3, OneDrainSteps
<1>2. CASE /\ \E id \in worker[w].todo :
                worker' = [worker EXCEPT ![w].todo = @ \ {id}, ![w].job = id,
                                         ![w].at = IF id[2] > worker[w].through THEN "pick"
                                                   ELSE After(JobOf(id).stage)]
           /\ UNCHANGED lock
  <2>1. PICK id \in worker[w].todo :
          worker' = [worker EXCEPT ![w].todo = @ \ {id}, ![w].job = id,
                                   ![w].at = IF id[2] > worker[w].through THEN "pick"
                                             ELSE After(JobOf(id).stage)]
    BY <1>2
  <2>2. PICK j \in file.jobs : id = j.id
    BY <1>0 DEF JobIds
  <2>3. JobOf(id) = j /\ j \in Job /\ id \in Nat \X Nat /\ SealedOK(once, j)
    <3>1. JobOf(id) = j /\ j \in Job /\ id \in WindowId /\ SealedOK(once, j)
      BY <2>2, JobOfFacts, ShapeFacts DEF WindowsInv, JobsOK
    <3>2. WindowId \subseteq Nat \X Nat
      BY WindowsAssumption DEF WindowId, Turn
    <3> QED BY <3>1, <3>2
  <2>4. PICK p, d : p = (IF id[2] > worker[w].through THEN "pick" ELSE After(j.stage)) /\ d = worker[w].todo \ {id}
    OBVIOUS
  <2>5. /\ p \in Place /\ p \in {"pick", "produce", "publish", "index"}
        /\ p = "produce" => j.stage = "registered"
        /\ p = "publish" => j.stage \in {"produced", "committed"}
        /\ p = "index" => j.stage = "done"
    BY <2>4 DEF After, Place
  <2>6. PICK x : x = [worker[w] EXCEPT !.todo = d, !.job = id, !.at = p]
    OBVIOUS
  <2>7. x \in WorkerRecord /\ x.at = p /\ x.todo = d /\ x.job = id
    <3>1. d \in SUBSET WindowId
      BY <2>4, <1>0 DEF WorkerRecord
    <3> QED BY <1>0, <2>3, <2>5, <2>6, <3>1 DEF WorkerRecord
  <2>8. Puts(w, x)
    BY <2>1, <2>3, <2>4, <2>6 DEF Puts, WindowsInv, WindowsShape
  <2>9. DrainOK(w, x)'
    <3>1. x.todo \subseteq JobIds' /\ lock' = w /\ j \in file'.jobs /\ j.id = x.job
      BY <1>0, <1>2, <2>2, <2>4, <2>7 DEF JobIds
    <3>2. OnJobOK(x, j)'
      BY <2>5, <2>7 DEF OnJobOK, StageAt
    <3> QED BY <2>5, <2>7, <3>1, <3>2 DEF DrainOK
  <2> QED BY <1>0, <1>2, <2>7, <2>8, <2>9, OneDrainSteps
<1> QED BY <1>1, <1>2 DEF Pick

\* The jobs keep their windows, and the moved one is at its new stage.
LEMMA MovedJob ==
  ASSUME NEW j0 \in file.jobs, NEW s, JobsMoved(j0.id, s, file'.jobs)
  PROVE  /\ JobIds' = JobIds
         /\ \E k \in file'.jobs : k.id = j0.id /\ k.new = j0.new /\ k.stage = s
BY DEF JobsMoved, JobIds

\* The holder's next place, when its job has moved to stage s.
LEMMA NextPlace ==
  ASSUME NEW once \in BOOLEAN, WindowsInv(once), NEW w \in Worker, worker[w].at \in OnJob, NEW x \in WorkerRecord, lock' = lock,
         x.todo = worker[w].todo, x.job = worker[w].job,
         NEW j0 \in file.jobs, j0.id = worker[w].job, NEW s, JobsMoved(j0.id, s, file'.jobs),
         StageAt(x.at, s), x.at \notin {"checkpoint", "scan", "cover", "compact"}
  PROVE  DrainOK(w, x)'
<1>1. lock = w /\ worker[w].todo \subseteq JobIds
  BY HolderFacts
<1>2. PICK k \in file'.jobs : k.id = j0.id /\ k.new = j0.new /\ k.stage = s
  BY MovedJob
<1>3. OnJobOK(x, k)'
  BY <1>2 DEF OnJobOK
<1>4. JobIds' = JobIds
  BY MovedJob
<1> QED BY <1>1, <1>2, <1>3, <1>4 DEF DrainOK

\* A job is produced.
LEMMA ProduceStep == ASSUME NEW once \in BOOLEAN, WindowsInv(once), NEW w \in Worker, Produce(w) PROVE WindowsInv(once)'
<1>1. /\ worker[w].at = "produce" /\ file' = Advance(worker[w].job, "produced") /\ Go(w, "publish")
      /\ UNCHANGED <<slipped, store, core, owner, pendingEnd, lock>>
  BY DEF Produce, mishaps
<1>2. /\ lock = w /\ worker[w].job \in WindowId /\ worker[w].at \in OnJob /\ worker[w].at \in Locked
      /\ "produced" \in Stage /\ "publish" \in Place /\ "produced" \notin Finished
  BY <1>1, HolderFacts DEF OnJob, Locked, Stage, Place, Finished
<1>3. PICK j \in file.jobs : j.id = worker[w].job /\ OnJobOK(worker[w], j)
  BY <1>2, HolderFacts
<1>4. j.stage = "registered"
  BY <1>1, <1>3 DEF OnJobOK, StageAt
<1>5. /\ JobsMoved(j.id, "produced", file'.jobs) /\ file' \in FileRecord /\ file'.completed = file.completed
      /\ file'.consumed = file.consumed /\ file'.reserved = file.reserved /\ file'.covered = file.covered
      /\ file'.ready = file.ready
  BY <1>1, <1>2, <1>3, AdvanceMoves DEF WindowsInv
<1>6. PICK x \in WorkerRecord : /\ Puts(w, x) /\ x.at = "publish" /\ x.todo = worker[w].todo
                                /\ x.job = worker[w].job
  BY <1>1, <1>2, GoFacts DEF WindowsInv
<1>7. DrainOK(w, x)'
  <2>1. StageAt(x.at, "produced")
    BY <1>6 DEF StageAt
  <2> QED BY <1>1, <1>2, <1>3, <1>5, <1>6, <2>1, NextPlace
<1>8. \A t \in Unperceived' : file'.consumed <= t /\ file'.consumed < t + Overlap
  BY <1>1, <1>5 DEF WindowsInv, CursorsOK, Unperceived, Unprotected
<1>9. file'.covered = file.covered \cup (IF "produced" \in Finished THEN j.new ELSE {}) /\ lock' \in Worker \cup {NoWorker}
      /\ (j.stage \in Finished => "produced" \in Finished)
  BY <1>1, <1>2, <1>4, <1>5 DEF Finished
<1> QED BY <1>1, <1>2, <1>5, <1>6, <1>7, <1>8, <1>9, JobSteps

\* A production or publication fails: the job goes back, the lock is free.
LEMMA FailStep == ASSUME NEW once \in BOOLEAN, WindowsInv(once), NEW w \in Worker, ExecuteFails(w) PROVE WindowsInv(once)'
<1>1. /\ worker[w].at \in {"produce", "publish"} /\ worker' = [worker EXCEPT ![w] = Leave(w)] /\ Release(w)
      /\ UNCHANGED <<slipped, store, core, owner, pendingEnd>>
  BY DEF ExecuteFails, mishaps
<1>2. lock = w /\ worker[w].job \in WindowId /\ worker[w].at \in OnJob /\ worker[w].at \in Locked
  BY <1>1, HolderFacts DEF OnJob, Locked
<1>3. PICK j \in file.jobs : /\ j.id = worker[w].job /\ OnJobOK(worker[w], j) /\ JobOf(worker[w].job) = j
                             /\ SealedOK(once, j)
  BY <1>2, HolderFacts
<1>4. PICK s : s = IF j.stage = "produced" THEN "registered" ELSE j.stage
  OBVIOUS
<1>5. j.stage \in {"registered", "produced", "committed"} /\ s \in {"registered", "committed"} /\ s \in Stage
      /\ s \notin Finished /\ j.stage \notin Finished /\ (s = "committed" => j.id \in store)
  BY <1>1, <1>3, <1>4 DEF OnJobOK, StageAt, Stage, Finished, SealedOK
<1>6. PICK g : g = Advance(j.id, s)
  OBVIOUS
<1>7. /\ JobsMoved(j.id, s, g.jobs) /\ g \in FileRecord /\ g.completed = file.completed
      /\ g.consumed = file.consumed /\ g.reserved = file.reserved /\ g.covered = file.covered
      /\ g.ready = file.ready
  BY <1>2, <1>3, <1>5, <1>6, AdvanceMoves DEF WindowsInv
<1>8. PICK refused \in BOOLEAN : file' = [g EXCEPT !.blocked = refused]
  BY <1>3, <1>4, <1>6 DEF ExecuteFails
<1>9. /\ file' \in FileRecord /\ file'.jobs = g.jobs /\ file'.completed = g.completed
      /\ file'.consumed = g.consumed /\ file'.reserved = g.reserved /\ file'.covered = g.covered
      /\ file'.ready = g.ready
  BY <1>7, <1>8 DEF FileRecord
<1>10. PICK x : x = Leave(w)
  OBVIOUS
<1>11. x \in WorkerRecord /\ Puts(w, x) /\ DrainOK(w, x)' /\ lock' \in Worker \cup {NoWorker}
  BY <1>1, <1>2, <1>10, LeaveFacts DEF WindowsInv, Puts, DrainOK, Release
<1>12. \A t \in Unperceived' : file'.consumed <= t /\ file'.consumed < t + Overlap
  BY <1>1, <1>7, <1>9 DEF WindowsInv, CursorsOK, Unperceived, Unprotected
<1>13. file'.covered = file.covered \cup (IF s \in Finished THEN j.new ELSE {}) /\ JobsMoved(j.id, s, file'.jobs)
  BY <1>5, <1>7, <1>9
<1> QED BY <1>1, <1>2, <1>5, <1>7, <1>9, <1>11, <1>12, <1>13, JobSteps

\* The records of a job are stored, once.
LEMMA PublishStep == ASSUME NEW once \in BOOLEAN, WindowsInv(once), NEW w \in Worker, StoreRecords(w) PROVE WindowsInv(once)'
<1>1. worker[w].at = "publish" /\ UNCHANGED <<slipped, file, core, owner, pendingEnd, lock>> /\ store \subseteq store'
  BY DEF StoreRecords, mishaps
<1>2. lock = w /\ worker[w].todo \subseteq JobIds
  BY <1>1, HolderFacts DEF OnJob
<1>3. PICK j \in file.jobs : j.id = worker[w].job /\ OnJobOK(worker[w], j) /\ JobOf(worker[w].job) = j
  BY <1>1, HolderFacts DEF OnJob
<1>4. SameTurns /\ CursorsOK' /\ JobIds' = JobIds
  BY <1>1, UnchangedFile DEF JobIds
<1>5. CASE j.stage = "committed"
  <2>1. Go(w, "project") /\ "project" \in Place
    BY <1>3, <1>5 DEF StoreRecords, Place
  <2>2. PICK x \in WorkerRecord : /\ Puts(w, x) /\ x.at = "project" /\ x.todo = worker[w].todo
                                  /\ x.job = worker[w].job
    BY <2>1, GoFacts DEF WindowsInv
  <2>3. OnJobOK(x, j)'
    BY <1>5, <2>2 DEF OnJobOK, StageAt
  <2>4. DrainOK(w, x)'
    BY <1>1, <1>2, <1>3, <1>4, <2>2, <2>3 DEF DrainOK
  <2> QED BY <1>1, <1>2, <1>4, <2>2, <2>4, OneDrainSteps
<1>6. CASE j.stage # "committed"
  <2>1. Go(w, "checkpoint") /\ "checkpoint" \in Place /\ store' = store \cup {worker[w].job} /\ j.stage = "produced"
    BY <1>1, <1>3, <1>6 DEF StoreRecords, Place, OnJobOK, StageAt
  <2>2. PICK x \in WorkerRecord : /\ Puts(w, x) /\ x.at = "checkpoint" /\ x.todo = worker[w].todo
                                  /\ x.job = worker[w].job
    BY <2>1, GoFacts DEF WindowsInv
  <2>3. OnJobOK(x, j)'
    BY <1>3, <2>1, <2>2 DEF OnJobOK, StageAt
  <2>4. DrainOK(w, x)'
    BY <1>1, <1>2, <1>3, <1>4, <2>2, <2>3 DEF DrainOK
  <2> QED BY <1>1, <1>2, <1>4, <2>2, <2>4, OneDrainSteps
<1> QED BY <1>5, <1>6

\* That they are stored is saved.
LEMMA CheckpointStep == ASSUME NEW once \in BOOLEAN, WindowsInv(once), NEW w \in Worker, Checkpoint(w) PROVE WindowsInv(once)'
<1>1. /\ worker[w].at = "checkpoint" /\ file' = Advance(worker[w].job, "committed") /\ Go(w, "project")
      /\ UNCHANGED <<slipped, store, core, owner, pendingEnd, lock>>
  BY DEF Checkpoint, mishaps
<1>2. /\ lock = w /\ worker[w].job \in WindowId /\ worker[w].at \in OnJob /\ worker[w].at \in Locked
      /\ "committed" \in Stage /\ "project" \in Place /\ "committed" \notin Finished
  BY <1>1, HolderFacts DEF OnJob, Locked, Stage, Place, Finished
<1>3. PICK j \in file.jobs : j.id = worker[w].job /\ OnJobOK(worker[w], j)
  BY <1>2, HolderFacts
<1>4. j.stage = "produced" /\ j.id \in store
  BY <1>1, <1>3 DEF OnJobOK, StageAt
<1>5. /\ JobsMoved(j.id, "committed", file'.jobs) /\ file' \in FileRecord /\ file'.completed = file.completed
      /\ file'.consumed = file.consumed /\ file'.reserved = file.reserved /\ file'.covered = file.covered
      /\ file'.ready = file.ready
  BY <1>1, <1>2, <1>3, AdvanceMoves DEF WindowsInv
<1>6. PICK x \in WorkerRecord : /\ Puts(w, x) /\ x.at = "project" /\ x.todo = worker[w].todo
                                /\ x.job = worker[w].job
  BY <1>1, <1>2, GoFacts DEF WindowsInv
<1>7. DrainOK(w, x)'
  <2>1. StageAt(x.at, "committed")
    BY <1>6 DEF StageAt
  <2> QED BY <1>1, <1>2, <1>3, <1>5, <1>6, <2>1, NextPlace
<1>8. \A t \in Unperceived' : file'.consumed <= t /\ file'.consumed < t + Overlap
  BY <1>1, <1>5 DEF WindowsInv, CursorsOK, Unperceived, Unprotected
<1>9. /\ file'.covered = file.covered \cup (IF "committed" \in Finished THEN j.new ELSE {})
      /\ lock' \in Worker \cup {NoWorker} /\ (j.stage \in Finished => "committed" \in Finished)
  BY <1>1, <1>2, <1>4, <1>5 DEF Finished
<1> QED BY <1>1, <1>2, <1>4, <1>5, <1>6, <1>7, <1>8, <1>9, JobSteps

\* The records are projected.
LEMMA ProjectStep == ASSUME NEW once \in BOOLEAN, WindowsInv(once), NEW w \in Worker, Project(w) PROVE WindowsInv(once)'
<1>1. worker[w].at = "project" /\ UNCHANGED <<slipped, file, store, owner, pendingEnd, lock>> /\ core' = core \cup {worker[w].job}
      /\ Go(w, "scan") /\ "scan" \in Place
  BY DEF Project, Place, mishaps
<1>2. lock = w /\ worker[w].todo \subseteq JobIds
  BY <1>1, HolderFacts DEF OnJob
<1>3. PICK j \in file.jobs : j.id = worker[w].job /\ OnJobOK(worker[w], j)
  BY <1>1, HolderFacts DEF OnJob
<1>4. SameTurns /\ CursorsOK' /\ JobIds' = JobIds
  BY <1>1, UnchangedFile DEF JobIds
<1>5. PICK x \in WorkerRecord : /\ Puts(w, x) /\ x.at = "scan" /\ x.todo = worker[w].todo
                                /\ x.job = worker[w].job
  BY <1>1, GoFacts DEF WindowsInv
<1>6. OnJobOK(x, j)'
  BY <1>1, <1>3, <1>5 DEF OnJobOK, StageAt
<1>7. DrainOK(w, x)'
  BY <1>1, <1>2, <1>3, <1>4, <1>5, <1>6 DEF DrainOK
<1> QED BY <1>1, <1>2, <1>4, <1>5, <1>7, OneDrainSteps

\* The drain sees which turns are not covered.
LEMMA ScanStep == ASSUME NEW once \in BOOLEAN, WindowsInv(once), NEW w \in Worker, ScanUncovered(w) PROVE WindowsInv(once)'
<1>1. worker[w].at = "scan" /\ UNCHANGED <<slipped, file, store, core, owner, pendingEnd, lock>>
  BY DEF ScanUncovered, mishaps
<1>2. lock = w /\ worker[w].todo \subseteq JobIds /\ worker[w] \in WorkerRecord
  BY <1>1, HolderFacts DEF OnJob
<1>3. PICK j \in file.jobs : j.id = worker[w].job /\ OnJobOK(worker[w], j) /\ JobOf(worker[w].job) = j
  BY <1>1, HolderFacts DEF OnJob
<1>4. SameTurns /\ CursorsOK' /\ JobIds' = JobIds
  BY <1>1, UnchangedFile DEF JobIds
<1>5. PICK u : u = file.ready \ (file.covered \cup j.new)
  OBVIOUS
<1>6. PICK x : x = [worker[w] EXCEPT !.at = "cover", !.scan = u]
  OBVIOUS
<1>7. u \in SUBSET Turn /\ u \subseteq 1..file.completed /\ \A t \in Unperceived : t \in j.new \cup u
  BY <1>5, ShapeFacts DEF WindowsInv, CursorsOK, Unperceived, Unprotected
<1>8. /\ x \in WorkerRecord /\ x.at = "cover" /\ x.scan = u /\ x.todo = worker[w].todo
      /\ x.job = worker[w].job
  BY <1>2, <1>6, <1>7 DEF WorkerRecord, Place
<1>9. Puts(w, x)
  BY <1>3, <1>5, <1>6 DEF ScanUncovered, Puts, WindowsInv, WindowsShape
<1>10. OnJobOK(x, j)'
  <2>1. j.stage = "committed" /\ j.id \in core /\ Unperceived' = Unperceived
    BY <1>1, <1>3 DEF OnJobOK, StageAt, Unperceived, Unprotected
  <2> QED BY <2>1, <1>1, <1>7, <1>8 DEF OnJobOK, StageAt
<1>11. DrainOK(w, x)'
  BY <1>1, <1>2, <1>3, <1>4, <1>8, <1>10 DEF DrainOK
<1> QED BY <1>1, <1>2, <1>4, <1>8, <1>9, <1>11, OneDrainSteps

\* The turns of a job that was stored and projected count as covered, and the cursor
\* moves no further than the first that is not.
LEMMA CoverStep == ASSUME NEW once \in BOOLEAN, WindowsInv(once), NEW w \in Worker, Cover(w) PROVE WindowsInv(once)'
<1>1. worker[w].at = "cover" /\ UNCHANGED <<slipped, store, core, owner, pendingEnd, lock>>
  BY DEF Cover, mishaps
<1>2. /\ lock = w /\ worker[w].job \in WindowId /\ worker[w].at \in OnJob /\ worker[w].at \in Locked
      /\ "done" \in Stage /\ "done" \in Finished /\ worker[w] \in WorkerRecord
  BY <1>1, HolderFacts DEF OnJob, Locked, Stage, Finished
<1>3. PICK j \in file.jobs : /\ j.id = worker[w].job /\ OnJobOK(worker[w], j) /\ JobOf(worker[w].job) = j
                             /\ j \in Job /\ SealedOK(once, j)
  BY <1>2, HolderFacts
<1>4. j.stage = "committed" /\ j.id \in store \cap core /\ j.new \subseteq Turn
  BY <1>1, <1>3 DEF OnJobOK, StageAt, SealedOK, Job
<1>5. PICK g, S, c : /\ g = Advance(j.id, "done") /\ S = worker[w].scan
                     /\ c = IF S = {} THEN file.completed ELSE Least(S) - 1
  OBVIOUS
<1>6. /\ JobsMoved(j.id, "done", g.jobs) /\ g \in FileRecord /\ g.completed = file.completed
      /\ g.reserved = file.reserved /\ g.covered = file.covered /\ g.ready = file.ready
  BY <1>2, <1>3, <1>5, AdvanceMoves DEF WindowsInv
<1>7. /\ S \in SUBSET Turn /\ S \subseteq 1..file.completed /\ file.completed \in 0..MaxTurns /\ MaxTurns \in Nat
      /\ \A t \in Unperceived : t \in j.new \cup S \/ (Overlap > 0 /\ t = file.completed)
      /\ Overlap \in Nat
  BY <1>1, <1>2, <1>3, <1>5, ShapeFacts DEF OnJobOK, WorkerRecord, WindowsInv
<1>8. /\ c \in 0..MaxTurns /\ c <= file.completed
      /\ \A t \in Unperceived : t \notin j.new => c <= t /\ c < t + Overlap
  <2>1. CASE S = {}
    <3>1. c = file.completed
      BY <2>1, <1>5
    <3>2. \A t \in Unperceived : t \notin j.new => t = c /\ Overlap > 0
      BY <2>1, <3>1, <1>7
    <3>3. c \in Nat
      BY <3>1, <1>7
    <3> QED BY <3>1, <3>2, <3>3, <1>7
  <2>2. CASE S # {}
    <3>1. Least(S) \in S /\ \A u \in S : Least(S) <= u
      BY <2>2, <1>7, ExtremeFacts
    <3>2. PICK m : m = Least(S)
      OBVIOUS
    <3>3. m \in 1..file.completed /\ c = m - 1 /\ \A u \in S : m <= u
      BY <3>1, <3>2, <2>2, <1>5, <1>7
    <3>4. ASSUME NEW t \in Unperceived, t \notin j.new PROVE c <= t /\ c < t + Overlap
      <4>1. t \in Nat /\ (t \in S \/ (Overlap > 0 /\ t = file.completed))
        BY <3>4, <1>7 DEF Unperceived
      <4> QED BY <4>1, <3>3, <1>7
    <3> QED BY <3>3, <3>4, <1>7
  <2> QED BY <2>1, <2>2
<1>9. PICK v : v = file.covered \cup j.new
  OBVIOUS
<1>10. file' = [g EXCEPT !.covered = v, !.consumed = c]
  BY <1>3, <1>5, <1>6, <1>9 DEF Cover
<1>11. /\ file' \in FileRecord /\ file'.jobs = g.jobs /\ file'.completed = file.completed
       /\ file'.consumed = c /\ file'.reserved = file.reserved /\ file'.covered = file.covered \cup j.new
       /\ file'.ready = file.ready
  <2>1. v \in SUBSET Turn
    BY <1>4, <1>9, ShapeFacts DEF WindowsInv
  <2> QED BY <1>6, <1>8, <1>9, <1>10, <2>1 DEF FileRecord
<1>12. PICK x : x = [worker[w] EXCEPT !.at = "index", !.scan = {}]
  OBVIOUS
<1>13. x \in WorkerRecord /\ x.at = "index" /\ x.todo = worker[w].todo /\ x.job = worker[w].job
  BY <1>2, <1>12 DEF WorkerRecord, Place
<1>14. Puts(w, x)
  BY <1>12 DEF Cover, Puts, WindowsInv, WindowsShape
<1>15. JobsMoved(j.id, "done", file'.jobs)
  BY <1>6, <1>11
<1>16. DrainOK(w, x)'
  <2>1. StageAt(x.at, "done")
    BY <1>13 DEF StageAt
  <2> QED BY <1>1, <1>2, <1>3, <1>13, <1>15, <2>1, NextPlace
<1>17. \A t \in Unperceived' : file'.consumed <= t /\ file'.consumed < t + Overlap
  BY <1>1, <1>8, <1>11 DEF Unperceived, Unprotected
<1>18. file'.covered = file.covered \cup (IF "done" \in Finished THEN j.new ELSE {}) /\ lock' \in Worker \cup {NoWorker}
       /\ j.stage \notin Finished
  BY <1>1, <1>2, <1>4, <1>11 DEF Finished
<1> QED BY <1>1, <1>2, <1>4, <1>11, <1>13, <1>14, <1>15, <1>16, <1>17, <1>18, JobSteps

\* A covered job is indexed and closed.
LEMMA IndexStep == ASSUME NEW once \in BOOLEAN, WindowsInv(once), NEW w \in Worker, Index(w) PROVE WindowsInv(once)'
<1>1. /\ worker[w].at = "index" /\ file' = Advance(worker[w].job, "indexed") /\ Go(w, "prune")
      /\ UNCHANGED <<slipped, store, core, owner, pendingEnd, lock>>
  BY DEF Index, mishaps
<1>2. /\ lock = w /\ worker[w].job \in WindowId /\ worker[w].at \in OnJob /\ worker[w].at \in Locked
      /\ "indexed" \in Stage /\ "prune" \in Place /\ "indexed" \in Finished
  BY <1>1, HolderFacts DEF OnJob, Locked, Stage, Place, Finished
<1>3. PICK j \in file.jobs : j.id = worker[w].job /\ OnJobOK(worker[w], j) /\ SealedOK(once, j)
  BY <1>2, HolderFacts
<1>4. j.stage = "done" /\ j.id \in store \cap core /\ j.new \subseteq file.covered
  BY <1>1, <1>3 DEF OnJobOK, StageAt, SealedOK, Finished
<1>5. /\ JobsMoved(j.id, "indexed", file'.jobs) /\ file' \in FileRecord /\ file'.completed = file.completed
      /\ file'.consumed = file.consumed /\ file'.reserved = file.reserved /\ file'.covered = file.covered
      /\ file'.ready = file.ready
  BY <1>1, <1>2, <1>3, AdvanceMoves DEF WindowsInv
<1>6. PICK x \in WorkerRecord : /\ Puts(w, x) /\ x.at = "prune" /\ x.todo = worker[w].todo
                                /\ x.job = worker[w].job
  BY <1>1, <1>2, GoFacts DEF WindowsInv
<1>7. DrainOK(w, x)'
  <2>1. StageAt(x.at, "indexed")
    BY <1>6 DEF StageAt
  <2> QED BY <1>1, <1>2, <1>3, <1>5, <1>6, <2>1, NextPlace
<1>8. \A t \in Unperceived' : file'.consumed <= t /\ file'.consumed < t + Overlap
  BY <1>1, <1>5 DEF WindowsInv, CursorsOK, Unperceived, Unprotected
<1>9. /\ file'.covered = file.covered \cup (IF "indexed" \in Finished THEN j.new ELSE {})
      /\ lock' \in Worker \cup {NoWorker}
  BY <1>1, <1>2, <1>4, <1>5
<1> QED BY <1>1, <1>2, <1>4, <1>5, <1>6, <1>7, <1>8, <1>9, JobSteps

\* It is not indexed this time.
LEMMA IndexFailsStep == ASSUME NEW once \in BOOLEAN, WindowsInv(once), NEW w \in Worker, IndexFails(w) PROVE WindowsInv(once)'
<1>1. worker[w].at = "index" /\ UNCHANGED <<slipped, file, store, core, owner, pendingEnd, lock>> /\ Go(w, "pick")
      /\ "pick" \in Place
  BY DEF IndexFails, Place, mishaps
<1>2. lock = w /\ worker[w].todo \subseteq JobIds
  BY <1>1, HolderFacts DEF OnJob
<1>3. SameTurns /\ CursorsOK' /\ JobIds' = JobIds
  BY <1>1, UnchangedFile DEF JobIds
<1>4. PICK x \in WorkerRecord : Puts(w, x) /\ x.at = "pick" /\ x.todo = worker[w].todo
  BY <1>1, GoFacts DEF WindowsInv
<1>5. DrainOK(w, x)'
  BY <1>1, <1>2, <1>3, <1>4 DEF DrainOK, OnJob
<1> QED BY <1>1, <1>2, <1>3, <1>4, <1>5, OneDrainSteps

\* An overlap keeps the turn that ended between two statements of a drain.
LEMMA PruneStep == ASSUME NEW once \in BOOLEAN, WindowsInv(once), NEW w \in Worker, PruneScan(w) PROVE WindowsInv(once)'
<1>1. worker[w].at = "prune" /\ UNCHANGED <<slipped, file, store, core, owner, pendingEnd, lock>>
  BY DEF PruneScan, mishaps
<1>2. lock = w /\ worker[w].todo \subseteq JobIds /\ worker[w] \in WorkerRecord
  <2>1. DrainOK(w, worker[w]) /\ worker[w] \in WorkerRecord
    BY ShapeFacts DEF WindowsInv, DrainsOK
  <2> QED BY <1>1, <2>1 DEF DrainOK, Locked, Between
<1>3. SameTurns /\ CursorsOK' /\ JobIds' = JobIds /\ Unperceived' = Unperceived
  BY <1>1, UnchangedFile DEF JobIds, Unperceived, Unprotected
<1>4. CASE worker' = [worker EXCEPT ![w].at = "pick"]
  <2>1. Go(w, "pick") /\ "pick" \in Place
    BY <1>4 DEF Go, Place
  <2>2. PICK x \in WorkerRecord : Puts(w, x) /\ x.at = "pick" /\ x.todo = worker[w].todo
    BY <2>1, GoFacts DEF WindowsInv
  <2>3. DrainOK(w, x)'
    BY <1>1, <1>2, <1>3, <2>2 DEF DrainOK, OnJob
  <2> QED BY <1>1, <1>2, <1>3, <2>2, <2>3, OneDrainSteps
<1>5. CASE worker' = [worker EXCEPT ![w].at = "compact", ![w].scan = Kept]
  <2>1. PICK K : K = Kept
    OBVIOUS
  <2>2. /\ file.ready \subseteq Turn /\ file.completed \in Nat /\ file.consumed \in Nat /\ Overlap \in Nat /\ MaxTurns \in Nat
        /\ owner.at = "turn" => file.completed < MaxTurns
        /\ \A t \in Unperceived : t \in file.ready /\ file.consumed < t + Overlap /\ t \in Nat
    BY ShapeFacts DEF WindowsInv, OwnerOK, CursorsOK, Unperceived
  <2>3. K \in SUBSET Turn
    <3>1. owner.at = "turn" => file.completed + 1 \in Turn
      BY <2>2 DEF Turn
    <3> QED BY <2>1, <2>2, <3>1 DEF Kept
  <2>4. Unperceived \subseteq K
    <3>1. ASSUME NEW t \in Unperceived PROVE t \in K
      <4>1. t + Overlap > file.consumed
        BY <2>2
      <4> QED BY <4>1, <2>1, <2>2 DEF Kept
    <3> QED BY <3>1
  <2>5. owner.at = "turn" => file.completed + 1 \in K
    BY <2>1 DEF Kept
  <2>6. PICK x : x = [worker[w] EXCEPT !.at = "compact", !.scan = K]
    OBVIOUS
  <2>7. x \in WorkerRecord /\ x.at = "compact" /\ x.scan = K /\ x.todo = worker[w].todo
    BY <1>2, <2>3, <2>6 DEF WorkerRecord, Place
  <2>8. Puts(w, x)
    BY <1>5, <2>1, <2>6 DEF Puts, WindowsInv, WindowsShape
  <2>9. DrainOK(w, x)'
    BY <1>1, <1>2, <1>3, <2>4, <2>5, <2>7 DEF DrainOK, OnJob
  <2> QED BY <1>1, <1>2, <1>3, <2>7, <2>8, <2>9, OneDrainSteps
<1> QED BY <1>4, <1>5 DEF PruneScan

\* Compaction keeps every turn that was not perceived.
LEMMA CompactStep == ASSUME NEW once \in BOOLEAN, WindowsInv(once), NEW w \in Worker, Compact(w) PROVE WindowsInv(once)'
<1>1. worker[w].at = "compact" /\ UNCHANGED <<slipped, store, core, owner, pendingEnd, lock>>
  BY DEF Compact, mishaps
<1>2. lock = w /\ worker[w].todo \subseteq JobIds /\ worker[w] \in WorkerRecord /\ Unperceived \subseteq worker[w].scan
  <2>1. DrainOK(w, worker[w]) /\ worker[w] \in WorkerRecord
    BY ShapeFacts DEF WindowsInv, DrainsOK
  <2> QED BY <1>1, <2>1 DEF DrainOK, Locked, Between
<1>3. PICK r : r = file.ready \cap (worker[w].scan \cup context \cup UNION {j.events : j \in Pending})
  OBVIOUS
<1>4. file' = [file EXCEPT !.ready = r]
  BY <1>3 DEF Compact
<1>5. r \in SUBSET Turn /\ file \in FileRecord
  BY <1>3, ShapeFacts DEF WindowsInv, WindowsShape
<1>6. SameTurns /\ file'.ready = r /\ file'.consumed = file.consumed
  BY <1>1, <1>3, <1>4, <1>5 DEF SameTurns, FileRecord
<1>7. CursorsOK'
  <2>1. \A t \in Unperceived : t \in r /\ file.consumed <= t /\ file.consumed < t + Overlap
    BY <1>2, <1>3 DEF WindowsInv, CursorsOK
  <2> QED BY <2>1, <1>3, <1>6 DEF SameTurns, WindowsInv, CursorsOK, Unperceived, Unprotected
<1>8. PICK x : x = [worker[w] EXCEPT !.at = "pick", !.scan = {}]
  OBVIOUS
<1>9. x \in WorkerRecord /\ x.at = "pick" /\ x.todo = worker[w].todo
  BY <1>2, <1>8 DEF WorkerRecord, Place
<1>10. Puts(w, x)
  BY <1>8 DEF Compact, Puts, WindowsInv, WindowsShape
<1>11. DrainOK(w, x)'
  BY <1>1, <1>2, <1>6, <1>9 DEF DrainOK, OnJob, SameTurns, JobIds
<1> QED BY <1>1, <1>2, <1>6, <1>7, <1>9, <1>10, <1>11, OneDrainSteps

\* The invariant holds at first.
LEMMA WindowsInitially == ASSUME NEW once \in BOOLEAN, WindowsInit PROVE WindowsInv(once)
<1>1. /\ file.completed = 0 /\ file.consumed = 0 /\ file.reserved = 0 /\ file.covered = {} /\ file.ready = {}
      /\ file.jobs = {} /\ file \in FileRecord
  BY WindowsAssumption DEF WindowsInit, FileRecord
<1>2. WindowsShape
  BY <1>1, AwayFacts, RestFacts DEF WindowsInit, WindowsShape
<1>3. JobsOK(once) /\ Beyond = {} /\ Unperceived = {}
  BY <1>1 DEF JobsOK, Beyond, Unperceived, TurnsPerceivedOnce
<1>4. CursorsOK /\ OwnerOK(once)
  BY <1>1, <1>3, RestFacts DEF CursorsOK, OwnerOK, OneBeyond, WindowsInit
<1>5. DrainsOK
  BY AwayFacts DEF DrainsOK, DrainOK, WindowsInit, Locked, Between, OnJob
<1> QED BY <1>2, <1>3, <1>4, <1>5 DEF WindowsInv

\* Every step keeps it.
LEMMA WindowsStep ==
  ASSUME NEW once \in BOOLEAN, WindowsInv(once), [WindowsNext]_windowVars, once => [Death => OneBeyond]_windowVars
  PROVE  WindowsInv(once)'
<1>1. CASE UNCHANGED windowVars
  <2>1. UNCHANGED <<slipped, file, store, core, owner, pendingEnd, worker, lock>>
    BY <1>1 DEF windowVars, mishaps, mishaps
  <2>2. OwnerOK(once)'
    BY <2>1 DEF WindowsInv, OwnerOK, OneBeyond, Beyond, Unprotected
  <2> QED BY <2>1, <2>2, NothingSaved DEF WindowsInv, WindowsShape
<1>2. CASE Death /\ ~UNCHANGED windowVars
  BY <1>2, DeathStep
<1>3. CASE BeginTurn \/ CompleteTurn \/ TurnEndsUncounted \/ CompressContext \/ Seal \/ StartRetry \/ Rebind
  BY <1>3, BeginStep, CompleteStep, UncountedStep, CompressStep, RowsStep, SealStep, ReserveStep, KickStep,
     RetryStep, RebindStep DEF Seal
<1>4. ASSUME NEW w \in Worker, Work(w) \/ CancelDrain(w) \/ ExecuteFails(w) \/ IndexFails(w) PROVE WindowsInv(once)'
  <2>1. CASE Look(w) \/ TakeLock(w) \/ Pick(w) \/ Compare(w) \/ CancelDrain(w)
    BY <2>1, LookStep, TakeStep, PickStep, CompareStep, CancelStep
  <2>2. CASE Produce(w) \/ StoreRecords(w) \/ Checkpoint(w) \/ Project(w) \/ ExecuteFails(w)
    BY <2>2, ProduceStep, PublishStep, CheckpointStep, ProjectStep, FailStep
  <2>3. CASE ScanUncovered(w) \/ Cover(w) \/ Index(w) \/ IndexFails(w) \/ PruneScan(w) \/ Compact(w)
    BY <2>3, ScanStep, CoverStep, IndexStep, IndexFailsStep, PruneStep, CompactStep
  <2> QED BY <1>4, <2>1, <2>2, <2>3 DEF Work
<1> QED BY <1>1, <1>2, <1>3, <1>4 DEF WindowsNext

\* It implies what is to be shown.
LEMMA WindowsProperties ==
  ASSUME NEW once \in BOOLEAN, WindowsInv(once)
  PROVE  UnperceivedKeepsEvidence /\ CoveredIsPublished /\ (once => TurnsPerceivedOnce)
<1>1. UnperceivedKeepsEvidence
  BY DEF WindowsInv, CursorsOK, Unperceived, UnperceivedKeepsEvidence
<1>2. CoveredIsPublished
  <2>1. ASSUME NEW t \in file.covered PROVE \E j \in file.jobs : t \in j.new /\ j.id \in store \cap core
    <3>1. PICK j \in file.jobs : t \in j.new /\ j.stage \in Finished
      BY DEF WindowsInv, JobsOK
    <3>2. SealedOK(once, j)
      BY DEF WindowsInv, JobsOK
    <3> QED BY <3>1, <3>2 DEF SealedOK
  <2> QED BY <2>1 DEF CoveredIsPublished
<1> QED BY <1>1, <1>2 DEF WindowsInv, JobsOK

\* Whatever fails or dies, what a completed turn told is in its evidence until it is in
\* the formal records and in MEMORY.md (SessionFile.compact, ObservationStore.commit);
\* but for a turn that slips past a drain while no overlap is configured.
THEOREM EvidenceUntilPublishedCorrect ==
  WindowsSpec => [](UnperceivedKeepsEvidence /\ CoveredIsPublished)
<1>1. WindowsInit => WindowsInv(FALSE)
  BY WindowsInitially
<1>2. WindowsInv(FALSE) /\ [WindowsNext]_windowVars => WindowsInv(FALSE)'
  BY WindowsStep
<1>3. WindowsInv(FALSE) => UnperceivedKeepsEvidence /\ CoveredIsPublished
  BY WindowsProperties
<1> QED BY <1>1, <1>2, <1>3, PTL DEF WindowsSpec

\* Once strayed, always strayed; and a death that does not stray leaves one job at most.
LEMMA StrayFacts ==
  ASSUME [WindowsNext]_windowVars, strayed \in BOOLEAN
  PROVE  /\ strayed' \in BOOLEAN
         /\ ~strayed' => ~strayed /\ [Death => OneBeyond]_windowVars
<1>1. CASE Death
  BY <1>1 DEF Death, OneBeyond
<1>2. CASE ~Death
  <2>1. strayed' = strayed
    BY <1>2 DEF WindowsNext, BeginTurn, CompleteTurn, TurnEndsUncounted, CompressContext, Seal, SealRows, SealJob,
                Reserve, Kick, StartRetry, Rebind, Work, Look, TakeLock, Pick, Produce, StoreRecords, Checkpoint,
                Project, ScanUncovered, Cover, Index, PruneScan, Compact, Compare, CancelDrain, ExecuteFails,
                IndexFails, windowVars, mishaps
  <2> QED BY <1>2, <2>1
<1> QED BY <1>1, <1>2

\* What is kept as long as no death strayed.
KeptInv == strayed \in BOOLEAN /\ WindowsInv(FALSE) /\ (~strayed => WindowsInv(TRUE))

\* And no turn is perceived twice either (schedule_processing, seal_pending_rows), until
\* a death leaves more beyond the cursor than one job of protected turns.
THEOREM EvidenceKeptCorrect == WindowsSpec => []EvidenceKept
<1>1. WindowsInit => KeptInv
  BY WindowsInitially DEF KeptInv, WindowsInit
<1>2. KeptInv /\ [WindowsNext]_windowVars => KeptInv'
  <2> SUFFICES ASSUME KeptInv, [WindowsNext]_windowVars PROVE KeptInv'
    OBVIOUS
  <2>1. WindowsInv(FALSE)'
    BY WindowsStep DEF KeptInv
  <2>2. strayed' \in BOOLEAN /\ (~strayed' => ~strayed /\ [Death => OneBeyond]_windowVars)
    BY StrayFacts DEF KeptInv
  <2>3. ASSUME ~strayed' PROVE WindowsInv(TRUE)'
    BY <2>2, <2>3, WindowsStep DEF KeptInv
  <2> QED BY <2>1, <2>2, <2>3 DEF KeptInv
<1>3. KeptInv => EvidenceKept
  <2> SUFFICES ASSUME KeptInv PROVE EvidenceKept
    OBVIOUS
  <2>1. UnperceivedKeepsEvidence /\ CoveredIsPublished
    BY WindowsProperties DEF KeptInv
  <2>2. CASE strayed
    BY <2>1, <2>2 DEF EvidenceKept
  <2>3. CASE ~strayed
    BY <2>1, <2>3, WindowsProperties DEF EvidenceKept, KeptInv
  <2> QED BY <2>2, <2>3 DEF KeptInv
<1> QED BY <1>1, <1>2, <1>3, PTL DEF WindowsSpec
=============================================================================
