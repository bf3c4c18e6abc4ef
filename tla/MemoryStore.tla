----------------------------- MODULE MemoryStore -----------------------------
(* The formal memories of one scope (memory/store.py, retrieval.py and        *)
(* service.py): jobs of several processes search, publish under the           *)
(* publication lock and index what they published; the user clears.           *)
(*                                                                            *)
(* All jobs speak of one subject, so that a search finds every active record, *)
(* and a job that found one changes it instead of adding another.             *)
EXTENDS Naturals, FiniteSets

CONSTANTS Process,      \* processes, each with an index object of its own
          MaxJobs,      \* bound on jobs; a job's number is the id it creates
          MaxClears,    \* bound on clears
          MaxModels,    \* bound on embedding models configured in turn
          MaxFailures   \* bound on failed embeddings and deaths together

ASSUME StoreAssumption ==
  /\ {MaxJobs, MaxClears, MaxFailures} \subseteq Nat /\ MaxModels \in Nat \ {0}
  /\ "free" \notin Process

VARIABLES
  rows,         \* the record table, by id
  vec,          \* the vector table of each embedding model: embedded text by id
  model,        \* the configured embedding model
  index,        \* the model each process's index object is bound to
  cleared,      \* cleared_at: jobs with evidence of an earlier epoch are refused
  clearing,     \* a clear saved cleared_at and has not deleted the rows yet
  publication,  \* holder of publication.lock
  write,        \* holder of the record table's lock
  work,         \* each process's place and its job
  rebound,      \* history: processes whose index object a recall bound while their
                \* reconciliation was about to write
  mixed,        \* history: vectors that such a write put into a model's table
  jobs, storeTroubles   \* counters: jobs begun, failures and deaths

recalls == <<rebound, mixed>>
storeVars == <<rows, vec, model, index, cleared, clearing, publication, write, work, recalls, jobs, storeTroubles>>

Id == 1..MaxJobs
Body == {"a", "b"}
Model == 1..MaxModels
Free == "free"
None == "none"
NoText == <<None, 0>>
Missing == [version |-> 0, body |-> None, state |-> None, source |-> 0, change |-> 0, mark |-> NoText]
Saved == [version : Nat \ {0}, body : Body, state : {"active", "deleted"}, source : Nat,
          change : Id \cup {0}, mark : {NoText} \cup (Body \X Model)]
NoJob == [id |-> 0, epoch |-> 0, seen |-> <<>>, base |-> Missing, target |-> 0, draft |-> None]
Idle == [at |-> "idle", job |-> NoJob, clear |-> FALSE, batch |-> {}, texts |-> <<>>, by |-> 0]

Active == {i \in Id : rows[i].state = "active"}
Move(p, place) == [work EXCEPT ![p].at = place]

StoreTypeOK ==
  /\ rows \in [Id -> Saved \cup {Missing}]
  /\ vec \in [Model -> [Id -> {NoText} \cup (Body \X Model)]]
  /\ model \in Model /\ index \in [Process -> Model]
  /\ {publication, write} \subseteq Process \cup {Free}
  /\ rebound \subseteq Process /\ mixed \subseteq Id \X Model
  /\ \A p \in Process : work[p].at \in {"idle", "search", "found", "apply", "save", "checkpoint",
                                        "read", "delete", "snapshot", "embed", "commit", "mark"}

StoreInit ==
  /\ rows = [i \in Id |-> Missing]
  /\ vec = [m \in Model |-> [i \in Id |-> NoText]]
  /\ model = 1 /\ index = [p \in Process |-> 1]
  /\ cleared = 0 /\ clearing = FALSE
  /\ publication = Free /\ write = Free
  /\ work = [p \in Process |-> Idle]
  /\ rebound = {} /\ mixed = {}
  /\ jobs = 0 /\ storeTroubles = 0

-----------------------------------------------------------------------------
(* A job: search, draft, publish.                                             *)

\* revision: the records of the scope, without what the index noted on them.
Revision == [i \in Id |-> [rows[i] EXCEPT !.mark = NoText]]

BeginJob(p) ==
  /\ work[p].at = "idle" /\ jobs < MaxJobs
  /\ jobs' = jobs + 1
  /\ work' = [work EXCEPT ![p] = [Idle EXCEPT !.at = "search",
                                              !.job = [NoJob EXCEPT !.id = jobs + 1, !.epoch = cleared]]]
  /\ UNCHANGED <<rows, vec, recalls, model, index, cleared, clearing, publication, write, storeTroubles>>

Search(p) ==
  /\ work[p].at = "search"
  /\ work' = [Move(p, "found") EXCEPT ![p].job.seen = Revision]
  /\ UNCHANGED <<rows, vec, recalls, model, index, cleared, clearing, publication, write, jobs, storeTroubles>>

\* A search during which the records changed is no evidence: search again.
Draft(p) ==
  /\ work[p].at = "found"
  /\ IF work[p].job.seen # Revision
     THEN work' = Move(p, "search")
     ELSE \E i \in IF Active = {} THEN {work[p].job.id} ELSE Active, d \in Body \cup {"delete"} :
            /\ d = "delete" => Active # {}
            /\ work' = [Move(p, "apply") EXCEPT ![p].job.target = i, ![p].job.base = Revision[i],
                                              ![p].job.draft = d]
  /\ UNCHANGED <<rows, vec, recalls, model, index, cleared, clearing, publication, write, jobs, storeTroubles>>

Own(p) == rows[work[p].job.target].change = work[p].job.id

\* Mutant: that a search was made is enough.
FoundOnce(p) == TRUE

\* _check_searches, then materialize.  Evidence older than a clear gives no
\* record; a conflict discards the result, and the job is produced anew.
Found(p) == work[p].job.draft = "delete" \/ Own(p) \/ work[p].job.seen = Revision
SameBase(p) == Own(p) \/ rows[work[p].job.target].version = work[p].job.base.version

Apply(p) ==
  /\ work[p].at = "apply" /\ publication = Free
  /\ CASE ~Found(p) -> work' = Move(p, "search") /\ UNCHANGED publication
       [] Found(p) /\ work[p].job.epoch < cleared ->
            work' = [work EXCEPT ![p] = [Idle EXCEPT !.at = "snapshot"]] /\ UNCHANGED publication
       [] Found(p) /\ work[p].job.epoch >= cleared /\ ~SameBase(p) -> work' = Move(p, "search") /\ UNCHANGED publication
       [] OTHER -> work' = Move(p, "save") /\ publication' = p
  /\ UNCHANGED <<rows, vec, recalls, model, index, cleared, clearing, write, jobs, storeTroubles>>

Record(p) ==
  LET job == work[p].job
      old == rows[job.target]
      body == IF job.draft = "delete" THEN old.body ELSE job.draft
  IN [version |-> old.version + 1, body |-> body,
      state |-> IF job.draft = "delete" THEN "deleted" ELSE "active",
      source |-> job.epoch, change |-> job.id,
      mark |-> IF body = old.body THEN old.mark ELSE NoText]

\* MemoryStore.save: a change that was saved before is not saved twice.
Save(p) ==
  /\ work[p].at = "save" /\ write = Free
  /\ rows' = IF Own(p) THEN rows ELSE [rows EXCEPT ![work[p].job.target] = Record(p)]
  /\ work' = Move(p, "checkpoint")
  /\ UNCHANGED <<vec, recalls, model, index, cleared, clearing, publication, write, jobs, storeTroubles>>

CheckpointRecords(p) ==
  /\ work[p].at = "checkpoint"
  /\ work' = [work EXCEPT ![p] = [Idle EXCEPT !.at = "snapshot"]]
  /\ publication' = Free
  /\ UNCHANGED <<rows, vec, recalls, model, index, cleared, clearing, write, jobs, storeTroubles>>

-----------------------------------------------------------------------------
(* MemoryService._clear: the time first, then the records; publication.lock   *)
(* is held until the index followed.                                          *)
\* Mutant: a clear does not wait for publications.
BeginClearAtOnce(p) ==
  /\ work[p].at = "idle" /\ cleared < MaxClears
  /\ cleared' = cleared + 1 /\ clearing' = TRUE
  /\ work' = [work EXCEPT ![p] = [Idle EXCEPT !.at = "read", !.clear = TRUE]]
  /\ UNCHANGED <<rows, vec, recalls, model, index, publication, write, jobs, storeTroubles>>

BeginClear(p) ==
  /\ work[p].at = "idle" /\ publication = Free /\ cleared < MaxClears
  /\ cleared' = cleared + 1 /\ clearing' = TRUE /\ publication' = p
  /\ work' = [work EXCEPT ![p] = [Idle EXCEPT !.at = "read", !.clear = TRUE]]
  /\ UNCHANGED <<rows, vec, recalls, model, index, write, jobs, storeTroubles>>

ReadAll(p) ==
  /\ work[p].at = "read"
  /\ work' = [Move(p, "delete") EXCEPT ![p].batch = Active]
  /\ UNCHANGED <<rows, vec, recalls, model, index, cleared, clearing, publication, write, jobs, storeTroubles>>

DeleteAll(p) ==
  /\ work[p].at = "delete" /\ write = Free
  /\ rows' = [i \in Id |-> IF i \notin work[p].batch THEN rows[i]
                           ELSE [rows[i] EXCEPT !.state = "deleted", !.version = @ + 1, !.change = 0]]
  /\ clearing' = FALSE
  /\ work' = [Move(p, "snapshot") EXCEPT ![p].batch = {}]
  /\ UNCHANGED <<vec, recalls, model, index, cleared, publication, write, jobs, storeTroubles>>

-----------------------------------------------------------------------------
(* MemoryStore.reconcile, under the process's _index_lock.                    *)

\* refresh_embedding_space
Bind(p) == index' = [index EXCEPT ![p] = model]

Finish(p) ==
  /\ work' = [work EXCEPT ![p] = Idle]
  /\ publication' = IF work[p].clear THEN Free ELSE publication

Snapshot(p) ==
  /\ work[p].at = "snapshot" /\ write = Free
  /\ Bind(p)
  /\ LET left == [i \in Id |-> IF i \in Active THEN vec[model][i] ELSE NoText]
         todo == {i \in Active : rows[i].mark # <<rows[i].body, model>> \/ left[i] = NoText}
     IN /\ vec' = [vec EXCEPT ![model] = left]
        /\ IF todo = {} THEN Finish(p)
           ELSE /\ work' = [Move(p, "embed") EXCEPT ![p].batch = todo,
                                                  ![p].texts = [i \in todo |-> rows[i].body]]
                /\ UNCHANGED publication
  /\ UNCHANGED <<rows, model, recalls, cleared, clearing, write, jobs, storeTroubles>>

\* Without a lock: the records may change, and so may the configured model.
Embed(p) ==
  /\ work[p].at = "embed"
  /\ Bind(p)
  /\ work' = [Move(p, "commit") EXCEPT ![p].by = model]
  /\ UNCHANGED <<rows, vec, recalls, model, cleared, clearing, publication, write, jobs, storeTroubles>>

EmbedFails(p) ==
  /\ work[p].at = "embed" /\ storeTroubles < MaxFailures
  /\ storeTroubles' = storeTroubles + 1
  /\ Finish(p)
  /\ UNCHANGED <<rows, vec, recalls, model, index, cleared, clearing, write, jobs>>

\* Mutant: a record that is still active is taken to be the one embedded.
ValidActive(p) == work[p].batch \cap Active

Valid(p) == {i \in work[p].batch \cap Active : rows[i].body = work[p].texts[i]}

\* write_records, up to the lookup of the chunks to be replaced ...
TakeWrite(p) ==
  /\ work[p].at = "commit" /\ write = Free
  /\ LET valid == Valid(p) IN
       IF valid # {} /\ work[p].by # model
       THEN Finish(p) /\ Bind(p) /\ UNCHANGED write
       ELSE /\ write' = p
            /\ index' = IF valid = {} THEN index ELSE [index EXCEPT ![p] = model]
            /\ work' = [Move(p, "mark") EXCEPT ![p].batch = valid]
            /\ UNCHANGED publication
  /\ rebound' = rebound \ {p}
  /\ UNCHANGED <<rows, vec, model, mixed, cleared, clearing, jobs, storeTroubles>>

\* ... and from there: the table and the mark are those of the index object now.
Mixed(p) == LET written == work[p].batch \X {index[p]} IN
            IF p \in rebound THEN mixed \cup written ELSE mixed \ written

WriteVectors(p) ==
  /\ work[p].at = "mark"
  /\ vec' = [vec EXCEPT ![index[p]] = [i \in Id |-> IF i \in work[p].batch
                                                     THEN <<work[p].texts[i], work[p].by>> ELSE @[i]]]
  /\ rows' = [i \in Id |-> IF i \in work[p].batch
                           THEN [rows[i] EXCEPT !.mark = <<rows[i].body, index[p]>>] ELSE rows[i]]
  /\ write' = Free
  /\ Finish(p)
  /\ mixed' = Mixed(p)
  /\ UNCHANGED <<model, index, cleared, clearing, rebound, jobs, storeTroubles>>

\* A death between the vectors and the marks.
DieBeforeMarks(p) ==
  /\ work[p].at = "mark" /\ storeTroubles < MaxFailures
  /\ storeTroubles' = storeTroubles + 1
  /\ vec' = [vec EXCEPT ![index[p]] = [i \in Id |-> IF i \in work[p].batch
                                                     THEN <<work[p].texts[i], work[p].by>> ELSE @[i]]]
  /\ write' = Free
  /\ Finish(p)
  /\ mixed' = Mixed(p)
  /\ UNCHANGED <<rows, model, index, cleared, clearing, rebound, jobs>>

\* MemoryStore.search binds the index object it shares with the reconciliation.
Recall(p) ==
  /\ index[p] # model
  /\ Bind(p)
  /\ rebound' = IF work[p].at = "mark" THEN rebound \cup {p} ELSE rebound
  /\ UNCHANGED <<rows, vec, model, cleared, clearing, publication, write, work, mixed, jobs, storeTroubles>>

-----------------------------------------------------------------------------
Configure ==
  /\ \E m \in Model : m > model /\ model' = m
  /\ UNCHANGED <<rows, vec, recalls, index, cleared, clearing, publication, write, work, jobs, storeTroubles>>

\* The job is in the journal: its result once it is drafted, and its phase.
Resumed(p) ==
  [Idle EXCEPT !.job = work[p].job,
     !.at = CASE work[p].at \in {"search", "found"} -> "search"
              [] work[p].at \in {"apply", "save", "checkpoint"} -> "apply"
              [] work[p].clear -> "idle"
              [] work[p].at \in {"snapshot", "embed", "commit", "mark"} -> "snapshot"
              [] OTHER -> "idle"]

Die(p) ==
  /\ work[p].at # "idle" /\ storeTroubles < MaxFailures
  /\ storeTroubles' = storeTroubles + 1
  /\ work' = [work EXCEPT ![p] = Resumed(p)]
  /\ index' = [index EXCEPT ![p] = model]
  /\ publication' = IF publication = p THEN Free ELSE publication
  /\ write' = IF write = p THEN Free ELSE write
  /\ UNCHANGED <<rows, vec, recalls, model, cleared, clearing, jobs>>

Publish(p) == BeginJob(p) \/ Search(p) \/ Draft(p) \/ Apply(p) \/ Save(p) \/ CheckpointRecords(p)
Clear(p) == BeginClear(p) \/ ReadAll(p) \/ DeleteAll(p)
Reconcile(p) == Snapshot(p) \/ Embed(p) \/ EmbedFails(p) \/ TakeWrite(p) \/ WriteVectors(p) \/ DieBeforeMarks(p)

StoreNext ==
  \/ Configure
  \/ \E p \in Process : Publish(p) \/ Clear(p) \/ Reconcile(p) \/ Recall(p) \/ Die(p)

StoreSpec == StoreInit /\ [][StoreNext]_storeVars

-----------------------------------------------------------------------------
(* What a search counts as indexed and current -- a mark of this text and     *)
(* this model, and vectors in the model's table -- are vectors of the present *)
(* text by that model, whoever published, cleared or died meanwhile; but for  *)
(* vectors last written while a recall had rebound the index object.          *)
TrustedVectorsAreCurrent ==
  \A i \in Active, m \in Model :
    rows[i].mark = <<rows[i].body, m>> /\ vec[m][i] # NoText =>
      vec[m][i] = <<rows[i].body, m>> \/ <<i, m>> \in mixed

(* Stale embeddings are rejected before they are written: vectors that are    *)
(* about to be written go to the table of the model that made them.           *)
VectorsOfBoundModel ==
  \A p \in Process : work[p].at = "mark" /\ work[p].batch # {} => index[p] = work[p].by

(* Two processes that learn the same thing at the same time do not both add   *)
(* it: a publication based on a search that is no longer true is made anew.   *)
OneRecordPerSubject == Cardinality(Active) <= 1

(* A clear is final for all evidence that is older than it: neither a result  *)
(* produced before, nor one whose save was repeated after a death, comes back *)
(* (until the records are deleted, the clear is not complete).                *)
ClearedStaysForgotten ==
  clearing \/ \A i \in Active : rows[i].source >= cleared
=============================================================================
