--------------------------- MODULE SessionJournal ---------------------------
(***************************************************************************)
(* The session journal (sessions/journal.py, sessions/storage.py) and the  *)
(* write loop of the session's owner (SessionController.write).            *)
(*                                                                         *)
(* An instance is one loaded SessionFile; several processes may have the   *)
(* same file loaded.  Its owner saves through write, which first settles a *)
(* batch whose save is uncertain and then runs the operation; the thread   *)
(* of the memory perception saves directly.  Each operation holds the file *)
(* lock from its refresh to its end, so it is one step here; the owner's   *)
(* retry and operation are two.  A batch is a name: what it changes is     *)
(* abstracted, what it was prepared against is not.                        *)
(***************************************************************************)
EXTENDS Naturals, Sequences, FiniteSets, SequencesExt

CONSTANTS
  Instance,
  Batch,      \* the batches to be saved
  Faulty,     \* instances whose writes may fail
  NoBatch, Compact,
  MaxFaults,  \* bound: failing writes
  MaxCrashes, \* bound: deaths of a process and losses of power
  MaxCompactions \* bound: compactions

ASSUME SessionJournalAssumption ==
  /\ IsFiniteSet(Instance) /\ IsFiniteSet(Batch)
  /\ Faulty \subseteq Instance
  /\ NoBatch \notin Batch /\ Compact \notin Batch /\ NoBatch # Compact
  /\ MaxFaults \in Nat /\ MaxCrashes \in Nat /\ MaxCompactions \in Nat

VARIABLES
  file,     \* the file as processes see it
  disk,     \* what of it would survive a loss of power
  view,     \* the file as each instance read it last
  stale,    \* instances whose _saved_version differs from the file's
  pending,  \* _pending_update: a batch that may or may not be in the file
  owner,    \* where the owner's write loop is
  target,   \* the operation it is to run
  used,     \* batches that were given to an operation
  prior,    \* history: the log each batch was prepared against
  acked,    \* history: batches whose save was reported as done
  passed,   \* history: batches that were uncertain when another instance
            \* compacted
  count     \* how many faults, crashes and compactions there were

mem  == <<view, stale, pending, passed>>
loop == <<owner, target, used>>
vars == <<file, disk, mem, loop, prior, acked, count>>

(* A file is the batches it tells of, in order, the number of transactions *)
(* that hold them, the batch of the last one and whether an incomplete     *)
(* write follows.                                                          *)
File == [log : Seq(Batch), count : Nat, last : Batch \cup {NoBatch, Compact},
         torn : BOOLEAN]
Empty == [log |-> <<>>, count |-> 0, last |-> NoBatch, torn |-> FALSE]
Counts == [faults : 0..MaxFaults, crashes : 0..MaxCrashes, compactions : 0..MaxCompactions]
Settled == [batch |-> NoBatch, seq |-> 0]

TypeOK ==
  /\ file \in File /\ disk \in File /\ view \in [Instance -> File]
  /\ stale \subseteq Instance
  /\ pending \in [Instance -> [batch : Batch \cup {NoBatch}, seq : Nat]]
  /\ owner \in [Instance -> {"closed", "idle", "start", "ready", "waiting"}]
  /\ target \in [Instance -> Batch \cup {NoBatch, Compact}]
  /\ \A i \in Instance : owner[i] = "closed" => pending[i] = Settled
  /\ \A i \in Instance : owner[i] \in {"closed", "idle"} <=> target[i] = NoBatch
  /\ \A i \in Instance : ~view[i].torn
  /\ used \subseteq Batch /\ acked \subseteq used /\ passed \subseteq used
  /\ prior \in [Batch -> Seq(Batch)]
  /\ count \in Counts

Init ==
  /\ file = Empty /\ disk = Empty
  /\ view = [i \in Instance |-> Empty] /\ stale = {}
  /\ pending = [i \in Instance |-> Settled]
  /\ owner = [i \in Instance |-> "closed"]
  /\ target = [i \in Instance |-> NoBatch]
  /\ used = {} /\ acked = {} /\ passed = {} /\ prior = [b \in Batch |-> <<>>]
  /\ count = [faults |-> 0, crashes |-> 0, compactions |-> 0]

Open(i) == owner[i] # "closed"

\* _read drops an incomplete write and publishes the file without it.
Healed == [file EXCEPT !.torn = FALSE]

\* Mutant: the owner trusts what it read last.
FreshNever(i) == view[i]

\* _refresh: the instance reads the file again if another wrote it, but not
\* while a batch of its own is uncertain.
Fresh(i) == IF i \in stale /\ pending[i] = Settled THEN Healed ELSE view[i]

\* What reading left on stable storage: a repaired file is written out.
Kept(i) == IF Fresh(i) = file THEN disk
           ELSE IF file.torn /\ Fresh(i) = Healed THEN Healed ELSE disk

\* The file after a batch is written behind base, wholly or in part.
With(base, b) == [log |-> Append(base.log, b), count |-> base.count + 1,
                  last |-> b, torn |-> FALSE]
Torn(base) == [base EXCEPT !.torn = TRUE]

CanFail(i) == i \in Faulty /\ count.faults < MaxFaults
Fault == count' = [count EXCEPT !.faults = @ + 1]

-----------------------------------------------------------------------------
(* _write_update: the batch is written behind what the instance knows.     *)

\* Written and flushed: it is on stable storage.
WriteDone(i, b, base) ==
  /\ file' = With(base, b) /\ disk' = file'
  /\ view' = [view EXCEPT ![i] = file']
  /\ stale' = Instance \ {i}
  /\ pending' = [pending EXCEPT ![i] = Settled]
  /\ UNCHANGED <<count, passed>>

\* It failed before, during or after the write; kept is on stable storage.
WriteFails(i, b, base, kept) ==
  /\ CanFail(i) /\ Fault
  /\ file' \in {base, Torn(base), With(base, b)}
  /\ disk' = kept
  /\ view' = [view EXCEPT ![i] = base]
  /\ stale' = IF file' = file THEN stale \ {i}
              ELSE IF file' = base THEN Instance \ {i} ELSE Instance
  /\ pending' = [pending EXCEPT ![i] = [batch |-> b, seq |-> base.count + 1]]
  /\ UNCHANGED passed

\* Reading the file again changes nothing else.
JustRead(i, f, kept) ==
  /\ file' = IF f = Healed THEN f ELSE file
  /\ disk' = kept
  /\ view' = [view EXCEPT ![i] = f]
  /\ stale' = (IF file' = file THEN stale ELSE Instance)
              \ (IF f = Healed THEN {i} ELSE {})
  /\ UNCHANGED <<count, passed>>

-----------------------------------------------------------------------------
(* The owner (SessionController.write).                                    *)

Begin(i) ==
  /\ owner[i] = "idle"
  /\ \E t \in (Batch \ used) \cup {c \in {Compact} : count.compactions < MaxCompactions} :
       /\ target' = [target EXCEPT ![i] = t]
       /\ used' = used \cup ({t} \cap Batch)
       /\ count' = IF t = Compact THEN [count EXCEPT !.compactions = @ + 1] ELSE count
  /\ owner' = [owner EXCEPT ![i] = "start"]
  /\ UNCHANGED <<file, disk, mem, prior, acked>>

Go(i, step) == owner' = [owner EXCEPT ![i] = step] /\ UNCHANGED <<target, used>>
Finish(i) == /\ owner' = [owner EXCEPT ![i] = "idle"]
             /\ target' = [target EXCEPT ![i] = NoBatch] /\ UNCHANGED used

\* The uncertain batch is the last transaction of the file f.
Landed(i, f) == f.last = pending[i].batch /\ f.count = pending[i].seq

\* retry_pending: flush the file, read it, and find the batch or write it.
RetryNothing(i) ==
  /\ owner[i] = "start" /\ pending[i] = Settled
  /\ Go(i, "ready")
  /\ UNCHANGED <<file, disk, mem, prior, acked, count>>

\* Mutant: the batch is looked for before the file is read.
RetryFoundStale(i) ==
  /\ owner[i] = "start" /\ pending[i] # Settled /\ Landed(i, view[i])
  /\ JustRead(i, Healed, Healed)
  /\ pending' = [pending EXCEPT ![i] = Settled]
  /\ Go(i, "ready") /\ UNCHANGED <<prior, acked>>

RetryFound(i) ==
  /\ owner[i] = "start" /\ pending[i] # Settled /\ Landed(i, Healed)
  /\ JustRead(i, Healed, Healed)
  /\ pending' = [pending EXCEPT ![i] = Settled]
  /\ Go(i, "ready") /\ UNCHANGED <<prior, acked>>

\* It is not there and nobody wrote since: it is written again.
RetryWrite(i) ==
  /\ owner[i] = "start" /\ pending[i] # Settled /\ ~Landed(i, Healed)
  /\ pending[i].seq = Healed.count + 1
  /\ \/ WriteDone(i, pending[i].batch, Healed) /\ Go(i, "ready")
     \/ WriteFails(i, pending[i].batch, Healed, Healed) /\ Go(i, "waiting")
  /\ UNCHANGED <<prior, acked>>

Conflict(i) == pending[i] # Settled /\ ~Landed(i, Healed) /\ pending[i].seq # Healed.count + 1

\* Another writer came in between: the batch stays uncertain.
RetryConflict(i) ==
  /\ owner[i] = "start" /\ Conflict(i)
  /\ JustRead(i, Healed, Healed)
  /\ UNCHANGED pending
  /\ Go(i, "waiting") /\ UNCHANGED <<prior, acked>>

\* The storage does not answer.
RetryFails(i) ==
  /\ owner[i] = "start" /\ pending[i] # Settled /\ CanFail(i) /\ Fault
  /\ Go(i, "waiting")
  /\ UNCHANGED <<file, disk, mem, prior, acked>>

\* _append has nothing new to save: its batch is in the file.
SaveKnown(i) ==
  /\ owner[i] = "ready" /\ target[i] \in ToSet(Fresh(i).log) /\ pending[i] = Settled
  /\ JustRead(i, Fresh(i), Kept(i))
  /\ acked' = acked \cup {target[i]}
  /\ Finish(i) /\ UNCHANGED <<pending, prior>>

Save(i) ==
  /\ owner[i] = "ready" /\ target[i] \in Batch \ ToSet(Fresh(i).log)
  /\ pending[i] = Settled
  /\ prior' = [prior EXCEPT ![target[i]] = Fresh(i).log]
  /\ \/ /\ WriteDone(i, target[i], Fresh(i))
        /\ acked' = acked \cup {target[i]} /\ Finish(i)
     \/ /\ WriteFails(i, target[i], Fresh(i), Kept(i))
        /\ Go(i, "waiting") /\ UNCHANGED acked

\* The perception left an uncertain batch since the retry: _append and
\* compact refuse.
Refused(i) ==
  /\ owner[i] = "ready" /\ pending[i] # Settled
  /\ Go(i, "waiting")
  /\ UNCHANGED <<file, disk, mem, prior, acked, count>>

\* compact: the whole file is replaced by one transaction, and the number of
\* transactions, by which an uncertain batch knows its place, is set back.
CompactFile(i) ==
  /\ owner[i] = "ready" /\ target[i] = Compact /\ pending[i] = Settled
  /\ \/ /\ file' = [Fresh(i) EXCEPT !.count = 1, !.last = Compact]
        /\ disk' = file' /\ view' = [view EXCEPT ![i] = file']
        /\ stale' = Instance \ {i} /\ Finish(i) /\ UNCHANGED count
        /\ passed' = passed \cup {pending[j].batch : j \in {j \in Instance : pending[j] # Settled}}
     \/ /\ CanFail(i) /\ Fault /\ Go(i, "waiting")
        /\ UNCHANGED <<file, disk, view, stale, passed>>
  /\ UNCHANGED <<pending, prior, acked>>

\* A new input makes the loop try again; a cancellation leaves it.
NewInput(i) ==
  /\ owner[i] = "waiting" /\ Go(i, "start")
  /\ UNCHANGED <<file, disk, mem, prior, acked, count>>

GiveUp(i) ==
  /\ owner[i] \in {"start", "ready", "waiting"} /\ Finish(i)
  /\ UNCHANGED <<file, disk, mem, prior, acked, count>>

\* The perception thread saves a batch of its own.
Background(i) ==
  /\ Open(i) /\ pending[i] = Settled
  /\ \E b \in Batch \ used :
       /\ used' = used \cup {b}
       /\ prior' = [prior EXCEPT ![b] = Fresh(i).log]
       /\ \/ WriteDone(i, b, Fresh(i)) /\ acked' = acked \cup {b}
          \/ WriteFails(i, b, Fresh(i), Kept(i)) /\ UNCHANGED acked
  /\ UNCHANGED <<owner, target>>

-----------------------------------------------------------------------------
(* Loading, closing, death of a process, loss of power.                    *)

Load(i) ==
  /\ owner[i] = "closed"
  /\ JustRead(i, Healed, IF file.torn THEN Healed ELSE disk)
  /\ owner' = [owner EXCEPT ![i] = "idle"]
  /\ UNCHANGED <<pending, target, used, prior, acked>>

\* What an instance remembers is gone.
Shut(i) ==
  /\ owner' = [owner EXCEPT ![i] = "closed"]
  /\ target' = [target EXCEPT ![i] = NoBatch]
  /\ pending' = [pending EXCEPT ![i] = Settled]
  /\ view' = [view EXCEPT ![i] = Empty]
  /\ UNCHANGED <<stale, used, prior, acked, passed>>

Close(i) == owner[i] = "idle" /\ Shut(i) /\ UNCHANGED <<file, disk, count>>

\* The file a dying owner may leave: a write in progress is not flushed.
DeathLeaves(i) ==
  {file} \cup
  CASE owner[i] = "ready" /\ pending[i] = Settled /\ target[i] \in Batch \ ToSet(Fresh(i).log) ->
         {Torn(Fresh(i)), With(Fresh(i), target[i])}
    [] owner[i] = "start" /\ pending[i] # Settled /\ ~Landed(i, Healed)
       /\ pending[i].seq = Healed.count + 1 ->
         {Torn(Healed), With(Healed, pending[i].batch)}
    [] OTHER -> {}

Crash == count.crashes < MaxCrashes /\ count' = [count EXCEPT !.crashes = @ + 1]

Die(i) ==
  /\ Open(i) /\ Crash
  /\ file' \in DeathLeaves(i)
  /\ owner' = [owner EXCEPT ![i] = "closed"]
  /\ target' = [target EXCEPT ![i] = NoBatch]
  /\ pending' = [pending EXCEPT ![i] = Settled]
  /\ view' = [view EXCEPT ![i] = Empty]
  /\ stale' = IF file' = file THEN stale ELSE Instance
  /\ prior' = IF file'.last \in Batch \ ToSet(file.log) /\ owner[i] = "ready"
                THEN [prior EXCEPT ![file'.last] = Fresh(i).log] ELSE prior
  /\ UNCHANGED <<disk, used, acked, passed>>

\* Bytes that were not flushed survive, are lost or survive in part.
PowerLoss ==
  /\ Crash
  /\ file' \in {file, disk} \cup (IF file = disk THEN {} ELSE {Torn(disk)})
  /\ disk' = file'
  /\ owner' = [i \in Instance |-> "closed"]
  /\ target' = [i \in Instance |-> NoBatch]
  /\ pending' = [i \in Instance |-> Settled]
  /\ view' = [i \in Instance |-> Empty] /\ stale' = Instance
  /\ UNCHANGED <<used, prior, acked, passed>>

-----------------------------------------------------------------------------
Retry(i) == \/ RetryNothing(i) \/ RetryFound(i) \/ RetryWrite(i)
            \/ RetryConflict(i) \/ RetryFails(i)
Operation(i) == SaveKnown(i) \/ Save(i) \/ Refused(i) \/ CompactFile(i)

Next == \/ \E i \in Instance :
             \/ Load(i) \/ Begin(i) \/ Retry(i) \/ Operation(i) \/ NewInput(i)
             \/ GiveUp(i) \/ Background(i) \/ Close(i) \/ Die(i)
        \/ PowerLoss

Spec == Init /\ [][Next]_vars

\* Threads finish what they began and a held user sends another input.
FairSpec == Spec /\ \A i \in Instance :
  WF_vars(Retry(i)) /\ WF_vars(Operation(i)) /\ WF_vars(NewInput(i))

-----------------------------------------------------------------------------
(* Properties.                                                             *)

\* Every batch in the file follows exactly what it was prepared against: no
\* commit of another writer is overwritten, passed over or applied twice
\* (_refresh under the lock, the sequence in retry_pending).  But for a batch
\* that was uncertain when another instance compacted: the number it waits for
\* comes again.
BasedOnLatest ==
  \A k \in DOMAIN file.log :
    file.log[k] \in passed \/ prior[file.log[k]] = SubSeq(file.log, 1, k - 1)

\* On stable storage the journal is the log its writers were promised, and what
\* is in the file but not there yet follows on it in order.
Promise == INSTANCE DurableLog WITH log <- disk.log, excused <- passed
JournalIsLog == Promise!Spec /\ []BasedOnLatest

\* A save that failed goes through after the next input, unless another
\* process wrote to the journal in the meantime.
HeldSavesProceed == \A i \in Instance :
  owner[i] = "waiting" ~> (owner[i] \in {"idle", "closed"} \/ Conflict(i))
=============================================================================
