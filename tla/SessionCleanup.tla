--------------------------- MODULE SessionCleanup ----------------------------
(***************************************************************************)
(* Reclaiming storage: a write of a session file that finds the disk full  *)
(* deletes old sessions one by one and tries again after each              *)
(* (sessions/cleanup.py), while other processes load, use and write theirs *)
(* (sessions/storage.py, bind_loaded_snapshot in core/system.py).          *)
(*                                                                         *)
(* A session has a journal lock and a use lock for each process that works *)
(* with it.  A step under the journal lock is one step unless other locks  *)
(* are tried or the disk is found full meanwhile.  A process works with    *)
(* one session at a time.                                                  *)
(***************************************************************************)
EXTENDS Naturals, FiniteSets

CONSTANTS
  Session, Client,  \* sessions and processes
  NoSession, Nobody,
  MaxSaves,   \* bound: writes that begin
  MaxDeaths   \* bound: deaths of a process

ASSUME CleanupAssumption ==
  NoSession \notin Session /\ Nobody \notin Client /\ MaxSaves \in Nat /\ MaxDeaths \in Nat

VARIABLES
  stored,   \* what is on disk of each session
  holder,   \* who holds its journal lock
  users,    \* who holds a use lock of it
  client,   \* what each process does
  deleted,  \* history: sessions that were deleted
  done      \* saves and deaths so far

cleanupVars == <<stored, holder, users, client, deleted, done>>

Away == [at |-> "away", own |-> NoSession, open |-> FALSE, tried |-> NoSession, left |-> {}]

\* "open": the file tells of an active, interrupted or paused turn, of tasks
\* that are not completed or of memory jobs that are pending.
CleanupTypeOK ==
  /\ stored \in [Session -> [there : BOOLEAN, open : BOOLEAN, old : BOOLEAN]]
  /\ holder \in [Session -> Client \cup {Nobody}] /\ users \in [Session -> SUBSET Client]
  /\ client \in [Client ->
       [at : {"away", "loaded", "using", "writing", "full", "locked", "again"},
        own : Session \cup {NoSession}, open : BOOLEAN, tried : Session \cup {NoSession},
        left : SUBSET Session]]

CleanupInit ==
  /\ stored \in [Session -> [there : BOOLEAN, open : BOOLEAN, old : BOOLEAN]]
  /\ \A s \in Session : ~stored[s].there => ~stored[s].open /\ ~stored[s].old
  /\ holder = [s \in Session |-> Nobody] /\ users = [s \in Session |-> {}]
  /\ client = [p \in Client |-> Away]
  /\ deleted = {} /\ done = [saves |-> 0, deaths |-> 0]

Free(s) == holder[s] = Nobody
Place(p, at) == client' = [client EXCEPT ![p].at = at]
Unlock(s) == holder' = [holder EXCEPT ![s] = Nobody]

-----------------------------------------------------------------------------
(* A session is loaded, used, written and released.                        *)

\* SessionFile.load reads the file and lets go of the lock ...
Load(p, s) ==
  /\ client[p].at = "away" /\ Free(s) /\ stored[s].there
  /\ client' = [client EXCEPT ![p] = [Away EXCEPT !.at = "loaded", !.own = s]]
  /\ UNCHANGED <<stored, holder, users, deleted, done>>

\* A plausible mistake: what was read a moment ago is taken to be still there.
AcquireUseUnseen(p) ==
  /\ client[p].at = "loaded" /\ Free(client[p].own)
  /\ Place(p, "using") /\ users' = [users EXCEPT ![client[p].own] = @ \cup {p}]
  /\ UNCHANGED <<stored, holder, deleted, done>>

\* ... acquire_use takes it again.  The session may be gone by now.
AcquireUse(p) ==
  LET s == client[p].own IN
  /\ client[p].at = "loaded" /\ Free(s)
  /\ IF stored[s].there
       THEN Place(p, "using") /\ users' = [users EXCEPT ![s] = @ \cup {p}]
       ELSE client' = [client EXCEPT ![p] = Away] /\ UNCHANGED users
  /\ UNCHANGED <<stored, holder, deleted, done>>

\* SessionFile.create; a new name is never one that was used before.
Create(p, s) ==
  /\ client[p].at = "away" /\ ~stored[s].there /\ Free(s) /\ done.saves < MaxSaves
  /\ \A q \in Client : client[q].own # s
  /\ s \notin deleted
  /\ done' = [done EXCEPT !.saves = @ + 1]
  /\ holder' = [holder EXCEPT ![s] = p]
  /\ client' = [client EXCEPT ![p] = [Away EXCEPT !.at = "writing", !.own = s]]
  /\ UNCHANGED <<stored, users, deleted>>

\* release_use
ReleaseUse(p) ==
  /\ client[p].at = "using" /\ Free(client[p].own)
  /\ users' = [users EXCEPT ![client[p].own] = @ \ {p}]
  /\ client' = [client EXCEPT ![p] = Away]
  /\ UNCHANGED <<stored, holder, deleted, done>>

\* A transaction begins or ends a turn, or pauses it.
BeginSave(p, open) ==
  LET s == client[p].own IN
  /\ client[p].at = "using" /\ Free(s) /\ done.saves < MaxSaves
  /\ done' = [done EXCEPT !.saves = @ + 1]
  /\ holder' = [holder EXCEPT ![s] = p]
  /\ client' = [client EXCEPT ![p].at = "writing", ![p].open = open]
  /\ UNCHANGED <<stored, users, deleted>>

\* A session that was created is loaded then.
Saved(p) ==
  LET s == client[p].own IN
  /\ client[p].at \in {"writing", "again"}
  /\ stored' = [stored EXCEPT ![s] = [there |-> TRUE, open |-> client[p].open, old |-> FALSE]]
  /\ Unlock(s)
  /\ client' = [client EXCEPT ![p].at = IF p \in users[s] THEN "using" ELSE "loaded", ![p].left = {}]
  /\ UNCHANGED <<users, deleted, done>>

Age(s) ==
  /\ stored[s].there /\ ~stored[s].old
  /\ stored' = [stored EXCEPT ![s].old = TRUE]
  /\ UNCHANGED <<holder, users, client, deleted, done>>

-----------------------------------------------------------------------------
(* retry_after_storage_cleanup.                                            *)

\* _session_candidates: files older than the retention, but not the own one.
Candidates(p) == {s \in Session \ {client[p].own} : stored[s].there /\ stored[s].old}

DiskFull(p) ==
  /\ client[p].at \in {"writing", "again"}
  /\ client' = [client EXCEPT ![p].at = "full",
                              ![p].left = IF client[p].at = "writing" THEN Candidates(p) ELSE @]
  /\ UNCHANGED <<stored, holder, users, deleted, done>>

\* _locked_session: the journal lock of the next one, without waiting.
TryNext(p, s) ==
  /\ client[p].at = "full" /\ s \in client[p].left
  /\ IF Free(s)
       THEN /\ holder' = [holder EXCEPT ![s] = p]
            /\ client' = [client EXCEPT ![p].at = "locked", ![p].tried = s, ![p].left = @ \ {s}]
       ELSE client' = [client EXCEPT ![p].left = @ \ {s}] /\ UNCHANGED holder
  /\ UNCHANGED <<stored, users, deleted, done>>

\* Every use lock of it, without waiting, and what the file says.
Protected(s) == users[s] # {} \/ stored[s].open

\* _delete_old_session; its age is looked at again.
Delete(p) ==
  LET s == client[p].tried IN
  /\ client[p].at = "locked"
  /\ IF stored[s].there /\ stored[s].old /\ ~Protected(s)
       THEN /\ stored' = [stored EXCEPT ![s].there = FALSE]
            /\ client' = [client EXCEPT ![p].at = "again", ![p].tried = NoSession]
       ELSE client' = [client EXCEPT ![p].at = "full", ![p].tried = NoSession] /\ UNCHANGED stored
  /\ deleted' = IF stored'[s] # stored[s] THEN deleted \cup {s} ELSE deleted
  /\ Unlock(s)
  /\ UNCHANGED <<users, done>>

\* Nothing is left to delete: the first failure is raised.
GiveUp(p) ==
  LET s == client[p].own IN
  /\ client[p].at = "full" /\ client[p].left = {}
  /\ Unlock(s)
  /\ client' = [client EXCEPT ![p] =
       IF p \in users[s] THEN [@ EXCEPT !.at = "using"] ELSE Away]
  /\ UNCHANGED <<stored, users, deleted, done>>

\* The system frees the locks of a process that dies.
DieClient(p) ==
  /\ client[p].at # "away" /\ done.deaths < MaxDeaths
  /\ done' = [done EXCEPT !.deaths = @ + 1]
  /\ client' = [client EXCEPT ![p] = Away]
  /\ holder' = [s \in Session |-> IF holder[s] = p THEN Nobody ELSE holder[s]]
  /\ users' = [s \in Session |-> users[s] \ {p}]
  /\ UNCHANGED <<stored, deleted>>

-----------------------------------------------------------------------------
CleanupNext ==
  \/ \E p \in Client :
       \/ AcquireUse(p) \/ ReleaseUse(p) \/ Saved(p) \/ DiskFull(p) \/ Delete(p) \/ GiveUp(p)
       \/ DieClient(p)
       \/ \E open \in BOOLEAN : BeginSave(p, open)
       \/ \E s \in Session : Load(p, s) \/ Create(p, s) \/ TryNext(p, s)
  \/ \E s \in Session : Age(s)

CleanupSpec == CleanupInit /\ [][CleanupNext]_cleanupVars

-----------------------------------------------------------------------------
\* A process in need of space leaves alone what another one works with, however
\* the steps of its loading fall, and what is to be resumed; and what it writes
\* itself stays reserved to it until the retry (_locked_session, acquire_use).
UsedSessionStays ==
  /\ \A s \in deleted : ~stored[s].open /\ users[s] = {}
  /\ \A p \in Client : client[p].at \notin {"away", "loaded"} =>
       /\ holder[client[p].own] = p \/ client[p].at = "using"
       /\ stored[client[p].own].there \/ p \notin users[client[p].own]
=============================================================================
