---------------------------- MODULE ServicesProofs ----------------------------
(***************************************************************************)
(* Proofs about SessionCleanup, FileReview and ChannelTurns.               *)
(*                                                                         *)
(* Part A, for every set of sessions and processes and every bound: a      *)
(* process in need of space leaves alone what another one works with.  A   *)
(* journal lock says what its holder does with the session, a use lock     *)
(* that the session is there, and whoever is about to write a session      *)
(* holds its journal lock and has not lost it before.                      *)
(*                                                                         *)
(* Part B, for any files, texts, calls and turns: what the tools do to a   *)
(* file is known to the user and theirs to undo.  A text is rebuilt from   *)
(* the two sides of its hunks, which cover the parts that differ and share *)
(* none (section 1), so that an entry stands for two contents, what the    *)
(* decisions so far left and what a rejection of the rest restores         *)
(* (section 2).  A fingerprint stands for one content among the proposals  *)
(* under way (section 3).                                                  *)
(*                                                                         *)
(* Part C, for any number of messages, resets and pauses: no message of a  *)
(* chat is overtaken, forgotten or answered by a session that lost it.     *)
(* Each is in one place, and what is queued was never taken before.        *)
(***************************************************************************)
EXTENDS SessionCleanup, FileReview, ChannelTurns, FunctionTheorems, FiniteSetTheorems,
        TLAPS

-----------------------------------------------------------------------------
(* Part A: SessionCleanup.                                                  *)


Works == {"writing", "full", "locked", "again"}

\* Deleted is deleted for good: no use, no open turn, no file.
DeletedIsGone ==
  \A s \in deleted : s \in Session /\ ~stored[s].there /\ ~stored[s].open /\ users[s] = {}

\* A use lock is held by a process that works with the session, and the
\* session is there.
UseMeansThere ==
  /\ \A s \in Session : \A p \in users[s] :
       client[p].own = s /\ client[p].at \notin {"away", "loaded"} /\ stored[s].there
  /\ \A p \in Client : client[p].at = "using" => p \in users[client[p].own]

\* A journal lock is held for the own session or for the one that is tried.
LockMeansWork ==
  /\ \A s \in Session : \A p \in Client :
       holder[s] = p => \/ client[p].at \in Works /\ client[p].own = s
                        \/ client[p].at = "locked" /\ client[p].tried = s
  /\ \A p \in Client :
       /\ client[p].at \in Works => holder[client[p].own] = p /\ client[p].own \notin deleted
       /\ client[p].at = "locked" =>
            client[p].tried \in Session /\ holder[client[p].tried] = p
            /\ client[p].tried # client[p].own

OwnIsKnown ==
  \A p \in Client :
    /\ client[p].at # "away" => client[p].own \in Session
    /\ client[p].own \notin client[p].left

CleanupInv == CleanupTypeOK /\ DeletedIsGone /\ UseMeansThere /\ LockMeansWork /\ OwnIsKnown

Activity == {"away", "loaded", "using", "writing", "full", "locked", "again"}
ClientState ==
  [at : Activity, own : Session \cup {NoSession}, open : BOOLEAN,
   tried : Session \cup {NoSession}, left : SUBSET Session]

LEMMA CleanupInitially == CleanupInit => CleanupInv
BY CleanupAssumption
   DEF CleanupInit, CleanupInv, CleanupTypeOK, DeletedIsGone, UseMeansThere, LockMeansWork,
       OwnIsKnown, Away, Works

LEMMA CleanupStep == CleanupInv /\ [CleanupNext]_cleanupVars => CleanupInv'
<1> SUFFICES ASSUME CleanupInv, [CleanupNext]_cleanupVars PROVE CleanupInv'
  OBVIOUS
<1> USE CleanupAssumption DEF CleanupInv, Free, Place, Unlock, Works
<1>1. ASSUME NEW p \in Client, NEW s \in Session, Load(p, s) PROVE CleanupInv'
  <2> USE <1>1 DEF Load, Away
  <2>1. CleanupTypeOK'
    BY DEF CleanupTypeOK
  <2>2. DeletedIsGone' /\ UseMeansThere'
    BY DEF DeletedIsGone, UseMeansThere, CleanupTypeOK
  <2>3. LockMeansWork' /\ OwnIsKnown'
    BY DEF LockMeansWork, OwnIsKnown, CleanupTypeOK
  <2> QED BY <2>1, <2>2, <2>3
<1>2. ASSUME NEW p \in Client, AcquireUse(p) PROVE CleanupInv'
  <2> DEFINE s == client[p].own
  <2>0. s \in Session /\ client[p].at = "loaded" /\ Free(s) /\ UNCHANGED <<stored, holder, deleted>>
    BY <1>2 DEF AcquireUse, OwnIsKnown
  <2>1. CASE stored[s].there
    <3>1. /\ client' = [client EXCEPT ![p].at = "using"]
          /\ users' = [users EXCEPT ![s] = @ \cup {p}]
      BY <1>2, <2>1 DEF AcquireUse
    <3>2. CleanupTypeOK'
      BY SMTT(40), <2>0, <3>1 DEF CleanupTypeOK
    <3>3. DeletedIsGone'
      BY <2>0, <2>1, <3>1 DEF DeletedIsGone, CleanupTypeOK
    <3>4. UseMeansThere'
      BY <2>0, <2>1, <3>1 DEF UseMeansThere, CleanupTypeOK
    <3>5. LockMeansWork' /\ OwnIsKnown'
      BY <2>0, <3>1 DEF LockMeansWork, OwnIsKnown, CleanupTypeOK
    <3> QED BY <3>2, <3>3, <3>4, <3>5
  <2>2. CASE ~stored[s].there
    <3>1. client' = [client EXCEPT ![p] = Away] /\ users' = users
      BY <1>2, <2>2 DEF AcquireUse
    <3>2. CleanupTypeOK'
      BY <2>0, <3>1 DEF CleanupTypeOK, Away
    <3>3. DeletedIsGone' /\ UseMeansThere'
      BY <2>0, <3>1 DEF DeletedIsGone, UseMeansThere, CleanupTypeOK, Away
    <3>4. LockMeansWork' /\ OwnIsKnown'
      BY <2>0, <3>1 DEF LockMeansWork, OwnIsKnown, CleanupTypeOK, Away
    <3> QED BY <3>2, <3>3, <3>4
  <2> QED BY <2>1, <2>2
<1>3. ASSUME NEW p \in Client, NEW s \in Session, Create(p, s) PROVE CleanupInv'
  <2> USE <1>3 DEF Create, Away
  <2>1. CleanupTypeOK'
    BY DEF CleanupTypeOK
  <2>2. DeletedIsGone' /\ UseMeansThere'
    BY DEF DeletedIsGone, UseMeansThere, CleanupTypeOK
  <2>3. LockMeansWork' /\ OwnIsKnown'
    BY SMTT(40) DEF LockMeansWork, OwnIsKnown, CleanupTypeOK
  <2> QED BY <2>1, <2>2, <2>3
<1>4. ASSUME NEW p \in Client, ReleaseUse(p) PROVE CleanupInv'
  <2>0. client[p].own \in Session
    BY <1>4 DEF ReleaseUse, OwnIsKnown
  <2> USE <1>4, <2>0 DEF ReleaseUse, Away
  <2>1. CleanupTypeOK'
    BY DEF CleanupTypeOK
  <2>2. DeletedIsGone' /\ UseMeansThere'
    BY DEF DeletedIsGone, UseMeansThere, CleanupTypeOK
  <2>3. LockMeansWork' /\ OwnIsKnown'
    BY DEF LockMeansWork, OwnIsKnown, CleanupTypeOK
  <2> QED BY <2>1, <2>2, <2>3
<1>5. ASSUME NEW p \in Client, NEW open \in BOOLEAN, BeginSave(p, open) PROVE CleanupInv'
  <2> DEFINE s == client[p].own
  <2>0. s \in Session /\ s \notin deleted /\ client[p].at = "using" /\ Free(s)
    BY <1>5 DEF BeginSave, OwnIsKnown, UseMeansThere, DeletedIsGone
  <2>1. /\ client' = [client EXCEPT ![p] = [@ EXCEPT !.at = "writing", !.open = open]]
        /\ holder' = [holder EXCEPT ![s] = p] /\ UNCHANGED <<stored, users, deleted>>
    BY <1>5 DEF BeginSave, CleanupTypeOK
  <2>2. CleanupTypeOK'
    <3>1. client \in [Client -> ClientState] /\ client[p] \in ClientState
      BY DEF CleanupTypeOK, ClientState, Activity
    <3>2. PICK x : x = [client[p] EXCEPT !.at = "writing", !.open = open]
      OBVIOUS
    <3>3. x \in ClientState
      BY <3>1, <3>2 DEF ClientState, Activity
    <3>4. client' = [client EXCEPT ![p] = x]
      BY <2>1, <3>2
    <3>5. client' \in [Client -> ClientState]
      BY <3>1, <3>3, <3>4
    <3>6. holder' \in [Session -> Client \cup {Nobody}]
      BY <2>0, <2>1 DEF CleanupTypeOK
    <3> QED BY <2>1, <3>5, <3>6 DEF CleanupTypeOK, ClientState, Activity
  <2>3. DeletedIsGone' /\ UseMeansThere'
    BY <2>0, <2>1 DEF DeletedIsGone, UseMeansThere, CleanupTypeOK
  <2>4. LockMeansWork' /\ OwnIsKnown'
    BY <2>0, <2>1 DEF LockMeansWork, OwnIsKnown, CleanupTypeOK
  <2> QED BY <2>2, <2>3, <2>4
<1>6. ASSUME NEW p \in Client, Saved(p) PROVE CleanupInv'
  <2> DEFINE s == client[p].own
             at == IF p \in users[s] THEN "using" ELSE "loaded"
             file == [there |-> TRUE, open |-> client[p].open, old |-> FALSE]
  <2>0. s \in Session /\ s \notin deleted /\ client[p].at \in {"writing", "again"} /\ holder[s] = p
    BY <1>6 DEF Saved, OwnIsKnown, LockMeansWork
  <2>1. /\ client' = [client EXCEPT ![p] = [@ EXCEPT !.at = at, !.left = {}]]
        /\ stored' = [stored EXCEPT ![s] = file]
        /\ holder' = [holder EXCEPT ![s] = Nobody] /\ UNCHANGED <<users, deleted>>
    BY <1>6 DEF Saved, CleanupTypeOK
  <2>2. CleanupTypeOK'
    <3>1. stored' \in [Session -> [there : BOOLEAN, open : BOOLEAN, old : BOOLEAN]]
      BY <2>0, <2>1 DEF CleanupTypeOK
    <3>0. client[p] \in ClientState
      BY DEF CleanupTypeOK, ClientState, Activity
    <3>2. [client[p] EXCEPT !.at = at, !.left = {}] \in ClientState
      BY <3>0 DEF ClientState, Activity
    <3>3. client' \in [Client -> ClientState]
      BY <2>1, <3>2 DEF CleanupTypeOK, ClientState, Activity
    <3> QED BY <2>0, <2>1, <3>1, <3>3 DEF CleanupTypeOK, ClientState, Activity
  <2>3. DeletedIsGone'
    BY <2>0, <2>1 DEF DeletedIsGone, CleanupTypeOK
  <2>4. UseMeansThere'
    BY <2>0, <2>1 DEF UseMeansThere, CleanupTypeOK
  <2>5. LockMeansWork' /\ OwnIsKnown'
    BY <2>0, <2>1 DEF LockMeansWork, OwnIsKnown, CleanupTypeOK
  <2> QED BY <2>2, <2>3, <2>4, <2>5
<1>7. ASSUME NEW s \in Session, Age(s) PROVE CleanupInv'
  <2>1. stored' = [stored EXCEPT ![s].old = TRUE] /\ UNCHANGED <<holder, users, client, deleted>>
    BY <1>7 DEF Age
  <2>2. CleanupTypeOK'
    <3> DEFINE Kind == [there : BOOLEAN, open : BOOLEAN, old : BOOLEAN]
    <3>1. stored \in [Session -> Kind] /\ stored[s] \in Kind
      BY DEF CleanupTypeOK
    <3>2. PICK x : x = [stored[s] EXCEPT !.old = TRUE]
      OBVIOUS
    <3>3. x \in Kind
      BY <3>1, <3>2
    <3>4. stored' = [stored EXCEPT ![s] = x]
      BY <2>1, <3>2
    <3> HIDE DEF Kind
    <3>5. stored' \in [Session -> Kind]
      BY <3>1, <3>3, <3>4
    <3> QED BY <2>1, <3>5 DEF CleanupTypeOK, Kind
  <2>3. DeletedIsGone' /\ UseMeansThere'
    BY <2>1 DEF DeletedIsGone, UseMeansThere, CleanupTypeOK
  <2>4. LockMeansWork' /\ OwnIsKnown'
    BY <2>1 DEF LockMeansWork, OwnIsKnown
  <2> QED BY <2>2, <2>3, <2>4
<1>8. ASSUME NEW p \in Client, DiskFull(p) PROVE CleanupInv'
  <2> DEFINE left == IF client[p].at = "writing" THEN Candidates(p) ELSE client[p].left
  <2>1. /\ client' = [client EXCEPT ![p] = [@ EXCEPT !.at = "full", !.left = left]]
        /\ client[p].at \in {"writing", "again"} /\ UNCHANGED <<stored, holder, users, deleted>>
    BY <1>8 DEF DiskFull, CleanupTypeOK
  <2>2. left \subseteq Session /\ client[p].own \notin left
    BY DEF Candidates, CleanupTypeOK, OwnIsKnown
  <2> HIDE DEF left
  <2>3. CleanupTypeOK'
    <3>0. client[p] \in ClientState
      BY DEF CleanupTypeOK, ClientState, Activity
    <3>1. [client[p] EXCEPT !.at = "full", !.left = left] \in ClientState
      BY <2>2, <3>0 DEF ClientState, Activity
    <3> QED BY <2>1, <3>1 DEF CleanupTypeOK, ClientState, Activity
  <2>4. DeletedIsGone' /\ UseMeansThere'
    BY <2>1 DEF DeletedIsGone, UseMeansThere, CleanupTypeOK
  <2>5. LockMeansWork' /\ OwnIsKnown'
    BY <2>1, <2>2 DEF LockMeansWork, OwnIsKnown, CleanupTypeOK
  <2> QED BY <2>3, <2>4, <2>5
<1>9. ASSUME NEW p \in Client, NEW s \in Session, TryNext(p, s) PROVE CleanupInv'
  <2>0. client[p].at = "full" /\ s \in client[p].left /\ UNCHANGED <<stored, users, deleted>>
    BY <1>9 DEF TryNext
  <2>1. CASE Free(s)
    <3> DEFINE c == [client[p] EXCEPT !.at = "locked", !.tried = s, !.left = @ \ {s}]
    <3>1. /\ holder' = [holder EXCEPT ![s] = p]
          /\ client' = [client EXCEPT ![p] = c]
      BY <1>9, <2>1 DEF TryNext, CleanupTypeOK
    <3>2. CleanupTypeOK'
      <4>1. c \in ClientState
        <5>0. client[p] \in ClientState
          BY DEF CleanupTypeOK, ClientState, Activity
        <5>1. client[p].left \ {s} \in SUBSET Session
          BY DEF CleanupTypeOK
        <5> QED BY <5>0, <5>1 DEF ClientState, Activity
      <4> HIDE DEF c
      <4>2. client' \in [Client -> ClientState]
        <5>1. client \in [Client -> ClientState]
          BY DEF CleanupTypeOK, ClientState, Activity
        <5> QED BY <3>1, <4>1, <5>1
      <4>3. holder' \in [Session -> Client \cup {Nobody}]
        BY <3>1 DEF CleanupTypeOK
      <4> QED BY <2>0, <4>2, <4>3 DEF CleanupTypeOK, ClientState, Activity
    <3>3. DeletedIsGone' /\ UseMeansThere'
      BY <2>0, <3>1 DEF DeletedIsGone, UseMeansThere, CleanupTypeOK
    <3>4. s # client[p].own /\ client[p].own \in Session
      BY <2>0 DEF OwnIsKnown
    <3>5. ASSUME NEW t \in Session, NEW q \in Client, holder'[t] = q
          PROVE  \/ client'[q].at \in Works /\ client'[q].own = t
                 \/ client'[q].at = "locked" /\ client'[q].tried = t
      BY <2>0, <2>1, <3>1, <3>5 DEF LockMeansWork, CleanupTypeOK
    <3>6. ASSUME NEW q \in Client
          PROVE  /\ client'[q].at \in Works =>
                      holder'[client'[q].own] = q /\ client'[q].own \notin deleted'
                 /\ client'[q].at = "locked" =>
                      /\ client'[q].tried \in Session /\ holder'[client'[q].tried] = q
                      /\ client'[q].tried # client'[q].own
      <4>1. CASE q = p
        BY <2>0, <2>1, <3>1, <3>4, <4>1 DEF LockMeansWork, CleanupTypeOK
      <4>2. CASE q # p
        BY <2>0, <2>1, <3>1, <4>2 DEF LockMeansWork, CleanupTypeOK
      <4> QED BY <4>1, <4>2
    <3>7. LockMeansWork'
      BY <3>5, <3>6 DEF LockMeansWork
    <3>8. ASSUME NEW q \in Client
          PROVE  /\ client'[q].at # "away" => client'[q].own \in Session
                 /\ client'[q].own \notin client'[q].left
      <4>1. CASE q = p
        <5>1. client'[q].own = client[q].own /\ client'[q].left = client[q].left \ {s}
          BY <3>1, <4>1 DEF CleanupTypeOK
        <5> QED BY <3>4, <4>1, <5>1 DEF OwnIsKnown
      <4>2. CASE q # p
        BY <3>1, <4>2 DEF OwnIsKnown, CleanupTypeOK
      <4> QED BY <4>1, <4>2
    <3> QED BY <3>2, <3>3, <3>7, <3>8 DEF OwnIsKnown
  <2>2. CASE ~Free(s)
    <3>1. client' = [client EXCEPT ![p].left = @ \ {s}] /\ holder' = holder
      BY <1>9, <2>2 DEF TryNext
    <3>2. CleanupTypeOK'
      BY SMTT(40), <2>0, <3>1 DEF CleanupTypeOK
    <3>3. DeletedIsGone' /\ UseMeansThere'
      BY <2>0, <3>1 DEF DeletedIsGone, UseMeansThere, CleanupTypeOK
    <3>4. LockMeansWork' /\ OwnIsKnown'
      BY <2>0, <3>1 DEF LockMeansWork, OwnIsKnown, CleanupTypeOK
    <3> QED BY <3>2, <3>3, <3>4
  <2> QED BY <2>1, <2>2
<1>10. ASSUME NEW p \in Client, Delete(p) PROVE CleanupInv'
  <2> DEFINE s == client[p].tried
  <2>0. s \in Session /\ holder[s] = p /\ s # client[p].own
    BY <1>10 DEF Delete, LockMeansWork
  <2>1. CASE stored[s].there /\ stored[s].old /\ ~Protected(s)
    <3>1. /\ stored' = [stored EXCEPT ![s].there = FALSE]
          /\ client' = [client EXCEPT ![p].at = "again", ![p].tried = NoSession]
          /\ holder' = [holder EXCEPT ![s] = Nobody] /\ users' = users
          /\ deleted' = deleted \cup {s} /\ users[s] = {} /\ ~stored[s].open
      <4>1. /\ stored' = [stored EXCEPT ![s].there = FALSE]
            /\ client' = [client EXCEPT ![p].at = "again", ![p].tried = NoSession]
            /\ holder' = [holder EXCEPT ![s] = Nobody] /\ users' = users
            /\ users[s] = {} /\ ~stored[s].open
        BY <1>10, <2>1 DEF Delete, Protected
      <4>2. stored'[s] # stored[s]
        BY <2>0, <2>1, <4>1 DEF CleanupTypeOK
      <4> QED BY <1>10, <4>1, <4>2 DEF Delete
    <3>2. CleanupTypeOK'
      <4>1. [client[p] EXCEPT !.at = "again", !.tried = NoSession] \in ClientState
        <5>1. client[p] \in ClientState
          BY DEF CleanupTypeOK, ClientState, Activity
        <5> QED BY <5>1 DEF ClientState, Activity
      <4>2. stored' \in [Session -> [there : BOOLEAN, open : BOOLEAN, old : BOOLEAN]]
        BY <2>0, <3>1 DEF CleanupTypeOK
      <4>3. client' \in [Client -> ClientState]
        BY <3>1, <4>1 DEF CleanupTypeOK, ClientState, Activity
      <4> QED BY <2>0, <3>1, <4>2, <4>3 DEF CleanupTypeOK, ClientState, Activity
    <3>3. DeletedIsGone'
      BY <2>0, <3>1 DEF DeletedIsGone, CleanupTypeOK
    <3>4. UseMeansThere'
      BY <2>0, <3>1, <1>10 DEF UseMeansThere, CleanupTypeOK, Delete
    <3>5. LockMeansWork'
      BY <2>0, <3>1, <1>10 DEF LockMeansWork, CleanupTypeOK, Delete
    <3>6. OwnIsKnown'
      BY <3>1, <1>10 DEF OwnIsKnown, CleanupTypeOK, Delete
    <3> QED BY <3>2, <3>3, <3>4, <3>5, <3>6
  <2>2. CASE ~(stored[s].there /\ stored[s].old /\ ~Protected(s))
    <3>1. /\ client' = [client EXCEPT ![p].at = "full", ![p].tried = NoSession]
          /\ holder' = [holder EXCEPT ![s] = Nobody]
          /\ UNCHANGED <<stored, users, deleted>>
      BY <1>10, <2>2 DEF Delete
    <3>2. CleanupTypeOK'
      BY <2>0, <3>1 DEF CleanupTypeOK
    <3>3. DeletedIsGone' /\ UseMeansThere'
      BY <3>1, <1>10 DEF DeletedIsGone, UseMeansThere, CleanupTypeOK, Delete
    <3>4. LockMeansWork' /\ OwnIsKnown'
      BY <2>0, <3>1, <1>10 DEF LockMeansWork, OwnIsKnown, CleanupTypeOK, Delete
    <3> QED BY <3>2, <3>3, <3>4
  <2> QED BY <2>1, <2>2
<1>11. ASSUME NEW p \in Client, GiveUp(p) PROVE CleanupInv'
  <2> DEFINE s == client[p].own
  <2>0. s \in Session /\ client[p].at = "full" /\ holder[s] = p
    BY <1>11 DEF GiveUp, OwnIsKnown, LockMeansWork
  <2>1. holder' = [holder EXCEPT ![s] = Nobody] /\ UNCHANGED <<stored, users, deleted>>
    BY <1>11 DEF GiveUp
  <2>2. CASE p \in users[s]
    <3>1. client' = [client EXCEPT ![p].at = "using"]
      BY <1>11, <2>2 DEF GiveUp
    <3>2. CleanupTypeOK'
      BY SMTT(40), <2>0, <2>1, <3>1 DEF CleanupTypeOK
    <3>3. DeletedIsGone' /\ UseMeansThere'
      BY <2>0, <2>1, <2>2, <3>1 DEF DeletedIsGone, UseMeansThere, CleanupTypeOK
    <3>4. LockMeansWork' /\ OwnIsKnown'
      BY <2>0, <2>1, <3>1 DEF LockMeansWork, OwnIsKnown, CleanupTypeOK
    <3> QED BY <3>2, <3>3, <3>4
  <2>3. CASE p \notin users[s]
    <3>1. client' = [client EXCEPT ![p] = Away]
      BY <1>11, <2>3 DEF GiveUp
    <3>2. CleanupTypeOK'
      BY <2>0, <2>1, <3>1 DEF CleanupTypeOK, Away
    <3>3. DeletedIsGone' /\ UseMeansThere'
      BY <2>0, <2>1, <2>3, <3>1 DEF DeletedIsGone, UseMeansThere, CleanupTypeOK, Away
    <3>4. LockMeansWork' /\ OwnIsKnown'
      BY <2>0, <2>1, <3>1 DEF LockMeansWork, OwnIsKnown, CleanupTypeOK, Away
    <3> QED BY <3>2, <3>3, <3>4
  <2> QED BY <2>2, <2>3
<1>12. ASSUME NEW p \in Client, DieClient(p) PROVE CleanupInv'
  <2>1. /\ client' = [client EXCEPT ![p] = Away]
        /\ holder' = [s \in Session |-> IF holder[s] = p THEN Nobody ELSE holder[s]]
        /\ users' = [s \in Session |-> users[s] \ {p}] /\ UNCHANGED <<stored, deleted>>
    BY <1>12 DEF DieClient
  <2>2. CleanupTypeOK'
    BY <2>1 DEF CleanupTypeOK, Away
  <2>3. DeletedIsGone'
    BY <2>1 DEF DeletedIsGone, CleanupTypeOK
  <2>5. ASSUME NEW s \in Session, NEW q \in users'[s]
        PROVE  client'[q].own = s /\ client'[q].at \notin {"away", "loaded"} /\ stored'[s].there
    <3>1. q \in users[s] /\ q # p /\ q \in Client
      BY <2>1, <2>5 DEF CleanupTypeOK
    <3>2. client'[q] = client[q]
      BY <2>1, <3>1 DEF CleanupTypeOK
    <3> QED BY <2>1, <3>1, <3>2 DEF UseMeansThere
  <2>6. ASSUME NEW q \in Client, client'[q].at = "using" PROVE q \in users'[client'[q].own]
    <3>1. q # p /\ client'[q] = client[q]
      BY <2>1, <2>6 DEF CleanupTypeOK, Away
    <3> QED BY <2>1, <2>6, <3>1 DEF CleanupTypeOK, UseMeansThere, OwnIsKnown
  <2>4. LockMeansWork' /\ OwnIsKnown'
    BY <2>1 DEF LockMeansWork, OwnIsKnown, CleanupTypeOK, Away
  <2> QED BY <2>2, <2>3, <2>4, <2>5, <2>6 DEF UseMeansThere
<1>13. CASE UNCHANGED cleanupVars
  BY <1>13 DEF cleanupVars, CleanupTypeOK, DeletedIsGone, UseMeansThere, LockMeansWork, OwnIsKnown
<1> QED
  BY <1>1, <1>2, <1>3, <1>4, <1>5, <1>6, <1>7, <1>8, <1>9, <1>10, <1>11, <1>12, <1>13
     DEF CleanupNext

LEMMA CleanupInvHolds == CleanupSpec => []CleanupInv
BY CleanupInitially, CleanupStep, PTL DEF CleanupSpec

\* Every variable of SessionCleanup keeps its type.
THEOREM CleanupTypeCorrect == CleanupSpec => []CleanupTypeOK
BY CleanupInvHolds, PTL DEF CleanupInv

\* A process in need of space leaves alone what another one works with, and
\* what is to be resumed, however the steps of its loading fall, for any
\* number of processes and sessions (_locked_session, acquire_use).
THEOREM UsedSessionStaysCorrect == CleanupSpec => []UsedSessionStays
<1>1. CleanupInv => UsedSessionStays
  <2> SUFFICES ASSUME CleanupInv PROVE UsedSessionStays
    OBVIOUS
  <2>1. \A s \in deleted : ~stored[s].open /\ users[s] = {}
    BY DEF CleanupInv, DeletedIsGone
  <2>2. ASSUME NEW p \in Client, client[p].at \notin {"away", "loaded"}
        PROVE  /\ holder[client[p].own] = p \/ client[p].at = "using"
               /\ stored[client[p].own].there \/ p \notin users[client[p].own]
    BY <2>2 DEF CleanupInv, CleanupTypeOK, UseMeansThere, LockMeansWork, OwnIsKnown, Works
  <2> QED BY <2>1, <2>2 DEF UsedSessionStays
<1> QED BY <1>1, CleanupInvHolds, PTL

-----------------------------------------------------------------------------
(* Part B: FileReview.                                                      *)


Text == [Part -> Value] \cup {Empty.text}
EntryRec == [id : 0..2, baseline : Text, snapshot : Text, existed : BOOLEAN,
             rejected : SUBSET (SUBSET Part), kept : SUBSET (SUBSET Part)]
CallRec == [at : {"plan", "ask", "write"}, file : File, before : Content, after : Content,
            version : Nat, turn : Nat]

EntryOK(e) ==
  /\ e \in EntryRec
  /\ e.rejected \subseteq HunksOf(e) /\ e.kept \subseteq HunksOf(e) /\ e.rejected \cap e.kept = {}
  /\ e.id = 0 => e = NoEntry
  /\ e # NoEntry => e.baseline # e.snapshot
  /\ ~e.existed => e.baseline = Empty.text

\* The view shows this version of the entry, or another one.
ViewOK(v, e) ==
  v.id # 0 /\ v.id = e.id =>
    v.baseline = e.baseline /\ v.snapshot = e.snapshot /\ v.existed = e.existed

\* The entry, the content on disk, the one the user agreed to, a foreign one.
FaithfulOK(e, d, a, g) ==
  /\ e = NoEntry => d = a /\ g = Missing
  /\ e # NoEntry => Rejected(e) = a
  /\ e # NoEntry /\ g = Missing => d = Expected(e)
  /\ e # NoEntry /\ g # Missing => d = g /\ d # Expected(e)

\* A call under way: its fingerprint, its turn and its consent.
CallOK(x, n, vs, ds, cs) ==
  \/ x = Idle
  \/ /\ x \in CallRec /\ x.turn <= n
     /\ x.version = vs[x.file] => ds[x.file] = x.before
     /\ x.version = 0 => x.before = Missing
     /\ x.at = "write" /\ x.turn = n /\ x.file \notin Internal => <<x.file, x.before, x.after>> \in cs

ApprovalOK(a, n, cs) == a.turn <= n /\ (a.turn = n => <<a.file, a.before, a.after>> \in cs)

CallsInv ==
  /\ version \in [File -> Nat \ {0}] /\ turn \in 1..MaxTurns
  /\ call \in [Call -> CallRec \cup {Idle}]
  /\ IsFiniteSet(approvals) /\ approvals \subseteq CallRec
  /\ \A a \in approvals : ApprovalOK(a, turn, consent)
  /\ \A c \in Call : CallOK(call[c], turn, version, disk, consent)

FilesInv ==
  /\ disk \in [File -> Content] /\ agreed \in [File -> Content] /\ foreign \in [File -> Content]
  /\ entry \in [File -> EntryRec] /\ view \in [File -> EntryRec]
  /\ \A f \in File : EntryOK(entry[f]) /\ EntryOK(view[f]) /\ ViewOK(view[f], entry[f])
  /\ \A f \in File : FaithfulOK(entry[f], disk[f], agreed[f], foreign[f])

IInv == CallsInv /\ FilesInv /\ strange = FALSE

-----------------------------------------------------------------------------
(* 1. Texts and their hunks.                                               *)

LEMMA TextIs ==
  ASSUME NEW t \in Text
  PROVE  t \in [Part -> Value \cup {NoText}]
BY DEF Text, Empty

LEMMA SameText ==
  ASSUME NEW t \in Text, NEW u \in Text, \A p \in Part : t[p] = u[p]
  PROVE  t = u
<1>1. t \in [Part -> Value \cup {NoText}] /\ u \in [Part -> Value \cup {NoText}]
  BY TextIs
<1> QED BY <1>1

\* The hunks are sets of parts that differ, they cover these and share none.
LEMMA HunksAre ==
  ASSUME NEW old \in Text, NEW new \in Text
  PROVE  /\ Hunks(old, new) \subseteq SUBSET Part
         /\ \A p \in Part : p \notin UNION Hunks(old, new) => old[p] = new[p]
         /\ \A h, k \in Hunks(old, new), p \in Part : p \in h /\ p \in k => h = k
<1>1. CASE old = new
  BY <1>1 DEF Hunks
<1>2. CASE old # new /\ Empty.text \in {old, new}
  <2>1. Hunks(old, new) = {Part}
    BY <1>2 DEF Hunks
  <2> QED BY <2>1
<1>3. CASE old # new /\ Empty.text \notin {old, new}
  <2>1. Hunks(old, new) = {{p} : p \in {q \in Part : old[q] # new[q]}}
    BY <1>3 DEF Hunks
  <2> QED BY <2>1
<1> QED BY <1>1, <1>2, <1>3

\* Each decision on some hunks gives a text again.
LEMMA ReconstructIs ==
  ASSUME NEW old \in Text, NEW new \in Text, NEW hunks \in SUBSET Hunks(old, new)
  PROVE  /\ Reconstruct(old, new, hunks) \in Text
         /\ \A p \in Part :
              Reconstruct(old, new, hunks)[p] = IF p \in UNION hunks THEN old[p] ELSE new[p]
<1>0. old \in [Part -> Value \cup {NoText}] /\ new \in [Part -> Value \cup {NoText}]
  BY TextIs
<1>1. CASE old = new
  <2>1. Reconstruct(old, new, hunks) = new
    BY <1>0, <1>1 DEF Reconstruct
  <2> QED BY <1>1, <2>1
<1>2. CASE old # new /\ Empty.text \in {old, new}
  <2>1. hunks = {} \/ hunks = {Part}
    BY <1>2 DEF Hunks
  <2>2. CASE hunks = {}
    <3>1. Reconstruct(old, new, hunks) = new
      BY <1>0, <2>2 DEF Reconstruct
    <3> QED BY <2>2, <3>1
  <2>3. CASE hunks = {Part}
    <3>1. Reconstruct(old, new, hunks) = old
      BY <1>0, <2>3 DEF Reconstruct
    <3> QED BY <2>3, <3>1
  <2> QED BY <2>1, <2>2, <2>3
<1>3. CASE old # new /\ Empty.text \notin {old, new}
  <2>1. old \in [Part -> Value] /\ new \in [Part -> Value]
    BY <1>3 DEF Text
  <2>2. Reconstruct(old, new, hunks) \in [Part -> Value]
    BY <2>1 DEF Reconstruct
  <2>3. \A p \in Part : Reconstruct(old, new, hunks)[p] = IF p \in UNION hunks THEN old[p] ELSE new[p]
    BY DEF Reconstruct
  <2> QED BY <2>2, <2>3 DEF Text
<1> QED BY <1>1, <1>2, <1>3

LEMMA ReconstructAll ==
  ASSUME NEW old \in Text, NEW new \in Text
  PROVE  Reconstruct(old, new, Hunks(old, new)) = old
<1> DEFINE t == Reconstruct(old, new, Hunks(old, new))
<1>1. t \in Text /\ \A p \in Part : t[p] = IF p \in UNION Hunks(old, new) THEN old[p] ELSE new[p]
  BY ReconstructIs
<1>2. \A p \in Part : t[p] = old[p]
  BY <1>1, HunksAre
<1> HIDE DEF t
<1>3. t = old
  BY <1>1, <1>2, SameText
<1> QED BY <1>3 DEF t

LEMMA ReconstructNone ==
  ASSUME NEW old \in Text, NEW new \in Text
  PROVE  Reconstruct(old, new, {}) = new
<1>1. new \in [Part -> Value \cup {NoText}]
  BY TextIs
<1> QED BY <1>1 DEF Reconstruct

\* One hunk kept or restored beside others.
MovesAlone(old, new, hunk, hunks) ==
  /\ Reconstruct(new, Reconstruct(old, new, hunks), {hunk}) = Reconstruct(old, new, hunks \ {hunk})
  /\ Reconstruct(old, Reconstruct(old, new, hunks), {hunk}) = Reconstruct(old, new, hunks \cup {hunk})

LEMMA ReconstructOne ==
  ASSUME NEW old \in Text, NEW new \in Text, NEW hunk \in Hunks(old, new),
         NEW hunks \in SUBSET Hunks(old, new)
  PROVE  MovesAlone(old, new, hunk, hunks)
<1>1. /\ Hunks(old, new) \subseteq SUBSET Part
      /\ \A h, k \in Hunks(old, new), p \in Part : p \in h /\ p \in k => h = k
  BY HunksAre
<1>2. \A p \in Part : p \in UNION (hunks \ {hunk}) <=> p \in UNION hunks /\ p \notin hunk
  BY <1>1
<1>3. \A p \in Part : p \in UNION (hunks \cup {hunk}) <=> p \in UNION hunks \/ p \in hunk
  OBVIOUS
<1>4. \A p \in Part : p \in UNION {hunk} <=> p \in hunk
  OBVIOUS
<1>5. \A p \in Part : Reconstruct(old, new, hunks)[p] = IF p \in UNION hunks THEN old[p] ELSE new[p]
  BY DEF Reconstruct
<1>6. Reconstruct(new, Reconstruct(old, new, hunks), {hunk})
        = [p \in Part |-> IF p \in hunk THEN new[p] ELSE Reconstruct(old, new, hunks)[p]]
  BY <1>4 DEF Reconstruct
<1>7. Reconstruct(old, Reconstruct(old, new, hunks), {hunk})
        = [p \in Part |-> IF p \in hunk THEN old[p] ELSE Reconstruct(old, new, hunks)[p]]
  BY <1>4 DEF Reconstruct
<1>8. Reconstruct(old, new, hunks \ {hunk})
        = [p \in Part |-> IF p \in UNION hunks /\ p \notin hunk THEN old[p] ELSE new[p]]
  BY <1>2 DEF Reconstruct
<1>9. Reconstruct(old, new, hunks \cup {hunk})
        = [p \in Part |-> IF p \in UNION hunks \/ p \in hunk THEN old[p] ELSE new[p]]
  BY <1>3 DEF Reconstruct
<1> QED BY <1>5, <1>6, <1>7, <1>8, <1>9 DEF MovesAlone

-----------------------------------------------------------------------------
(* 2. The contents an entry stands for.                                    *)

LEMMA ContentIs ==
  /\ Missing \in Content /\ Empty \in Content /\ ~Missing.exists /\ Missing.text = Empty.text
  /\ \A t \in Text : [exists |-> TRUE, text |-> t] \in Content
  /\ \A d \in Content : /\ d.exists \in BOOLEAN /\ d.text \in Text
                        /\ ~d.exists => d = Missing
                        /\ d.exists => d = [exists |-> TRUE, text |-> d.text]
<1>1. Missing \in Content /\ Empty \in Content /\ ~Missing.exists /\ Missing.text = Empty.text
  BY DEF Content, Missing, Empty
<1>2. ASSUME NEW t \in Text PROVE [exists |-> TRUE, text |-> t] \in Content
  BY DEF Text, Content, Full, Empty
<1>3. ASSUME NEW d \in Content
      PROVE  /\ d.exists \in BOOLEAN /\ d.text \in Text
             /\ ~d.exists => d = Missing
             /\ d.exists => d = [exists |-> TRUE, text |-> d.text]
  <2>1. CASE d \in Full
    <3>1. PICK t \in Text : d = [exists |-> TRUE, text |-> t]
      BY <2>1 DEF Full, Text
    <3> QED BY <3>1
  <2>2. CASE d = Missing
    BY <2>2 DEF Missing, Empty, Text
  <2>3. CASE d = Empty
    BY <2>3 DEF Empty, Text
  <2> QED BY <2>1, <2>2, <2>3 DEF Content
<1> QED BY <1>1, <1>2, <1>3

LEMMA EmptyIsText == Empty.text \in Text
BY DEF Text

LEMMA NoEntryOK == EntryOK(NoEntry) /\ NoEntry.id = 0 /\ HunksOf(NoEntry) = {}
<1>1. NoEntry \in EntryRec
  BY EmptyIsText DEF NoEntry, EntryRec
<1>2. HunksOf(NoEntry) = {} /\ NoEntry.id = 0
  BY DEF NoEntry, HunksOf, Hunks
<1> QED BY <1>1, <1>2 DEF EntryOK, NoEntry

\* The content of a text that may be of a missing file: no hunk of it is new.
Side(e, hunks) ==
  [exists |-> e.existed \/ hunks # HunksOf(e), text |-> Reconstruct(e.baseline, e.snapshot, hunks)]

LEMMA SideIs ==
  ASSUME NEW e, EntryOK(e), NEW hunks \in SUBSET HunksOf(e)
  PROVE  /\ Side(e, hunks) \in Content
         /\ Side(e, hunks) = IF ~e.existed /\ hunks = HunksOf(e) THEN Missing
              ELSE [exists |-> TRUE, text |-> Reconstruct(e.baseline, e.snapshot, hunks)]
<1>0. e.existed \in BOOLEAN /\ e.baseline \in Text /\ e.snapshot \in Text
  BY DEF EntryOK, EntryRec
<1>1. CASE ~e.existed /\ hunks = HunksOf(e)
  <2>1. Reconstruct(e.baseline, e.snapshot, hunks) = Empty.text
    BY <1>0, <1>1, ReconstructAll DEF HunksOf, EntryOK
  <2>2. Side(e, hunks) = [exists |-> FALSE, text |-> Empty.text]
    BY <1>1, <2>1 DEF Side
  <2>3. Side(e, hunks) = Missing
    BY <2>2 DEF Missing, Empty
  <2> QED BY <1>1, <2>3, ContentIs
<1>2. CASE ~(~e.existed /\ hunks = HunksOf(e))
  <2>1. Side(e, hunks) = [exists |-> TRUE, text |-> Reconstruct(e.baseline, e.snapshot, hunks)]
    BY <1>0, <1>2 DEF Side
  <2>2. Reconstruct(e.baseline, e.snapshot, hunks) \in Text
    BY <1>0, ReconstructIs DEF HunksOf
  <2> QED BY <1>2, <2>1, <2>2, ContentIs
<1> QED BY <1>1, <1>2

LEMMA ExpectedIs ==
  ASSUME NEW e, EntryOK(e)
  PROVE  Expected(e) = Side(e, e.rejected) /\ Expected(e) \in Content
<1>1. e.rejected \in SUBSET HunksOf(e)
  BY DEF EntryOK
<1> QED BY <1>1, SideIs DEF Expected

LEMMA RejectedIs ==
  ASSUME NEW e, EntryOK(e)
  PROVE  Rejected(e) = Side(e, HunksOf(e) \ e.kept) /\ Rejected(e) \in Content
<1> DEFINE H == HunksOf(e) \ e.kept
           u == [e EXCEPT !.rejected = H]
<1>1. e \in EntryRec
  BY DEF EntryOK
<1>2. u.rejected = H /\ u.baseline = e.baseline /\ u.snapshot = e.snapshot /\ u.existed = e.existed
  BY <1>1 DEF EntryRec
<1>3. Rejected(e) = Expected(u)
  BY DEF Rejected
<1> HIDE DEF u
<1>4. HunksOf(u) = HunksOf(e)
  BY <1>2 DEF HunksOf
<1>5. Expected(u) = IF ~e.existed /\ H = HunksOf(e) THEN Missing
                    ELSE [exists |-> TRUE, text |-> Reconstruct(e.baseline, e.snapshot, H)]
  BY <1>2, <1>4 DEF Expected
<1>6. H \in SUBSET HunksOf(e)
  OBVIOUS
<1> QED BY <1>3, <1>5, <1>6, SideIs

\* A decision on one hunk: what the entry then is, and stands for.
Decided(e, hunk, reject) ==
  [e EXCEPT !.rejected = IF reject THEN @ \cup {hunk} ELSE @ \ {hunk},
            !.kept = IF reject THEN @ \ {hunk} ELSE @ \cup {hunk}]

DecidedOK(d, e, hunk, reject) ==
  /\ EntryOK(d) /\ d # NoEntry /\ HunksOf(d) = HunksOf(e)
  /\ d.id = e.id /\ d.baseline = e.baseline /\ d.snapshot = e.snapshot /\ d.existed = e.existed
  /\ d.kept = IF reject THEN e.kept \ {hunk} ELSE e.kept \cup {hunk}

LEMMA DecidedIs ==
  ASSUME NEW e, EntryOK(e), e # NoEntry, NEW hunk \in HunksOf(e), NEW reject \in BOOLEAN,
         NEW d, d = Decided(e, hunk, reject)
  PROVE  DecidedOK(d, e, hunk, reject)
<1>1. e \in EntryRec /\ e.id # 0
  BY DEF EntryOK
<1>2. /\ d.id = e.id /\ d.baseline = e.baseline /\ d.snapshot = e.snapshot /\ d.existed = e.existed
      /\ d.kept = IF reject THEN e.kept \ {hunk} ELSE e.kept \cup {hunk}
      /\ d.rejected = IF reject THEN e.rejected \cup {hunk} ELSE e.rejected \ {hunk}
      /\ DOMAIN d = DOMAIN e
  BY <1>1 DEF Decided, EntryRec
<1>3. HunksOf(e) \subseteq SUBSET Part
  BY <1>1, HunksAre DEF HunksOf, EntryRec
<1>4. d \in EntryRec
  <2> DEFINE R == IF reject THEN e.rejected \cup {hunk} ELSE e.rejected \ {hunk}
             K == IF reject THEN e.kept \ {hunk} ELSE e.kept \cup {hunk}
  <2>1. R \in SUBSET (SUBSET Part) /\ K \in SUBSET (SUBSET Part)
    BY <1>1, <1>3 DEF EntryRec
  <2>2. d = [e EXCEPT !.rejected = R, !.kept = K]
    BY DEF Decided
  <2> HIDE DEF R, K
  <2> QED BY <1>1, <2>1, <2>2 DEF EntryRec
<1>5. HunksOf(d) = HunksOf(e)
  BY <1>2 DEF HunksOf
<1>6. /\ d.rejected \subseteq HunksOf(d) /\ d.kept \subseteq HunksOf(d)
      /\ d.rejected \cap d.kept = {}
  BY <1>2, <1>5 DEF EntryOK
<1>7. d.id # 0 /\ d # NoEntry
  BY <1>1, <1>2, NoEntryOK
<1>8. d.baseline # d.snapshot /\ (~d.existed => d.baseline = Empty.text)
  BY <1>2 DEF EntryOK
<1>9. EntryOK(d)
  BY <1>4, <1>6, <1>7, <1>8 DEF EntryOK
<1> QED BY <1>2, <1>5, <1>7, <1>9 DEF DecidedOK

\* What the user has agreed to moves with their decision as the entry does.
AgreedTo(content, e, d, hunk, reject) ==
  CASE ~reject -> [exists |-> TRUE, text |-> Reconstruct(e.snapshot, content.text, {hunk})]
    [] reject /\ hunk \in e.kept ->
         [exists |-> e.existed \/ d.kept # {}, text |-> Reconstruct(e.baseline, content.text, {hunk})]
    [] OTHER -> content

LEMMA DecisionIsAgreed ==
  ASSUME NEW e, EntryOK(e), e # NoEntry, NEW hunk \in HunksOf(e), NEW reject \in BOOLEAN,
         NEW d, d = Decided(e, hunk, reject)
  PROVE  Rejected(d) = AgreedTo(Rejected(e), e, d, hunk, reject)
<1> DEFINE H == HunksOf(e)
<1>0. DecidedOK(d, e, hunk, reject)
  BY DecidedIs, Zenon
<1>1. /\ EntryOK(d) /\ HunksOf(d) = H
      /\ d.baseline = e.baseline /\ d.snapshot = e.snapshot /\ d.existed = e.existed
      /\ d.kept = IF reject THEN e.kept \ {hunk} ELSE e.kept \cup {hunk}
  BY <1>0 DEF DecidedOK
<1>2. e.baseline \in Text /\ e.snapshot \in Text /\ e.existed \in BOOLEAN /\ e.kept \subseteq H
  BY DEF EntryOK, EntryRec
<1>3. Rejected(e).text = Reconstruct(e.baseline, e.snapshot, H \ e.kept)
  BY RejectedIs DEF Side
<1>4. Rejected(d) = Side(d, H \ d.kept)
  BY <1>1, RejectedIs
<1>5. Rejected(d) = [exists |-> e.existed \/ H \ d.kept # H,
                     text |-> Reconstruct(e.baseline, e.snapshot, H \ d.kept)]
  BY <1>1, <1>4 DEF Side
<1>6. H \ d.kept # H <=> d.kept # {}
  BY <1>1, <1>2
<1>7. CASE ~reject
  <2>0. /\ H \ e.kept \in SUBSET Hunks(e.baseline, e.snapshot)
        /\ hunk \in Hunks(e.baseline, e.snapshot)
    BY DEF HunksOf
  <2>1. H \ d.kept = (H \ e.kept) \ {hunk} /\ d.kept # {}
    BY <1>1, <1>7
  <2>2. Reconstruct(e.snapshot, Reconstruct(e.baseline, e.snapshot, H \ e.kept), {hunk})
          = Reconstruct(e.baseline, e.snapshot, (H \ e.kept) \ {hunk})
    <3>1. MovesAlone(e.baseline, e.snapshot, hunk, H \ e.kept)
      BY <1>2, <2>0, ReconstructOne
    <3> QED BY <3>1 DEF MovesAlone
  <2>3. Rejected(d) = [exists |-> TRUE, text |-> Reconstruct(e.snapshot, Rejected(e).text, {hunk})]
    BY <1>2, <1>3, <1>5, <1>6, <2>1, <2>2
  <2> QED BY <1>7, <2>3 DEF AgreedTo
<1>8. CASE reject /\ hunk \in e.kept
  <2>0. /\ H \ e.kept \in SUBSET Hunks(e.baseline, e.snapshot)
        /\ hunk \in Hunks(e.baseline, e.snapshot)
    BY DEF HunksOf
  <2>1. H \ d.kept = (H \ e.kept) \cup {hunk}
    BY <1>1, <1>2, <1>8
  <2>2. Reconstruct(e.baseline, Reconstruct(e.baseline, e.snapshot, H \ e.kept), {hunk})
          = Reconstruct(e.baseline, e.snapshot, (H \ e.kept) \cup {hunk})
    <3>1. MovesAlone(e.baseline, e.snapshot, hunk, H \ e.kept)
      BY <1>2, <2>0, ReconstructOne
    <3> QED BY <3>1 DEF MovesAlone
  <2>3. Rejected(d) = [exists |-> e.existed \/ d.kept # {},
                       text |-> Reconstruct(e.baseline, Rejected(e).text, {hunk})]
    BY <1>3, <1>5, <1>6, <2>1, <2>2
  <2> QED BY <1>8, <2>3 DEF AgreedTo
<1>9. CASE reject /\ hunk \notin e.kept
  <2>1. d.kept = e.kept
    BY <1>1, <1>9
  <2>2. Rejected(e) = [exists |-> e.existed \/ H \ e.kept # H,
                       text |-> Reconstruct(e.baseline, e.snapshot, H \ e.kept)]
    BY RejectedIs DEF Side
  <2>3. Rejected(d) = Rejected(e)
    BY <1>5, <2>1, <2>2
  <2> QED BY <1>9, <2>3 DEF AgreedTo
<1> QED BY <1>7, <1>8, <1>9

-----------------------------------------------------------------------------
(* 3. Calls, approvals and fingerprints.                                   *)

LEMMA CallIs ==
  ASSUME CallsInv, NEW c \in Call
  PROVE  /\ Idle.at = "idle"
         /\ call[c] = Idle \/ call[c] \in CallRec
         /\ call[c].at # "idle" => call[c] \in CallRec /\ call[c] # Idle
<1>1. Idle.at = "idle"
  BY DEF Idle
<1> QED BY <1>1 DEF CallsInv

LEMMA FiniteVersions ==
  ASSUME CallsInv, NEW f \in File
  PROVE  IsFiniteSet({version[f]} \cup {a.version : a \in approvals} \cup {call[c].version : c \in Call})
<1>1. IsFiniteSet({a.version : a \in approvals})
  <2> DEFINE T == {a.version : a \in approvals}
             g == [a \in approvals |-> a.version]
  <2>1. g \in Surjection(approvals, T)
    BY DEF Surjection
  <2> QED BY <2>1, FS_Surjection DEF CallsInv
<1>2. IsFiniteSet({call[c].version : c \in Call})
  <2> DEFINE T == {call[c].version : c \in Call}
             g == [c \in Call |-> call[c].version]
  <2>1. g \in Surjection(Call, T)
    BY DEF Surjection
  <2> QED BY <2>1, FS_Surjection, FileAssumption
<1>3. IsFiniteSet({version[f]})
  BY FS_Singleton
<1>4. IsFiniteSet({version[f]} \cup {a.version : a \in approvals})
  BY <1>1, <1>3, FS_Union
<1> QED BY <1>2, <1>4, FS_Union

\* A set of n elements leaves out one of n + 1 numbers.
LEMMA Fresh ==
  ASSUME NEW S, IsFiniteSet(S)
  PROVE  \E v \in 1..(Cardinality(S) + 1) : v \notin S
<1> DEFINE n == Cardinality(S)
<1>1. n \in Nat
  BY FS_CardinalityType
<1> HIDE DEF n
<1>2. IsFiniteSet(1..(n + 1)) /\ Cardinality(1..(n + 1)) = n + 1
  BY <1>1, FS_Interval
<1>3. SUFFICES ASSUME 1..(n + 1) \subseteq S PROVE FALSE
  BY DEF n
<1>4. Cardinality(1..(n + 1)) <= n
  BY <1>3, FS_Subset DEF n
<1> QED BY <1>1, <1>2, <1>4

\* The file has the content, and a fingerprint that no call under way holds.
LEMMA PutIs ==
  ASSUME CallsInv, FilesInv, NEW f \in File, NEW content \in Content, Put(f, content)
  PROVE  /\ disk' \in [File -> Content] /\ disk'[f] = content
         /\ \A g \in File : g # f => disk'[g] = disk[g] /\ version'[g] = version[g]
         /\ version' \in [File -> Nat \ {0}]
         /\ \A c \in Call : version'[f] # call[c].version
<1> DEFINE known == {version[f]} \cup {a.version : a \in approvals} \cup {call[c].version : c \in Call}
           v == CHOOSE w \in 1..(Cardinality(known) + 1) : w \notin known
<1>1. IsFiniteSet(known)
  BY FiniteVersions
<1>2. v \in 1..(Cardinality(known) + 1) /\ v \notin known
  <2> HIDE DEF known
  <2> QED BY <1>1, Fresh
<1>3. v \in Nat \ {0}
  <2>1. Cardinality(known) \in Nat
    BY <1>1, FS_CardinalityType
  <2> HIDE DEF known, v
  <2> QED BY <1>2, <2>1
<1>4. \A c \in Call : v # call[c].version
  <2> HIDE DEF v
  <2> QED BY <1>2
<1>5. version' = [version EXCEPT ![f] = v] /\ disk' = [disk EXCEPT ![f] = content]
  BY DEF Put
<1> HIDE DEF v, known
<1> QED BY <1>3, <1>4, <1>5 DEF CallsInv, FilesInv

\* A change of a file leaves the other calls right, whatever the one becomes.
LEMMA CallsAfterPut ==
  ASSUME CallsInv, FilesInv, NEW f \in File, NEW content \in Content, Put(f, content),
         UNCHANGED <<turn, approvals, consent>>, call' \in [Call -> CallRec \cup {Idle}],
         \A c \in Call : call'[c] \in {call[c], Idle}
  PROVE  CallsInv'
<1>1. /\ \A g \in File : g # f => disk'[g] = disk[g] /\ version'[g] = version[g]
      /\ version' \in [File -> Nat \ {0}]
      /\ \A c \in Call : version'[f] # call[c].version
  BY PutIs
<1>2. ASSUME NEW c \in Call PROVE CallOK(call'[c], turn, version', disk', consent)
  <2>1. CASE call'[c] = Idle
    BY <2>1 DEF CallOK
  <2>2. CASE call'[c] = call[c] /\ call[c] # Idle
    <3>1. PICK x : x = call[c]
      OBVIOUS
    <3>2. CallOK(x, turn, version, disk, consent) /\ x # Idle /\ x.version # version'[f]
      BY <1>1, <2>2, <3>1 DEF CallsInv
    <3>3. x.file \in File
      BY <3>2 DEF CallOK, CallRec
    <3>4. x.version = version'[x.file] => disk'[x.file] = x.before
      BY <1>1, <3>2, <3>3 DEF CallOK
    <3>5. CallOK(x, turn, version', disk', consent)
      BY <3>2, <3>4 DEF CallOK
    <3> QED BY <2>2, <3>1, <3>5
  <2> QED BY <2>1, <2>2
<1> QED BY <1>1, <1>2 DEF CallsInv

LEMMA IdleCalls ==
  ASSUME CallsInv, NEW c \in Call, call' = [call EXCEPT ![c] = Idle]
  PROVE  call' \in [Call -> CallRec \cup {Idle}] /\ \A b \in Call : call'[b] \in {call[b], Idle}
BY DEF CallsInv

\* Without a change of a file: one call becomes x, and that is right.
LEMMA CallsAfterCall ==
  ASSUME CallsInv, NEW c \in Call, NEW x \in CallRec \cup {Idle}, NEW cs,
         UNCHANGED <<version, disk, turn>>, call' = [call EXCEPT ![c] = x],
         consent' = cs, consent \subseteq cs, CallOK(x, turn, version, disk, cs),
         IsFiniteSet(approvals'), approvals' \subseteq CallRec,
         \A a \in approvals' : ApprovalOK(a, turn, cs)
  PROVE  CallsInv'
<1>1. ASSUME NEW b \in Call PROVE CallOK(call'[b], turn, version, disk, cs)
  <2>1. CASE b = c
    BY <2>1 DEF CallsInv
  <2>2. CASE b # c
    <3>1. call'[b] = call[b]
      BY <2>2 DEF CallsInv
    <3>2. PICK y : y = call[b]
      OBVIOUS
    <3>3. CallOK(y, turn, version, disk, consent)
      BY <3>2 DEF CallsInv
    <3>4. CallOK(y, turn, version, disk, cs)
      BY <3>3 DEF CallOK
    <3> QED BY <3>1, <3>2, <3>4
  <2> QED BY <2>1, <2>2
<1>2. call' \in [Call -> CallRec \cup {Idle}]
  BY DEF CallsInv
<1> QED BY <1>1, <1>2 DEF CallsInv

LEMMA PlanCalls ==
  ASSUME CallsInv, FilesInv, NEW c \in Call, NEW f \in File, NEW after \in Content, Plan(c, f, after)
  PROVE  CallsInv'
<1> DEFINE x == [at |-> "plan", file |-> f, before |-> disk[f], after |-> after,
                 version |-> Fingerprint(f), turn |-> turn]
<1>1. disk[f] \in Content /\ version[f] \in Nat \ {0} /\ turn \in Nat
  BY FileAssumption DEF FilesInv, CallsInv
<1>2. /\ Fingerprint(f) \in Nat
      /\ Fingerprint(f) = version[f] => disk[f] = disk[f]
      /\ Fingerprint(f) = 0 => disk[f] = Missing
  BY <1>1, ContentIs DEF Fingerprint
<1>3. x \in CallRec
  BY <1>1, <1>2 DEF CallRec
<1>4. CallOK(x, turn, version, disk, consent)
  BY <1>1, <1>2, <1>3 DEF CallOK
<1>5. call' = [call EXCEPT ![c] = x] /\ UNCHANGED <<version, disk, turn, approvals, consent>>
  BY DEF Plan
<1> HIDE DEF x
<1>6. consent' = consent /\ consent \subseteq consent /\ IsFiniteSet(approvals') /\ approvals' \subseteq CallRec
      /\ \A a \in approvals' : ApprovalOK(a, turn, consent)
  BY <1>5 DEF CallsInv
<1> QED BY <1>3, <1>4, <1>5, <1>6, CallsAfterCall

LEMMA AuthorizeCalls ==
  ASSUME CallsInv, FilesInv, NEW c \in Call, Authorize(c)
  PROVE  CallsInv'
<1> DEFINE valid == {a \in approvals : a.turn = call[c].turn}
           place == IF call[c].file \in Internal \/ Proposal(c) \in valid THEN "write" ELSE "ask"
           x == [call[c] EXCEPT !.at = place]
<1>1. call[c] \in CallRec /\ call[c] # Idle /\ CallOK(call[c], turn, version, disk, consent)
  BY CallIs DEF Authorize, CallsInv
<1>2. x \in CallRec /\ x.at = place
  BY <1>1 DEF CallRec
<1>3. /\ x.file = call[c].file /\ x.before = call[c].before /\ x.after = call[c].after
      /\ x.version = call[c].version /\ x.turn = call[c].turn
  BY <1>1 DEF CallRec
<1>4. /\ Proposal(c).file = call[c].file /\ Proposal(c).before = call[c].before
      /\ Proposal(c).after = call[c].after /\ Proposal(c).turn = call[c].turn
  BY <1>1 DEF CallRec, Proposal
<1>5. /\ IsFiniteSet(valid) /\ valid \subseteq CallRec /\ \A a \in valid : ApprovalOK(a, turn, consent)
  BY FS_Subset DEF CallsInv
<1>6. CallOK(x, turn, version, disk, consent)
  <2>1. ASSUME place = "write", call[c].turn = turn, call[c].file \notin Internal
        PROVE  <<call[c].file, call[c].before, call[c].after>> \in consent
    <3>1. Proposal(c) \in valid
      BY <2>1
    <3> HIDE DEF valid
    <3> QED BY <1>4, <1>5, <2>1, <3>1 DEF ApprovalOK
  <2> HIDE DEF x, place, valid
  <2> QED BY <1>1, <1>2, <1>3, <2>1 DEF CallOK
<1>7. call' = [call EXCEPT ![c] = x] /\ approvals' = valid /\ UNCHANGED <<version, disk, turn, consent>>
  BY DEF Authorize
<1> HIDE DEF x, valid
<1>8. consent' = consent /\ consent \subseteq consent
  BY <1>7
<1> QED BY <1>2, <1>5, <1>6, <1>7, <1>8, CallsAfterCall

LEMMA AnswerCalls ==
  ASSUME CallsInv, FilesInv, NEW c \in Call, NEW yes \in BOOLEAN, Answer(c, yes)
  PROVE  CallsInv'
<1>1. call[c] \in CallRec /\ call[c] # Idle /\ CallOK(call[c], turn, version, disk, consent)
  BY CallIs DEF Answer, CallsInv
<1>2. CASE call' = [call EXCEPT ![c] = Idle] /\ UNCHANGED <<approvals, consent>>
  <2>1. CallOK(Idle, turn, version, disk, consent) /\ Idle \in CallRec \cup {Idle}
    BY DEF CallOK
  <2>2. UNCHANGED <<version, disk, turn>>
    BY DEF Answer
  <2>3. consent' = consent /\ consent \subseteq consent /\ IsFiniteSet(approvals') /\ approvals' \subseteq CallRec
        /\ \A a \in approvals' : ApprovalOK(a, turn, consent)
    BY <1>2 DEF CallsInv
  <2> QED BY <1>2, <2>1, <2>2, <2>3, CallsAfterCall
<1>3. CASE yes /\ Scope(c)
  <2> DEFINE x == [call[c] EXCEPT !.at = "write"]
             a == Proposal(c)
             cs == consent \cup {<<call[c].file, call[c].before, call[c].after>>}
  <2>1. /\ call' = [call EXCEPT ![c] = x] /\ approvals' = approvals \cup {a} /\ consent' = cs
        /\ UNCHANGED <<version, disk, turn>>
    BY <1>3 DEF Answer
  <2>2. x \in CallRec /\ a \in CallRec
    BY <1>1 DEF CallRec, Proposal
  <2>3. /\ x.file = call[c].file /\ x.before = call[c].before /\ x.after = call[c].after
        /\ x.version = call[c].version /\ x.turn = call[c].turn
    BY <1>1 DEF CallRec
  <2>4. /\ a.file = call[c].file /\ a.before = call[c].before /\ a.after = call[c].after
        /\ a.turn = call[c].turn
    BY <1>1 DEF CallRec, Proposal
  <2>5. call[c].turn = turn /\ turn \in Nat
    BY <1>3, FileAssumption DEF Scope, CallsInv
  <2>6. CallOK(x, turn, version, disk, cs)
    <3>1. <<x.file, x.before, x.after>> \in cs
      BY <2>3
    <3> HIDE DEF x, cs
    <3> QED BY <1>1, <2>2, <2>3, <3>1 DEF CallOK
  <2>7. \A b \in approvals' : ApprovalOK(b, turn, cs)
    <3>1. ApprovalOK(a, turn, cs)
      <4>1. <<a.file, a.before, a.after>> \in cs
        BY <2>4
      <4> HIDE DEF a, cs
      <4> QED BY <2>4, <2>5, <4>1 DEF ApprovalOK
    <3>2. ASSUME NEW b \in approvals PROVE ApprovalOK(b, turn, cs)
      <4>1. ApprovalOK(b, turn, consent)
        BY DEF CallsInv
      <4> QED BY <4>1 DEF ApprovalOK
    <3> QED BY <2>1, <3>1, <3>2
  <2>8. IsFiniteSet(approvals') /\ approvals' \subseteq CallRec
    BY <2>1, <2>2, FS_AddElement DEF CallsInv
  <2>9. consent \subseteq cs
    OBVIOUS
  <2> HIDE DEF x, a, cs
  <2> QED BY <2>1, <2>2, <2>6, <2>7, <2>8, <2>9, CallsAfterCall
<1> QED BY <1>2, <1>3 DEF Answer

LEMMA NextTurnCalls ==
  ASSUME CallsInv, FilesInv, NextTurn
  PROVE  CallsInv'
<1>1. turn' = turn + 1 /\ turn \in Nat /\ turn' \in 1..MaxTurns /\ UNCHANGED <<version, disk, call, approvals>>
  BY FileAssumption DEF NextTurn, CallsInv
<1>2. ASSUME NEW c \in Call PROVE CallOK(call[c], turn + 1, version, disk, {})
  <2>1. PICK x : x = call[c]
    OBVIOUS
  <2>2. CallOK(x, turn, version, disk, consent)
    BY <2>1 DEF CallsInv
  <2>3. x \in CallRec => x.turn \in Nat
    BY DEF CallRec
  <2> QED BY <1>1, <2>1, <2>2, <2>3 DEF CallOK
<1>3. ASSUME NEW a \in approvals PROVE ApprovalOK(a, turn + 1, {})
  <2>1. ApprovalOK(a, turn, consent) /\ a.turn \in Nat
    BY DEF CallsInv, CallRec
  <2> QED BY <1>1, <2>1 DEF ApprovalOK
<1>4. consent' = {}
  BY DEF NextTurn
<1> QED BY <1>1, <1>2, <1>3, <1>4 DEF CallsInv

-----------------------------------------------------------------------------
(* 4. Files, entries and what the user knows.                              *)

LEMMA HunksOfTwo ==
  ASSUME NEW old \in Text, NEW new \in Text, old # new
  PROVE  Hunks(old, new) # {}
<1>1. CASE Empty.text \in {old, new}
  BY <1>1 DEF Hunks
<1>2. CASE Empty.text \notin {old, new}
  <2>1. PICK p \in Part : old[p] # new[p]
    BY SameText
  <2>2. Hunks(old, new) = {{q} : q \in {q \in Part : old[q] # new[q]}}
    BY <1>2 DEF Hunks
  <2> QED BY <2>1, <2>2
<1> QED BY <1>1, <1>2

\* One file changes, with its entry and what the user knows of it.
LEMMA FilesAfterFile ==
  ASSUME FilesInv, NEW f \in File, view' = view,
         disk' \in [File -> Content], agreed' \in [File -> Content], foreign' \in [File -> Content],
         entry' \in [File -> EntryRec],
         \A h \in File : h # f => /\ disk'[h] = disk[h] /\ entry'[h] = entry[h]
                                  /\ agreed'[h] = agreed[h] /\ foreign'[h] = foreign[h],
         EntryOK(entry'[f]), ViewOK(view[f], entry'[f]),
         FaithfulOK(entry'[f], disk'[f], agreed'[f], foreign'[f])
  PROVE  FilesInv'
<1>1. ASSUME NEW h \in File PROVE EntryOK(entry'[h]) /\ EntryOK(view[h]) /\ ViewOK(view[h], entry'[h])
  <2>1. CASE h = f
    BY <2>1 DEF FilesInv
  <2>2. CASE h # f
    <3>1. entry'[h] = entry[h]
      BY <2>2
    <3> QED BY <3>1 DEF FilesInv
  <2> QED BY <2>1, <2>2
<1>2. ASSUME NEW h \in File PROVE FaithfulOK(entry'[h], disk'[h], agreed'[h], foreign'[h])
  <2>1. CASE h = f
    BY <2>1
  <2>2. CASE h # f
    <3>1. disk'[h] = disk[h] /\ entry'[h] = entry[h] /\ agreed'[h] = agreed[h] /\ foreign'[h] = foreign[h]
      BY <2>2
    <3> QED BY <3>1 DEF FilesInv
  <2> QED BY <2>1, <2>2
<1> QED BY <1>1, <1>2 DEF FilesInv

\* The entry of a write stands for the new text and for what the user knew.
LEMMA NewEntryIs ==
  ASSUME FilesInv, NEW f \in File, NEW after \in Content, after.exists, CheckCurrent(f),
         NEW n, n = NewEntry(f, after), n.baseline # n.snapshot
  PROVE  /\ EntryOK(n) /\ n # NoEntry /\ ViewOK(view[f], n)
         /\ Expected(n) = after /\ Rejected(n) = agreed[f]
<1> DEFINE old == entry[f]
           H == HunksOf(old) \ old.kept
<1>1. /\ EntryOK(old) /\ disk[f] \in Content /\ view[f] \in EntryRec
      /\ FaithfulOK(old, disk[f], agreed[f], foreign[f])
  BY DEF FilesInv
<1>2. old \in EntryRec
  BY <1>1 DEF EntryOK
<1>3. /\ old.baseline \in Text /\ old.snapshot \in Text /\ old.existed \in BOOLEAN
      /\ disk[f].text \in Text /\ disk[f].exists \in BOOLEAN /\ after.text \in Text
      /\ view[f].id \in 0..2
  BY <1>1, <1>2, ContentIs DEF EntryRec
<1>4. Reconstruct(old.baseline, old.snapshot, H) \in Text
  <2>1. H \in SUBSET Hunks(old.baseline, old.snapshot)
    BY DEF HunksOf
  <2> HIDE DEF H
  <2> QED BY <1>3, <2>1, ReconstructIs
<1>5. /\ n.id = (IF view[f].id = 1 THEN 2 ELSE 1) /\ n.rejected = {} /\ n.kept = {}
      /\ n.snapshot = after.text
      /\ n.baseline = (IF old = NoEntry THEN disk[f].text ELSE Reconstruct(old.baseline, old.snapshot, H))
      /\ n.existed = (IF old = NoEntry THEN disk[f].exists ELSE old.existed \/ old.kept # {})
      /\ n = [id |-> n.id, rejected |-> n.rejected, kept |-> n.kept, snapshot |-> n.snapshot,
              baseline |-> n.baseline, existed |-> n.existed]
  BY DEF NewEntry
<1>6. /\ n.id \in {1, 2} /\ n.id # view[f].id /\ n.baseline \in Text /\ n.existed \in BOOLEAN
      /\ n.snapshot \in Text
  <2>1. n.id \in {1, 2} /\ n.id # view[f].id
    BY <1>3, <1>5
  <2>2. n.baseline \in Text
    <3> HIDE DEF H
    <3> QED BY <1>3, <1>4, <1>5
  <2>3. n.existed \in BOOLEAN
    BY <1>3, <1>5
  <2> QED BY <1>3, <1>5, <2>1, <2>2, <2>3
<1>7. n \in EntryRec
  BY <1>5, <1>6 DEF EntryRec
<1>8. n # NoEntry /\ ViewOK(view[f], n)
  BY <1>6, NoEntryOK DEF ViewOK
\* What a rejection of all of the old entry restores is the new baseline.
<1>9. [exists |-> n.existed, text |-> n.baseline] = agreed[f] /\ (~n.existed => n.baseline = Empty.text)
  <2>1. CASE old = NoEntry
    <3>1. n.baseline = disk[f].text /\ n.existed = disk[f].exists /\ agreed[f] = disk[f]
      BY <1>1, <1>5, <2>1 DEF FaithfulOK
    <3>2. ~n.existed => n.baseline = Empty.text
      BY <1>1, <3>1, ContentIs
    <3>3. [exists |-> n.existed, text |-> n.baseline] = agreed[f]
      BY <1>1, <3>1, ContentIs DEF Missing, Empty
    <3> QED BY <3>2, <3>3
  <2>2. CASE old # NoEntry
    <3>1. n.baseline = Reconstruct(old.baseline, old.snapshot, H) /\ n.existed = (old.existed \/ old.kept # {})
      BY <1>5, <2>2
    <3>2. Rejected(old) = agreed[f]
      BY <1>1, <2>2 DEF FaithfulOK
    <3>3. Rejected(old) = [exists |-> old.existed \/ H # HunksOf(old), text |-> n.baseline]
      BY <1>1, <3>1, RejectedIs DEF Side
    <3>4. H # HunksOf(old) <=> old.kept # {}
      BY <1>1 DEF EntryOK
    <3>5. [exists |-> n.existed, text |-> n.baseline] = agreed[f]
      BY <3>1, <3>2, <3>3, <3>4
    <3>6. ~n.existed => n.baseline = Empty.text
      <4>1. SUFFICES ASSUME ~n.existed PROVE n.baseline = Empty.text
        OBVIOUS
      <4>2. ~old.existed /\ old.kept = {}
        BY <3>1, <4>1
      <4>3. H = Hunks(old.baseline, old.snapshot) /\ old.baseline = Empty.text
        BY <1>1, <4>2 DEF HunksOf, EntryOK
      <4> QED BY SMTT(40), <1>3, <3>1, <4>3, ReconstructAll
    <3> QED BY <3>5, <3>6
  <2> QED BY <2>1, <2>2
<1>10. EntryOK(n)
  BY <1>5, <1>6, <1>7, <1>8, <1>9 DEF EntryOK
<1>11. Expected(n) = after
  <2>1. HunksOf(n) # {}
    BY <1>6, HunksOfTwo DEF HunksOf
  <2>2. Expected(n) = [exists |-> n.existed \/ {} # HunksOf(n), text |-> Reconstruct(n.baseline, n.snapshot, {})]
    BY <1>5, <1>10, ExpectedIs DEF Side
  <2>3. Expected(n) = [exists |-> TRUE, text |-> after.text]
    BY <1>5, <1>6, <2>1, <2>2, ReconstructNone
  <2> QED BY <2>3, ContentIs
<1>12. Rejected(n) = agreed[f]
  <2>1. HunksOf(n) \ n.kept = HunksOf(n)
    BY <1>5
  <2>2. Rejected(n) = Side(n, HunksOf(n))
    BY <1>10, <2>1, RejectedIs
  <2>3. Reconstruct(n.baseline, n.snapshot, HunksOf(n)) = n.baseline
    BY <1>6, ReconstructAll DEF HunksOf
  <2>4. Rejected(n) = [exists |-> n.existed, text |-> n.baseline]
    BY <1>6, <2>2, <2>3 DEF Side
  <2> QED BY <1>9, <2>4
<1> QED BY <1>8, <1>10, <1>11, <1>12

\* Without an entry the file is what the user knows it to be.
LEMMA ForgottenIs ==
  ASSUME FilesInv, NEW f \in File, NEW content \in Content, Forget(f), view' = view,
         agreed' = [agreed EXCEPT ![f] = content],
         disk' \in [File -> Content], disk'[f] = content, \A h \in File : h # f => disk'[h] = disk[h]
  PROVE  FilesInv'
<1>1. /\ entry' = [entry EXCEPT ![f] = NoEntry] /\ foreign' = [foreign EXCEPT ![f] = Missing]
      /\ NoEntry \in EntryRec /\ EntryOK(NoEntry) /\ Missing \in Content
  BY NoEntryOK, ContentIs DEF Forget, EntryOK
<1>2. /\ entry' \in [File -> EntryRec] /\ foreign' \in [File -> Content] /\ agreed' \in [File -> Content]
      /\ entry'[f] = NoEntry /\ foreign'[f] = Missing /\ agreed'[f] = content
      /\ \A h \in File : h # f => /\ disk'[h] = disk[h] /\ entry'[h] = entry[h]
                                  /\ agreed'[h] = agreed[h] /\ foreign'[h] = foreign[h]
  BY <1>1 DEF FilesInv
<1>3. ViewOK(view[f], NoEntry) /\ FaithfulOK(NoEntry, content, content, Missing)
  BY NoEntryOK DEF ViewOK, FaithfulOK
<1> QED BY <1>1, <1>2, <1>3, FilesAfterFile

LEMMA WriteFiles ==
  ASSUME CallsInv, FilesInv, NEW c \in Call, Write(c)
  PROVE  FilesInv'
<1> DEFINE f == call[c].file
           after == call[c].after
           n == NewEntry(f, after)
<1>1. f \in File /\ after \in Content /\ after.exists /\ view' = view
  BY CallIs DEF Write, CallRec
<1>2. CASE Put(f, after) /\ Forget(f) /\ agreed' = [agreed EXCEPT ![f] = after]
  <2>1. /\ disk' \in [File -> Content] /\ disk'[f] = after
        /\ \A g \in File : g # f => disk'[g] = disk[g]
    <3> HIDE DEF f, after
    <3> QED BY <1>1, <1>2, PutIs
  <2> HIDE DEF f, after
  <2> QED BY <1>1, <1>2, <2>1, ForgottenIs
<1>3. CASE /\ CheckCurrent(f) /\ Put(f, after) /\ n.baseline # n.snapshot
           /\ entry' = [entry EXCEPT ![f] = n] /\ UNCHANGED <<agreed, foreign>>
  <2>1. /\ disk' \in [File -> Content] /\ disk'[f] = after
        /\ \A g \in File : g # f => disk'[g] = disk[g]
    <3> HIDE DEF f, after
    <3> QED BY <1>1, <1>3, PutIs
  <2>2. /\ EntryOK(n) /\ n # NoEntry /\ ViewOK(view[f], n)
        /\ Expected(n) = after /\ Rejected(n) = agreed[f]
    <3>1. PICK m : m = n
      OBVIOUS
    <3>2. m = NewEntry(f, after) /\ m.baseline # m.snapshot
      BY <1>3, <3>1
    <3> HIDE DEF f, after, n
    <3>3. /\ EntryOK(m) /\ m # NoEntry /\ ViewOK(view[f], m)
          /\ Expected(m) = after /\ Rejected(m) = agreed[f]
      BY <1>1, <1>3, <3>2, NewEntryIs
    <3> QED BY <3>1, <3>3
  <2> HIDE DEF f, after, n
  <2>3. foreign[f] = Missing
    BY <1>1, <1>3 DEF FilesInv, FaithfulOK, CheckCurrent
  <2>4. FaithfulOK(n, after, agreed[f], Missing)
    BY <2>2 DEF FaithfulOK
  <2>5. n \in EntryRec
    BY <2>2 DEF EntryOK
  <2>6. /\ entry' \in [File -> EntryRec] /\ entry'[f] = n /\ agreed' = agreed /\ foreign' = foreign
        /\ \A h \in File : h # f => entry'[h] = entry[h]
        /\ agreed \in [File -> Content] /\ foreign \in [File -> Content]
    BY <1>1, <1>3, <2>5 DEF FilesInv
  <2> QED BY <1>1, <2>1, <2>2, <2>3, <2>4, <2>6, FilesAfterFile
<1>4. CASE UNCHANGED <<disk, version, entry, agreed, foreign, strange>>
  BY <1>1, <1>4 DEF FilesInv
<1> QED
  <2>1. \/ /\ CheckCurrent(f) /\ Put(f, after)
           /\ \/ n.baseline # n.snapshot /\ entry' = [entry EXCEPT ![f] = n] /\ UNCHANGED <<agreed, foreign>>
              \/ Forget(f) /\ agreed' = [agreed EXCEPT ![f] = after]
        \/ UNCHANGED <<disk, version, entry, agreed, foreign, strange>>
    BY DEF Write
  <2> QED BY <1>2, <1>3, <1>4, <2>1

LEMMA RemoveFiles ==
  ASSUME CallsInv, FilesInv, NEW c \in Call, RemoveFile(c)
  PROVE  FilesInv'
<1> DEFINE f == call[c].file
<1>1. f \in File /\ view' = view /\ Missing \in Content
  BY CallIs, ContentIs DEF RemoveFile, CallRec
<1>2. CASE Put(f, Missing) /\ Forget(f) /\ agreed' = [agreed EXCEPT ![f] = Missing]
  <2> HIDE DEF f
  <2>1. /\ disk' \in [File -> Content] /\ disk'[f] = Missing
        /\ \A g \in File : g # f => disk'[g] = disk[g]
    BY <1>1, <1>2, PutIs
  <2> QED BY <1>1, <1>2, <2>1, ForgottenIs
<1>3. CASE UNCHANGED <<disk, version, entry, agreed, foreign, strange>>
  BY <1>1, <1>3 DEF FilesInv
<1> QED BY <1>2, <1>3 DEF RemoveFile

LEMMA OpenFiles ==
  ASSUME FilesInv, OpenReview
  PROVE  FilesInv'
<1>1. view' = entry /\ UNCHANGED <<disk, entry, agreed, foreign>>
  BY DEF OpenReview
<1>2. ASSUME NEW f \in File PROVE ViewOK(entry[f], entry[f])
  BY DEF ViewOK
<1> QED BY <1>1, <1>2 DEF FilesInv

\* A decision is on the version shown.
LEMMA DecideFiles ==
  ASSUME CallsInv, FilesInv, NEW f \in File, NEW hunk \in HunksOf(view[f]), NEW reject \in BOOLEAN,
         Decide(f, hunk, reject)
  PROVE  FilesInv'
<1> DEFINE e == entry[f]
           shown == view[f]
           d == Decided(e, hunk, reject)
           known == AgreedTo(agreed[f], e, d, hunk, reject)
<1>1. /\ shown # NoEntry /\ e.id = shown.id /\ CheckCurrent(f)
      /\ EntryOK(e) /\ EntryOK(shown) /\ ViewOK(shown, e) /\ FaithfulOK(e, disk[f], agreed[f], foreign[f])
  BY DEF Decide, FilesInv
<1>2. shown.id # 0 /\ e # NoEntry
  BY <1>1, NoEntryOK DEF EntryOK
<1>3. shown.baseline = e.baseline /\ shown.snapshot = e.snapshot /\ shown.existed = e.existed
  BY <1>1, <1>2 DEF ViewOK
<1>4. hunk \in HunksOf(e)
  BY <1>3 DEF HunksOf
<1>5. Put(f, Expected(d)) /\ entry' = [entry EXCEPT ![f] = d] /\ foreign' = [foreign EXCEPT ![f] = Missing]
      /\ view' = view
  BY DEF Decide, Decided
<1>6. agreed' = [agreed EXCEPT ![f] = known]
  BY <1>3 DEF Decide, Decided, AgreedTo
<1>7. PICK m : m = d
  OBVIOUS
<1>8. DecidedOK(m, e, hunk, reject)
  <2> HIDE DEF e
  <2> QED BY <1>1, <1>2, <1>4, <1>7, DecidedIs, Zenon
<1>9. Rejected(e) = agreed[f]
  BY <1>1, <1>2 DEF FaithfulOK
<1>10. Rejected(d) = known
  <2>1. PICK y : y = e
    OBVIOUS
  <2>2. EntryOK(y) /\ y # NoEntry /\ hunk \in HunksOf(y) /\ m = Decided(y, hunk, reject)
    BY <1>1, <1>2, <1>4, <1>7, <2>1
  <2>3. Rejected(m) = AgreedTo(Rejected(y), y, m, hunk, reject)
    BY <2>2, DecisionIsAgreed, Zenon
  <2> HIDE DEF d, e
  <2> QED BY <1>7, <1>9, <2>1, <2>3
<1>11. /\ EntryOK(d) /\ d # NoEntry /\ d.id = e.id
       /\ d.baseline = e.baseline /\ d.snapshot = e.snapshot /\ d.existed = e.existed
  <2> HIDE DEF d, e
  <2> QED BY <1>7, <1>8 DEF DecidedOK
<1> HIDE DEF d, known
<1>12. Expected(d) \in Content /\ known \in Content /\ d \in EntryRec
  BY <1>10, <1>11, ExpectedIs, RejectedIs DEF EntryOK
<1>13. ViewOK(shown, d)
  BY <1>1, <1>11 DEF ViewOK
<1>14. FaithfulOK(d, Expected(d), known, Missing)
  BY <1>10, <1>11 DEF FaithfulOK
<1>15. /\ disk' \in [File -> Content] /\ disk'[f] = Expected(d)
       /\ \A g \in File : g # f => disk'[g] = disk[g]
  BY <1>5, <1>12, PutIs
<1>16. /\ entry' \in [File -> EntryRec] /\ foreign' \in [File -> Content] /\ agreed' \in [File -> Content]
       /\ entry'[f] = d /\ foreign'[f] = Missing /\ agreed'[f] = known
       /\ \A h \in File : h # f => entry'[h] = entry[h] /\ agreed'[h] = agreed[h] /\ foreign'[h] = foreign[h]
  BY <1>5, <1>6, <1>12, ContentIs DEF FilesInv
<1> QED BY <1>5, <1>11, <1>13, <1>14, <1>15, <1>16, FilesAfterFile

\* Where all is decided, what is expected is what a rejection of the rest leaves.
LEMMA DecidedAll ==
  ASSUME NEW e, EntryOK(e), HunksOf(e) = e.rejected \cup e.kept
  PROVE  Expected(e) = Rejected(e)
<1>1. HunksOf(e) \ e.kept = e.rejected
  BY DEF EntryOK
<1> QED BY <1>1, ExpectedIs, RejectedIs

LEMMA FinishFiles ==
  ASSUME FilesInv, FinishDecided
  PROVE  FilesInv'
<1> DEFINE accepted == {f \in File : entry[f] # NoEntry
                                 /\ HunksOf(entry[f]) = entry[f].rejected \cup entry[f].kept}
<1>1. /\ view' = [f \in File |-> NoEntry] /\ disk' = disk
      /\ entry' = [f \in File |-> IF f \in accepted THEN NoEntry ELSE entry[f]]
      /\ agreed' = [f \in File |-> IF f \in accepted /\ foreign[f] # Missing THEN disk[f] ELSE agreed[f]]
      /\ foreign' = [f \in File |-> IF f \in accepted THEN Missing ELSE foreign[f]]
  BY DEF FinishDecided
<1>2. NoEntry \in EntryRec /\ EntryOK(NoEntry) /\ NoEntry.id = 0 /\ Missing \in Content
  BY NoEntryOK, ContentIs DEF EntryOK
<1>3. ASSUME NEW f \in File PROVE FaithfulOK(entry'[f], disk'[f], agreed'[f], foreign'[f]) /\ EntryOK(entry'[f])
  <2>1. EntryOK(entry[f]) /\ FaithfulOK(entry[f], disk[f], agreed[f], foreign[f])
    BY DEF FilesInv
  <2>2. CASE f \in accepted
    <3>1. entry[f] # NoEntry /\ Expected(entry[f]) = Rejected(entry[f])
      BY <2>1, <2>2, DecidedAll
    <3>2. foreign[f] = Missing => disk[f] = agreed[f]
      BY <2>1, <3>1 DEF FaithfulOK
    <3>3. entry'[f] = NoEntry /\ foreign'[f] = Missing /\ disk'[f] = disk[f]
          /\ agreed'[f] = IF foreign[f] # Missing THEN disk[f] ELSE agreed[f]
      BY <1>1, <2>2
    <3>4. agreed'[f] = disk[f]
      BY <3>2, <3>3
    <3> QED BY <1>2, <3>3, <3>4 DEF FaithfulOK
  <2>3. CASE f \notin accepted
    <3>1. entry'[f] = entry[f] /\ foreign'[f] = foreign[f] /\ disk'[f] = disk[f] /\ agreed'[f] = agreed[f]
      BY <1>1, <2>3
    <3> QED BY <2>1, <3>1
  <2> QED BY <2>2, <2>3
<1>4. ASSUME NEW f \in File PROVE EntryOK(view'[f]) /\ ViewOK(view'[f], entry'[f])
  BY <1>1, <1>2 DEF ViewOK
<1>5. /\ disk' \in [File -> Content] /\ agreed' \in [File -> Content] /\ foreign' \in [File -> Content]
      /\ entry' \in [File -> EntryRec] /\ view' \in [File -> EntryRec]
  <2> HIDE DEF accepted
  <2> QED BY <1>1, <1>2 DEF FilesInv
<1> QED BY <1>3, <1>4, <1>5 DEF FilesInv

LEMMA ToggleFiles ==
  ASSUME FilesInv, ToggleMode
  PROVE  FilesInv'
<1>1. NoEntry \in EntryRec /\ EntryOK(NoEntry) /\ NoEntry.id = 0 /\ Missing \in Content
  BY NoEntryOK, ContentIs DEF EntryOK
<1>2. disk' = disk /\ view' = view /\ \A f \in File : view[f] = NoEntry
  BY DEF ToggleMode
<1>3. CASE reviewing
  <2>1. entry' = [f \in File |-> NoEntry] /\ foreign' = [f \in File |-> Missing] /\ agreed' = disk
    BY <1>3 DEF ToggleMode
  <2>2. \A f \in File : FaithfulOK(NoEntry, disk[f], disk[f], Missing) /\ ViewOK(NoEntry, NoEntry)
    BY DEF FaithfulOK, ViewOK
  <2> QED BY <1>1, <1>2, <2>1, <2>2 DEF FilesInv
<1>4. CASE ~reviewing
  BY <1>2, <1>4 DEF ToggleMode, FilesInv
<1> QED BY <1>3, <1>4

LEMMA EditFiles ==
  ASSUME CallsInv, FilesInv, NEW f \in File, NEW content \in Content, Edit(f, content)
  PROVE  FilesInv'
<1>1. /\ content.exists /\ content # Missing /\ Put(f, content) /\ entry' = entry /\ view' = view
      /\ EntryOK(entry[f]) /\ ViewOK(view[f], entry[f])
      /\ FaithfulOK(entry[f], disk[f], agreed[f], foreign[f])
  BY ContentIs DEF Edit, FilesInv
<1>2. /\ disk' \in [File -> Content] /\ disk'[f] = content
      /\ \A g \in File : g # f => disk'[g] = disk[g]
  BY <1>1, PutIs
<1>3. CASE entry[f] = NoEntry
  <2>1. agreed' = [agreed EXCEPT ![f] = content] /\ foreign' = foreign
    BY <1>3 DEF Edit
  <2>2. agreed' \in [File -> Content] /\ agreed'[f] = content /\ (\A h \in File : h # f => agreed'[h] = agreed[h])
    BY <2>1 DEF FilesInv
  <2>3. FaithfulOK(entry[f], content, content, foreign[f])
    BY <1>1, <1>3 DEF FaithfulOK
  <2>4. foreign' \in [File -> Content] /\ entry' \in [File -> EntryRec]
    BY <1>1, <2>1 DEF FilesInv
  <2> QED BY <1>1, <1>2, <2>1, <2>2, <2>3, <2>4, FilesAfterFile
<1>4. CASE entry[f] # NoEntry
  <2> DEFINE g == IF content = Expected(entry[f]) THEN Missing ELSE content
  <2>1. foreign' = [foreign EXCEPT ![f] = g] /\ agreed' = agreed
    BY <1>4 DEF Edit
  <2>2. FaithfulOK(entry[f], content, agreed[f], g)
    BY <1>1, <1>4 DEF FaithfulOK
  <2>3. g \in Content
    BY ContentIs
  <2> HIDE DEF g
  <2>4. foreign' \in [File -> Content] /\ foreign'[f] = g /\ (\A h \in File : h # f => foreign'[h] = foreign[h])
    BY <2>1, <2>3 DEF FilesInv
  <2>5. agreed' \in [File -> Content] /\ entry' \in [File -> EntryRec]
    BY <1>1, <2>1 DEF FilesInv
  <2> QED BY <1>1, <1>2, <2>1, <2>2, <2>4, <2>5, FilesAfterFile
<1> QED BY <1>3, <1>4

-----------------------------------------------------------------------------
(* 5. The theorems.                                                        *)

\* What a verified call changes outside WorkDatabase the user has confirmed.
LEMMA VerifiedIsConfirmed ==
  ASSUME CallsInv, FilesInv, NEW c \in Call, call[c].at = "write", Verified(c),
         call[c].file \notin Internal
  PROVE  <<call[c].file, disk[call[c].file], call[c].after>> \in consent
<1>1. PICK x : x = call[c]
  OBVIOUS
<1>2. x \in CallRec /\ x # Idle /\ CallOK(x, turn, version, disk, consent)
  BY <1>1, CallIs DEF CallsInv
<1>3. x.at = "write" /\ x.turn = turn /\ x.file \notin Internal /\ Fingerprint(x.file) = x.version
  BY <1>1 DEF Verified, Scope
<1>4. <<x.file, x.before, x.after>> \in consent
  BY <1>2, <1>3 DEF CallOK
<1>5. x.file \in File /\ disk[x.file] \in Content
  BY <1>2 DEF CallRec, FilesInv
<1>6. disk[x.file] = x.before
  <2>1. CASE disk[x.file].exists
    BY <1>2, <1>3, <2>1 DEF Fingerprint, CallOK
  <2>2. CASE ~disk[x.file].exists
    BY <1>2, <1>3, <1>5, <2>2, ContentIs DEF Fingerprint, CallOK
  <2> QED BY <2>1, <2>2
<1> QED BY <1>1, <1>4, <1>6

LEMMA InitIInv == FileInit => IInv
<1> SUFFICES ASSUME FileInit PROVE IInv
  OBVIOUS
<1>1. NoEntry \in EntryRec /\ EntryOK(NoEntry) /\ NoEntry.id = 0 /\ Missing \in Content
  BY NoEntryOK, ContentIs DEF EntryOK
<1>2. CallsInv
  <2>1. turn \in 1..MaxTurns /\ version \in [File -> Nat \ {0}] /\ approvals = {} /\ IsFiniteSet(approvals)
    BY FileAssumption, FS_EmptySet DEF FileInit
  <2>2. call = [c \in Call |-> Idle] /\ \A c \in Call : CallOK(Idle, turn, version, disk, consent)
    BY DEF FileInit, CallOK
  <2> QED BY <2>1, <2>2 DEF CallsInv
<1>3. FilesInv
  <2>1. disk \in [File -> Content] /\ agreed = disk
    BY ContentIs DEF FileInit, Content
  <2>2. /\ entry = [f \in File |-> NoEntry] /\ view = [f \in File |-> NoEntry]
        /\ foreign = [f \in File |-> Missing]
    BY DEF FileInit
  <2>3. \A f \in File : FaithfulOK(NoEntry, disk[f], agreed[f], Missing) /\ ViewOK(NoEntry, NoEntry)
    BY <2>1 DEF FaithfulOK, ViewOK
  <2> QED BY <1>1, <2>1, <2>2, <2>3 DEF FilesInv
<1>4. strange = FALSE
  BY DEF FileInit
<1> QED BY <1>2, <1>3, <1>4 DEF IInv

LEMMA NextIInv == IInv /\ [FileNext]_fileVars => IInv'
<1> SUFFICES ASSUME CallsInv, FilesInv, strange = FALSE, [FileNext]_fileVars PROVE IInv'
  BY DEF IInv
\* What only concerns calls leaves the files as they are, and the reverse.
<1>1. ASSUME disk' = disk, review' = review PROVE FilesInv' /\ strange' = FALSE
  BY <1>1 DEF FilesInv, review
<1>2. ASSUME UNCHANGED <<disk, version, work>> PROVE CallsInv'
  BY <1>2 DEF CallsInv, work
<1>3. ASSUME NEW c \in Call, NEW f \in File, NEW after \in Content, Plan(c, f, after) PROVE IInv'
  BY <1>1, <1>3, PlanCalls DEF Plan, IInv
<1>4. ASSUME NEW c \in Call, Authorize(c) PROVE IInv'
  BY <1>1, <1>4, AuthorizeCalls DEF Authorize, IInv
<1>5. ASSUME NEW c \in Call, NEW yes \in BOOLEAN, Answer(c, yes) PROVE IInv'
  BY <1>1, <1>5, AnswerCalls DEF Answer, IInv
<1>6. CASE NextTurn
  BY <1>1, <1>6, NextTurnCalls DEF NextTurn, IInv
<1>7. ASSUME NEW c \in Call, Write(c) PROVE IInv'
  <2> DEFINE f == call[c].file
             after == call[c].after
  <2>1. /\ call[c].at = "write" /\ call' = [call EXCEPT ![c] = Idle] /\ UNCHANGED <<turn, approvals, consent>>
        /\ \/ Verified(c) /\ disk[f] = call[c].before /\ Put(f, after) /\ Witnessed(f, after)
           \/ UNCHANGED <<disk, version, strange>>
    BY <1>7 DEF Write
  <2>2. f \in File /\ after \in Content
    BY <2>1, CallIs DEF CallRec
  <2>3. call' \in [Call -> CallRec \cup {Idle}] /\ \A b \in Call : call'[b] \in {call[b], Idle}
    BY <2>1, IdleCalls
  <2>4. CASE Verified(c) /\ Put(f, after) /\ Witnessed(f, after)
    <3>1. strange' = FALSE
      BY <2>1, <2>4, VerifiedIsConfirmed DEF Witnessed
    <3>2. CallsInv'
      <4> HIDE DEF f, after
      <4> QED BY <2>1, <2>2, <2>3, <2>4, CallsAfterPut
    <3> QED BY <1>7, <3>1, <3>2, WriteFiles DEF IInv
  <2>5. CASE UNCHANGED <<disk, version, strange>>
    <3>1. CallsInv'
      <4>1. ASSUME NEW b \in Call PROVE CallOK(call'[b], turn, version, disk, consent)
        BY <2>3 DEF CallsInv, CallOK
      <4> QED BY <2>1, <2>3, <2>5, <4>1 DEF CallsInv
    <3> QED BY <1>7, <2>5, <3>1, WriteFiles DEF IInv
  <2> QED BY <2>1, <2>4, <2>5
<1>8. ASSUME NEW c \in Call, RemoveFile(c) PROVE IInv'
  <2> DEFINE f == call[c].file
  <2>1. /\ call[c].at = "write" /\ call' = [call EXCEPT ![c] = Idle] /\ UNCHANGED <<turn, approvals, consent>>
        /\ ~call[c].after.exists
        /\ \/ Verified(c) /\ Put(f, Missing) /\ Witnessed(f, Missing)
           \/ UNCHANGED <<disk, version, strange>>
    BY <1>8 DEF RemoveFile
  <2>2. f \in File /\ Missing \in Content /\ call[c].after = Missing
    BY <2>1, CallIs, ContentIs DEF CallRec
  <2>3. call' \in [Call -> CallRec \cup {Idle}] /\ \A b \in Call : call'[b] \in {call[b], Idle}
    BY <2>1, IdleCalls
  <2>4. CASE Verified(c) /\ Put(f, Missing) /\ Witnessed(f, Missing)
    <3>1. strange' = FALSE
      BY <2>1, <2>2, <2>4, VerifiedIsConfirmed DEF Witnessed
    <3>2. CallsInv'
      <4> HIDE DEF f
      <4> QED BY <2>1, <2>2, <2>3, <2>4, CallsAfterPut
    <3> QED BY <1>8, <3>1, <3>2, RemoveFiles DEF IInv
  <2>5. CASE UNCHANGED <<disk, version, strange>>
    <3>1. CallsInv'
      <4>1. ASSUME NEW b \in Call PROVE CallOK(call'[b], turn, version, disk, consent)
        BY <2>3 DEF CallsInv, CallOK
      <4> QED BY <2>1, <2>3, <2>5, <4>1 DEF CallsInv
    <3> QED BY <1>8, <2>5, <3>1, RemoveFiles DEF IInv
  <2> QED BY <2>1, <2>4, <2>5
<1>9. CASE OpenReview
  BY <1>2, <1>9, OpenFiles DEF OpenReview, IInv
<1>10. CASE FinishDecided
  BY <1>2, <1>10, FinishFiles DEF FinishDecided, IInv
<1>11. CASE ToggleMode
  BY <1>2, <1>11, ToggleFiles DEF ToggleMode, IInv
<1>12. ASSUME NEW f \in File, NEW hunk \in HunksOf(view[f]), NEW reject \in BOOLEAN, Decide(f, hunk, reject)
       PROVE  IInv'
  <2>1. PICK content : content = Expected(Decided(entry[f], hunk, reject))
    OBVIOUS
  <2>2. Put(f, content) /\ UNCHANGED work /\ strange' = strange
    BY <1>12, <2>1 DEF Decide, Decided
  <2>3. FilesInv'
    BY <1>12, DecideFiles
  <2>4. disk' = [disk EXCEPT ![f] = content]
    BY <2>2 DEF Put
  <2>5. content \in Content
    BY <2>3, <2>4 DEF FilesInv
  <2>6. call' \in [Call -> CallRec \cup {Idle}] /\ \A b \in Call : call'[b] \in {call[b], Idle}
    BY <2>2 DEF work, CallsInv
  <2>7. UNCHANGED <<turn, approvals, consent>>
    BY <2>2 DEF work
  <2>8. CallsInv'
    BY <2>2, <2>5, <2>6, <2>7, CallsAfterPut
  <2> QED BY <2>2, <2>3, <2>8 DEF IInv
<1>13. ASSUME NEW f \in File, NEW content \in Content, Edit(f, content) PROVE IInv'
  <2>1. Put(f, content) /\ UNCHANGED work /\ strange' = strange
    BY <1>13 DEF Edit
  <2>2. call' \in [Call -> CallRec \cup {Idle}] /\ \A b \in Call : call'[b] \in {call[b], Idle}
    BY <2>1 DEF work, CallsInv
  <2>3. UNCHANGED <<turn, approvals, consent>>
    BY <2>1 DEF work
  <2>4. CallsInv'
    BY <2>1, <2>2, <2>3, CallsAfterPut
  <2> QED BY <1>13, <2>1, <2>4, EditFiles DEF IInv
<1>14. CASE UNCHANGED fileVars
  BY <1>1, <1>2, <1>14 DEF fileVars, work, review, IInv
<1> QED BY <1>3, <1>4, <1>5, <1>6, <1>7, <1>8, <1>9, <1>10, <1>11, <1>12, <1>13, <1>14 DEF FileNext

LEMMA Faithful == IInv => FileTypeOK /\ ReviewIsFaithful
<1> SUFFICES ASSUME CallsInv, FilesInv, strange = FALSE PROVE FileTypeOK /\ ReviewIsFaithful
  BY DEF IInv
<1>1. FileTypeOK
  <2>1. ASSUME NEW c \in Call PROVE call[c].at \in {"idle", "plan", "ask", "write"}
    BY CallIs DEF CallRec
  <2>2. ASSUME NEW f \in File
        PROVE  /\ entry[f].rejected \cup entry[f].kept \subseteq HunksOf(entry[f])
               /\ entry[f].rejected \cap entry[f].kept = {}
    BY DEF FilesInv, EntryOK
  <2> QED BY <2>1, <2>2 DEF FileTypeOK, CallsInv, FilesInv
<1>2. UndecidedCanBeUndone
  <2>1. ASSUME NEW f \in File
        PROVE  IF entry[f] = NoEntry THEN disk[f] = agreed[f] ELSE Rejected(entry[f]) = agreed[f]
    BY DEF FilesInv, FaithfulOK
  <2> QED BY <2>1 DEF UndecidedCanBeUndone
<1>3. ForeignTextStays
  BY DEF ForeignTextStays, FilesInv, FaithfulOK
<1> QED BY <1>1, <1>2, <1>3 DEF ReviewIsFaithful

\* The invariant that the proofs rest on holds in every state.
THEOREM InvariantCorrect == FileSpec => []IInv
<1> QED BY InitIInv, NextIInv, PTL DEF FileSpec

\* Types, and decided hunks are hunks of their entry, each decided one way
\* (PendingReviewStore.decide).
THEOREM FileTypesCorrect == FileSpec => []FileTypeOK
<1> QED BY InvariantCorrect, Faithful, PTL

\* Through any number of calls, turns, decisions and writes of other programs
\* the user can have back what they had, no text of another program is lost
\* to a decision, and outside WorkDatabase a call changes what they confirmed
\* (PendingReviewStore, FileAccessPolicy.verify).
THEOREM ReviewIsFaithfulCorrect == FileSpec => []ReviewIsFaithful
<1> QED BY InvariantCorrect, Faithful, PTL

-----------------------------------------------------------------------------
(* PART C: the messages of a chat.  The inductive invariant.               *)

\* A session of the chat.
TalkRecord == [line : Seq(Message), turn : 0..MaxMessages, at : {"idle", "wait", "run"},
               open : BOOLEAN, paused : 0..MaxMessages, resumed : BOOLEAN,
               replies : SUBSET Message, record : Talk]

\* In the order the messages came.
Rising(s) == \A k, l \in DOMAIN s : k < l => s[k] < s[l]

\* The messages that are paused in the records.
Papers == {paper[n] : n \in Talk} \ {None}

\* What is known of a message is known of one that arrived.
OnlyArrived ==
  /\ paper \in [Talk -> 0..arrived] /\ Here.turn <= arrived /\ Here.paused <= arrived
  /\ ToSet(Here.line) \subseteq 1..arrived
  /\ answered \cup dropped \cup loaded \subseteq 1..arrived

\* Only the chat's own session has a queue; those to come are new.
OthersAreEmpty ==
  \A n \in Talk \ {chat} : talk[n].line = <<>> /\ (n > chat => talk[n] = NewTalk(n))

\* No session but the one that is closed for the chat's works beside it, and
\* while it is closed the chat's rests.
OneCloses ==
  /\ \A n \in Talk : closing[n] # 0 => n = chat /\ closing[n] < chat
  /\ \A n \in Talk \ {chat} : Working(n) => closing[chat] = n
  /\ closing[chat] # 0 => ~Here.open /\ ~Working(chat) /\ Here.paused = None

\* A paused message is on record, and nothing is taken beside it.
PauseIsOnRecord ==
  /\ Here.paused # None => ~Here.open /\ ~Working(chat) /\ paper[Here.record] = Here.paused
  /\ \A r, s \in Talk : paper[r] = paper[s] /\ paper[r] # None => r = s

\* So is the message of a resumed turn, and no other.
TurnIsOnRecord ==
  /\ \A n \in Talk : talk[n].at # "idle" => Working(n)
  /\ Here.resumed => Working(chat) /\ paper[Here.record] = Here.turn
  /\ Working(chat) /\ ~Here.resumed => Here.turn \notin loaded \cup Papers

\* What is queued was never taken before, and is in order.
QueueIsNew ==
  /\ ToSet(Here.line) \cap (loaded \cup answered \cup dropped \cup Papers) = {}
  /\ Rising(Here.line)
  /\ \A i \in {Here.turn, Here.paused} \ (loaded \cup {None}) : \A j \in ToSet(Here.line) : i < j

\* What may still be answered was neither answered nor dropped.
NoneIsSettled ==
  /\ ({Here.turn, Here.paused} \cup Papers) \cap answered = {}
  /\ {Here.turn, Here.paused} \cap dropped = {}
  /\ answered \cap dropped = {}

\* Each message is queued, in work, paused, or settled; until then it has its delivery.
AllAreAccounted ==
  /\ 1..arrived \subseteq over \cup loaded \cup ToSet(Here.line) \cup {Here.turn, Here.paused}
  /\ ({Here.turn, Here.paused} \ {None}) \cup ToSet(Here.line) \subseteq Here.replies \cup over \cup loaded

\* All of it, which holds unless a reset or /load came while a session was closed.
ChatParts ==
  /\ OnlyArrived /\ OthersAreEmpty /\ OneCloses /\ PauseIsOnRecord /\ TurnIsOnRecord
  /\ QueueIsNew /\ NoneIsSettled /\ AllAreAccounted

\* The types, and what the records hold.
ChatTyped == ChatTypeOK /\ paper \in [Talk -> 0..MaxMessages]

\* What every step keeps.
ChatInv == ChatTyped /\ (~overlapped => ChatParts)
-----------------------------------------------------------------------------
(* Queues.                                                                 *)

\* An empty queue.
LEMMA EmptyQueue == ToSet(<<>>) = {} /\ Rising(<<>>) /\ <<>> \in Seq(Message)
<1>1. DOMAIN <<>> = {} /\ <<>> \in Seq(Message)
  OBVIOUS
<1> QED BY <1>1 DEF ToSet, Rising

\* A queue is told by its numbers.
LEMMA QueueIs ==
  ASSUME NEW s \in Seq(Message)
  PROVE  DOMAIN s = 1..Len(s) /\ Len(s) \in Nat /\ ToSet(s) \subseteq Message
BY DEF ToSet

\* A message joins a queue.
LEMMA QueueGrows ==
  ASSUME NEW s \in Seq(Message), NEW i \in Message
  PROVE  /\ Append(s, i) \in Seq(Message) /\ ToSet(Append(s, i)) = ToSet(s) \cup {i}
         /\ Rising(s) /\ (\A j \in ToSet(s) : j < i) => Rising(Append(s, i))
<1> DEFINE a == Append(s, i)
<1>1. /\ a \in Seq(Message) /\ DOMAIN a = 1..(Len(s) + 1) /\ a[Len(s) + 1] = i
      /\ \A k \in 1..Len(s) : a[k] = s[k]
  OBVIOUS
<1>2. DOMAIN s = 1..Len(s) /\ Len(s) \in Nat /\ \A k \in 1..Len(s) : s[k] \in Message
  OBVIOUS
<1> HIDE DEF a
<1>3. ToSet(a) = ToSet(s) \cup {i}
  <2>1. \A k \in DOMAIN a : a[k] \in ToSet(s) \cup {i}
    BY <1>1, <1>2 DEF ToSet
  <2>2. \A k \in DOMAIN s : s[k] \in ToSet(a)
    BY <1>1, <1>2 DEF ToSet
  <2>3. i \in ToSet(a)
    BY <1>1, <1>2 DEF ToSet
  <2> QED BY <2>1, <2>2, <2>3 DEF ToSet
<1>4. ASSUME Rising(s), \A j \in ToSet(s) : j < i
      PROVE  Rising(a)
  <2>1. SUFFICES ASSUME NEW k \in 1..(Len(s) + 1), NEW l \in 1..(Len(s) + 1), k < l
                 PROVE  a[k] < a[l]
    BY <1>1 DEF Rising
  <2>2. k \in 1..Len(s) /\ a[k] = s[k] /\ s[k] \in ToSet(s)
    BY <1>1, <1>2, <2>1 DEF ToSet
  <2>3. CASE l = Len(s) + 1
    BY <1>1, <1>4, <2>2, <2>3
  <2>4. CASE l \in 1..Len(s)
    BY <1>1, <1>2, <1>4, <2>1, <2>2, <2>4 DEF Rising
  <2> QED BY <1>2, <2>3, <2>4
<1> QED BY <1>1, <1>3, <1>4 DEF a

\* The head of a queue is taken.
LEMMA QueueShrinks ==
  ASSUME NEW s \in Seq(Message), s # <<>>
  PROVE  /\ Head(s) \in Message /\ Tail(s) \in Seq(Message)
         /\ ToSet(s) = {Head(s)} \cup ToSet(Tail(s))
         /\ Rising(s) => Rising(Tail(s)) /\ \A j \in ToSet(Tail(s)) : Head(s) < j
<1> DEFINE r == Tail(s)
<1>1. /\ r \in Seq(Message) /\ DOMAIN r = 1..(Len(s) - 1) /\ Len(s) \in Nat \ {0}
      /\ \A k \in 1..(Len(s) - 1) : r[k] = s[k + 1]
  OBVIOUS
<1>2. DOMAIN s = 1..Len(s) /\ Head(s) = s[1] /\ \A k \in 1..Len(s) : s[k] \in Message
  OBVIOUS
<1> HIDE DEF r
<1>3. ToSet(s) = {Head(s)} \cup ToSet(r)
  <2>1. \A k \in DOMAIN s : s[k] \in {Head(s)} \cup ToSet(r)
    <3>1. SUFFICES ASSUME NEW k \in 1..Len(s), k # 1 PROVE s[k] \in ToSet(r)
      BY <1>2
    <3>2. k - 1 \in 1..(Len(s) - 1) /\ (k - 1) + 1 = k
      BY <1>1, <3>1
    <3> QED BY <1>1, <3>2 DEF ToSet
  <2>2. \A k \in DOMAIN r : r[k] \in ToSet(s)
    <3>1. SUFFICES ASSUME NEW k \in 1..(Len(s) - 1) PROVE r[k] \in ToSet(s)
      BY <1>1
    <3>2. k + 1 \in 1..Len(s) /\ r[k] = s[k + 1]
      BY <1>1, <3>1
    <3> QED BY <1>2, <3>2 DEF ToSet
  <2>3. Head(s) \in ToSet(s)
    BY <1>1, <1>2 DEF ToSet
  <2> QED BY <2>1, <2>2, <2>3 DEF ToSet
<1>4. ASSUME Rising(s)
      PROVE  Rising(r) /\ \A j \in ToSet(r) : Head(s) < j
  <2>1. ASSUME NEW k \in 1..(Len(s) - 1), NEW l \in 1..(Len(s) - 1), k < l
        PROVE  r[k] < r[l]
    <3>1. k + 1 \in 1..Len(s) /\ l + 1 \in 1..Len(s) /\ k + 1 < l + 1
      BY <1>1, <2>1
    <3>2. s[k + 1] < s[l + 1]
      BY <1>2, <1>4, <3>1 DEF Rising
    <3> QED BY <1>1, <3>2
  <2>2. ASSUME NEW k \in 1..(Len(s) - 1)
        PROVE  Head(s) < r[k]
    <3>1. k + 1 \in 1..Len(s) /\ 1 \in 1..Len(s) /\ 1 < k + 1
      BY <1>1, <2>2
    <3>2. s[1] < s[k + 1]
      BY <1>2, <1>4, <3>1 DEF Rising
    <3> QED BY <1>1, <1>2, <3>2
  <2>3. Rising(r)
    BY <1>1, <2>1 DEF Rising
  <2> QED BY <1>1, <2>2, <2>3 DEF ToSet
<1>5. Head(s) \in Message
  BY <1>1, <1>2
<1> QED BY <1>1, <1>3, <1>4, <1>5 DEF r
-----------------------------------------------------------------------------
(* Type correctness.                                                       *)

\* What is known of numbers and of the fields of a session.
LEMMA TalkFields ==
  ASSUME ChatTyped, NEW n \in Talk
  PROVE  /\ talk \in [Talk -> TalkRecord] /\ talk[n] \in TalkRecord /\ chat \in Talk
         /\ talk[n].line \in Seq(Message) /\ talk[n].turn \in 0..MaxMessages
         /\ talk[n].paused \in 0..MaxMessages /\ talk[n].open \in BOOLEAN /\ talk[n].resumed \in BOOLEAN
         /\ talk[n].replies \subseteq Message /\ talk[n].record \in Talk
         /\ talk[n].at \in {"idle", "wait", "run"}
         /\ ToSet(talk[n].line) \subseteq Message
         /\ (talk[n].turn # None => talk[n].turn \in Message)
         /\ (talk[n].paused # None => talk[n].paused \in Message)
         /\ MaxMessages \in Nat /\ MaxResets \in Nat /\ arrived \in 0..MaxMessages
<1>1. talk \in [Talk -> TalkRecord] /\ chat \in Talk /\ arrived \in 0..MaxMessages
  BY DEF ChatTyped, ChatTypeOK, TalkRecord
<1>2. talk[n] \in TalkRecord
  BY <1>1
<1>3. MaxMessages \in Nat /\ MaxResets \in Nat
  BY ChannelAssumption
<1>4. /\ talk[n].line \in Seq(Message) /\ talk[n].turn \in 0..MaxMessages
      /\ talk[n].paused \in 0..MaxMessages /\ talk[n].open \in BOOLEAN /\ talk[n].resumed \in BOOLEAN
      /\ talk[n].replies \subseteq Message /\ talk[n].record \in Talk
      /\ talk[n].at \in {"idle", "wait", "run"}
  BY <1>2 DEF TalkRecord
<1>5. ToSet(talk[n].line) \subseteq Message
  BY <1>4, QueueIs
<1> QED BY <1>1, <1>2, <1>3, <1>4, <1>5 DEF Message, None

\* A session with another field is a session.
LEMMA FieldChanged ==
  ASSUME NEW t \in TalkRecord
  PROVE  /\ \A l \in Seq(Message) : [t EXCEPT !.line = l] \in TalkRecord
         /\ \A i \in 0..MaxMessages : [t EXCEPT !.turn = i] \in TalkRecord
         /\ \A i \in 0..MaxMessages : [t EXCEPT !.paused = i] \in TalkRecord
         /\ \A a \in {"idle", "wait", "run"} : [t EXCEPT !.at = a] \in TalkRecord
         /\ \A b \in BOOLEAN : [t EXCEPT !.open = b] \in TalkRecord /\ [t EXCEPT !.resumed = b] \in TalkRecord
         /\ \A s \in SUBSET Message : [t EXCEPT !.replies = s] \in TalkRecord
         /\ \A r \in Talk : [t EXCEPT !.record = r] \in TalkRecord
BY DEF TalkRecord

\* One session changes.
LEMMA TalkChanged ==
  ASSUME ChatTyped, NEW n \in Talk, NEW t \in TalkRecord, talk' = [talk EXCEPT ![n] = t]
  PROVE  /\ talk' \in [Talk -> TalkRecord] /\ talk'[n] = t /\ \A m \in Talk \ {n} : talk'[m] = talk[m]
BY TalkFields

\* A session at the end of a turn.
LEMMA TalkFreed ==
  ASSUME ChatTyped, NEW n \in Talk, NEW t \in TalkRecord, talk' = Freed(n, t)
  PROVE  /\ talk' \in [Talk -> TalkRecord] /\ \A m \in Talk \ {n} : talk'[m] = talk[m]
         /\ talk'[n] = [t EXCEPT !.turn = None, !.at = "idle", !.resumed = FALSE]
         /\ talk'[n].turn = None /\ talk'[n].at = "idle" /\ talk'[n].resumed = FALSE
         /\ talk'[n].line = t.line /\ talk'[n].open = t.open /\ talk'[n].paused = t.paused
         /\ talk'[n].replies = t.replies /\ talk'[n].record = t.record
<1> DEFINE f == [t EXCEPT !.turn = None, !.at = "idle", !.resumed = FALSE]
<1>1. None \in 0..MaxMessages
  BY ChannelAssumption DEF None
<1>2. f \in TalkRecord
  BY <1>1 DEF TalkRecord
<1>3. talk' = [talk EXCEPT ![n] = f]
  BY DEF Freed
<1>4. talk' \in [Talk -> TalkRecord] /\ talk'[n] = f /\ \A m \in Talk \ {n} : talk'[m] = talk[m]
  BY <1>2, <1>3, TalkChanged
<1>5. /\ f.turn = None /\ f.at = "idle" /\ f.resumed = FALSE /\ f.line = t.line
      /\ f.open = t.open /\ f.paused = t.paused /\ f.replies = t.replies /\ f.record = t.record
  BY DEF TalkRecord
<1> QED BY <1>4, <1>5

\* A pause is taken off the records of the chat's session, or none is.
LEMMA OffRecord ==
  ASSUME ChatTyped, NEW n \in Talk, TakeOffRecord(n)
  PROVE  /\ paper' \in [Talk -> 0..MaxMessages]
         /\ \A r \in Talk : paper'[r] \in {paper[r], None}
         /\ n # chat => paper' = paper
         /\ n = chat /\ Here.resumed => paper'[Here.record] = None
BY TalkFields DEF TakeOffRecord, ChatTyped, None, Here

\* Every step keeps the types.
LEMMA ChatTypeStep == ASSUME ChatTyped, [ChatNext]_chatVars PROVE ChatTyped'
<1>0. /\ talk \in [Talk -> TalkRecord] /\ chat \in Talk /\ closing \in [Talk -> 0..MaxResets]
      /\ arrived \in 0..MaxMessages /\ capture \in [Message -> {"none", "busy", "ready", "cancelled"}]
      /\ over \subseteq Message /\ dropped \subseteq Message /\ answered \subseteq Message
      /\ loaded \subseteq Message /\ paper \in [Talk -> 0..MaxMessages]
      /\ MaxMessages \in Nat /\ MaxResets \in Nat
  BY ChannelAssumption DEF ChatTyped, ChatTypeOK, TalkRecord
<1>1. SUFFICES /\ talk' \in [Talk -> TalkRecord] /\ chat' \in Talk /\ closing' \in [Talk -> 0..MaxResets]
               /\ arrived' \in 0..MaxMessages
               /\ capture' \in [Message -> {"none", "busy", "ready", "cancelled"}]
               /\ over' \subseteq Message /\ dropped' \subseteq Message /\ answered' \subseteq Message
               /\ loaded' \subseteq Message /\ paper' \in [Talk -> 0..MaxMessages]
  BY DEF ChatTyped, ChatTypeOK, TalkRecord
<1>2. \A n \in Talk :
        /\ talk[n] \in TalkRecord /\ talk[n].line \in Seq(Message) /\ talk[n].replies \subseteq Message
        /\ ToSet(talk[n].line) \subseteq Message /\ talk[n].record \in Talk
        /\ talk[n].turn \in 0..MaxMessages /\ talk[n].paused \in 0..MaxMessages
        /\ (talk[n].turn # None => talk[n].turn \in Message)
        /\ (talk[n].paused # None => talk[n].paused \in Message)
  BY TalkFields
<1>3. \A n \in Talk, t \in TalkRecord : talk' = Freed(n, t) => talk' \in [Talk -> TalkRecord]
  BY TalkFreed
<1>4. \A n \in Talk : TakeOffRecord(n) => paper' \in [Talk -> 0..MaxMessages]
  BY OffRecord
<1>5. None \in 0..MaxMessages /\ None \notin Message /\ Here = talk[chat]
  BY <1>0 DEF None, Message, Here
<1>6. CASE Dispatch
  <2>1. arrived + 1 \in Message /\ arrived + 1 \in 0..MaxMessages
    BY <1>0, <1>6 DEF Dispatch, Message
  <2> DEFINE t == [talk[chat] EXCEPT !.line = Append(@, arrived + 1), !.replies = @ \cup {arrived + 1}]
  <2>2. Append(talk[chat].line, arrived + 1) \in Seq(Message) /\ talk[chat].replies \cup {arrived + 1} \subseteq Message
    BY <1>0, <1>2, <2>1, QueueGrows
  <2>3. t \in TalkRecord
    <3>1. [talk[chat] EXCEPT !.line = Append(@, arrived + 1)] \in TalkRecord
      BY <1>0, <1>2, <2>2, FieldChanged
    <3>2. [talk[chat] EXCEPT !.line = Append(@, arrived + 1)].replies = talk[chat].replies
      BY <1>0, <1>2 DEF TalkRecord
    <3> QED BY <2>2, <3>1, <3>2, FieldChanged
  <2>4. talk' = [talk EXCEPT ![chat] = t]
    BY <1>0, <1>6 DEF Dispatch
  <2> QED BY <1>0, <1>6, <2>1, <2>3, <2>4 DEF Dispatch
<1>7. CASE \E i \in Message : Capture(i)
  BY <1>0, <1>7 DEF Capture
<1>8. CASE \E n \in Talk : \E i \in Message : TakeMessage(n, i)
  <2>1. PICK n \in Talk, i \in Message : TakeMessage(n, i)
    BY <1>8
  <2> DEFINE t == [talk[n] EXCEPT !.line = Tail(@), !.turn = i, !.at = "wait", !.resumed = (i = paper[talk[n].record])]
  <2>2. Tail(talk[n].line) \in Seq(Message) /\ i \in 0..MaxMessages
    <3>1. talk[n].line # <<>> /\ talk[n].line \in Seq(Message)
      BY <1>2, <2>1 DEF TakeMessage, IsHead
    <3>2. Tail(talk[n].line) \in Seq(Message)
      BY <3>1, QueueShrinks
    <3> QED BY <3>2 DEF Message
  <2>3. t \in TalkRecord
    <3>1. [talk[n] EXCEPT !.line = Tail(@)] \in TalkRecord
      BY <1>2, <2>2, FieldChanged
    <3>2. [talk[n] EXCEPT !.line = Tail(@), !.turn = i] \in TalkRecord
      BY <2>2, <3>1, FieldChanged
    <3>3. [talk[n] EXCEPT !.line = Tail(@), !.turn = i, !.at = "wait"] \in TalkRecord
      BY <3>2, FieldChanged
    <3> QED BY <3>3, FieldChanged
  <2>4. talk' = [talk EXCEPT ![n] = t]
    BY <1>0, <2>1 DEF TakeMessage
  <2> QED BY <1>0, <2>1, <2>3, <2>4 DEF TakeMessage
<1>9. CASE \E n \in Talk : NoDelivery(n)
  BY <1>0, <1>2, <1>3, <1>4, <1>9 DEF NoDelivery
<1>10. CASE \E n \in Talk : BeginTurn(n)
  <2>1. PICK n \in Talk : BeginTurn(n)
    BY <1>10
  <2>2. [talk[n] EXCEPT !.at = "run"] \in TalkRecord
    BY <1>2 DEF TalkRecord
  <2> QED BY <1>0, <2>1, <2>2 DEF BeginTurn
<1>11. CASE \E n \in Talk : EndTurn(n)
  <2>1. PICK n \in Talk : EndTurn(n)
    BY <1>11
  <2> DEFINE t == [talk[n] EXCEPT !.replies = @ \ {talk[n].turn}]
  <2>2. t \in TalkRecord
    BY <1>2 DEF TalkRecord
  <2>3. talk[n].turn \in Message
    BY <1>2, <2>1 DEF EndTurn
  <2>4. talk' = Freed(n, t) /\ TakeOffRecord(n)
    BY <2>1 DEF EndTurn
  <2> QED BY <1>0, <1>3, <1>4, <2>1, <2>2, <2>3, <2>4 DEF EndTurn
<1>12. CASE TransportFails
  <2> DEFINE t == [talk[chat] EXCEPT !.paused = talk[chat].turn, !.open = FALSE]
  <2>1. t \in TalkRecord
    <3>1. [talk[chat] EXCEPT !.paused = talk[chat].turn] \in TalkRecord
      BY <1>0, <1>2, FieldChanged
    <3> QED BY <3>1, FieldChanged
  <2>2. talk' = Freed(chat, t) /\ paper' = [paper EXCEPT ![talk[chat].record] = talk[chat].turn]
    BY <1>12 DEF TransportFails, Here
  <2>3. paper' \in [Talk -> 0..MaxMessages]
    BY <1>0, <1>2, <2>2
  <2> QED BY <1>0, <1>3, <1>12, <2>1, <2>2, <2>3 DEF TransportFails
<1>13. CASE Resume
  <2> DEFINE first == [talk[chat] EXCEPT !.paused = None, !.open = TRUE]
             t == IF Working(chat) THEN [first EXCEPT !.line = <<talk[chat].paused>> \o @]
                    ELSE [first EXCEPT !.turn = talk[chat].paused, !.at = "wait", !.resumed = TRUE]
  <2>1. talk[chat].paused \in Message /\ talk[chat].paused \in 0..MaxMessages
    BY <1>0, <1>2, <1>5, <1>13 DEF Resume
  <2>2. first \in TalkRecord /\ first.line = talk[chat].line
    <3>1. [talk[chat] EXCEPT !.paused = None] \in TalkRecord
      BY <1>0, <1>2, <1>5, FieldChanged
    <3>2. first \in TalkRecord
      BY <3>1, FieldChanged
    <3> QED BY <1>0, <1>2, <3>2 DEF TalkRecord
  <2>3. <<talk[chat].paused>> \o talk[chat].line \in Seq(Message)
    BY <1>0, <1>2, <2>1
  <2>4. [first EXCEPT !.line = <<talk[chat].paused>> \o @] \in TalkRecord
    BY <2>2, <2>3 DEF TalkRecord
  <2>5. [first EXCEPT !.turn = talk[chat].paused, !.at = "wait", !.resumed = TRUE] \in TalkRecord
    BY <2>1, <2>2 DEF TalkRecord
  <2>6. t \in TalkRecord
    BY <2>4, <2>5
  <2>7. talk' = [talk EXCEPT ![chat] = t]
    BY <1>13 DEF Resume, Here
  <2> QED BY <1>0, <1>13, <2>6, <2>7 DEF Resume
<1>14. CASE StopTurn
  <2> DEFINE t == [talk[chat] EXCEPT !.replies = @ \ {talk[chat].turn}]
  <2>1. t \in TalkRecord
    BY <1>0, <1>2, FieldChanged
  <2>2. talk[chat].turn \in Message
    BY <1>0, <1>2, <1>14 DEF StopTurn, Working
  <2>3. talk' = Freed(chat, t)
    BY <1>14 DEF StopTurn, Here
  <2> QED BY <1>0, <1>3, <1>5, <1>14, <2>1, <2>2, <2>3 DEF StopTurn
<1>15. CASE \E preserve \in BOOLEAN : Reset(preserve)
  <2>1. PICK preserve \in BOOLEAN : Reset(preserve)
    BY <1>15
  <2> DEFINE moved == IF preserve THEN talk[chat].line ELSE <<>>
             gone  == {talk[chat].turn, talk[chat].paused} \cup (ToSet(talk[chat].line) \ ToSet(moved))
             old   == [talk[chat] EXCEPT !.line = <<>>, !.paused = None, !.open = TRUE]
  <2>2. chat + 1 \in Talk /\ chat \in 0..MaxResets
    BY <1>0, <2>1 DEF Reset, Talk
  <2> DEFINE new == [talk[chat + 1] EXCEPT !.line = moved, !.replies = ToSet(moved), !.open = FALSE]
  <2>3. moved \in Seq(Message) /\ ToSet(moved) \subseteq Message /\ gone \ {None} \subseteq Message
    BY <1>0, <1>2, EmptyQueue
  <2>4. old \in TalkRecord /\ new \in TalkRecord
    <3>1. [talk[chat] EXCEPT !.line = <<>>] \in TalkRecord
      BY <1>0, <1>2, EmptyQueue, FieldChanged
    <3>2. [talk[chat] EXCEPT !.line = <<>>, !.paused = None] \in TalkRecord
      BY <1>5, <3>1, FieldChanged
    <3>3. old \in TalkRecord
      BY <3>2, FieldChanged
    <3> HIDE DEF moved
    <3>4. [talk[chat + 1] EXCEPT !.line = moved] \in TalkRecord
      BY <1>2, <2>2, <2>3, FieldChanged
    <3>5. [talk[chat + 1] EXCEPT !.line = moved, !.replies = ToSet(moved)] \in TalkRecord
      BY <2>3, <3>4, FieldChanged
    <3>6. new \in TalkRecord
      BY <3>5, FieldChanged
    <3> QED BY <3>3, <3>6
  <2>5. talk' = [talk EXCEPT ![chat] = old, ![chat + 1] = new]
    <3>1. chat + 1 # chat
      BY <1>0 DEF Talk
    <3> QED BY <1>0, <2>1, <2>2, <3>1 DEF Reset, Here
  <2>6. talk' \in [Talk -> TalkRecord]
    BY <1>0, <2>2, <2>4, <2>5
  <2>7. over' \subseteq Message /\ dropped' \subseteq Message
    BY <1>0, <2>1, <2>3 DEF Reset, Here
  <2>8. /\ chat' = chat + 1 /\ closing' = [closing EXCEPT ![chat + 1] = chat]
        /\ capture' \in [Message -> {"none", "busy", "ready", "cancelled"}]
        /\ UNCHANGED <<arrived, paper, answered, loaded>>
    BY <1>0, <2>1 DEF Reset
  <2> QED BY <1>0, <2>2, <2>6, <2>7, <2>8
<1>16. CASE \E n \in Talk : CancelOld(n)
  <2>1. PICK n \in Talk : CancelOld(n)
    BY <1>16
  <2>2. closing[n] \in Talk
    BY <1>0, <2>1 DEF CancelOld, Talk
  <2> QED BY <1>0, <1>2, <1>3, <2>1, <2>2 DEF CancelOld
<1>17. CASE \E n \in Talk : Closed(n)
  <2>1. PICK n \in Talk : Closed(n)
    BY <1>17
  <2>2. [talk[n] EXCEPT !.open = TRUE] \in TalkRecord
    BY <1>2, FieldChanged
  <2>3. 0 \in 0..MaxResets
    BY <1>0
  <2> QED BY <1>0, <2>1, <2>2, <2>3 DEF Closed
<1>18. CASE \E r \in Talk : LoadRecord(r)
  <2>1. PICK r \in Talk : LoadRecord(r)
    BY <1>18
  <2> DEFINE t == [talk[chat] EXCEPT !.line = <<>>, !.replies = {}, !.paused = paper[r], !.open = FALSE, !.record = r]
  <2>2. paper[r] \in Message /\ paper[r] \in 0..MaxMessages
    BY <1>0, <2>1 DEF LoadRecord, None, Message
  <2>3. t \in TalkRecord
    <3>1. [talk[chat] EXCEPT !.line = <<>>] \in TalkRecord
      BY <1>0, <1>2, EmptyQueue, FieldChanged
    <3>2. [talk[chat] EXCEPT !.line = <<>>, !.replies = {}] \in TalkRecord
      BY <3>1, FieldChanged
    <3>3. [talk[chat] EXCEPT !.line = <<>>, !.replies = {}, !.paused = paper[r]] \in TalkRecord
      BY <2>2, <3>2, FieldChanged
    <3>4. [talk[chat] EXCEPT !.line = <<>>, !.replies = {}, !.paused = paper[r], !.open = FALSE] \in TalkRecord
      BY <3>3, FieldChanged
    <3> QED BY <3>4, FieldChanged
  <2>4. talk' = [talk EXCEPT ![chat] = t] /\ loaded' = loaded \cup {paper[r]} /\ dropped' \subseteq dropped
        /\ over' \subseteq over \cup ToSet(talk[chat].line) \cup ({talk[chat].paused} \ {None})
    BY <2>1 DEF LoadRecord, Here
  <2>5. over' \subseteq Message /\ talk' \in [Talk -> TalkRecord]
    BY <1>0, <1>2, <2>3, <2>4
  <2> QED BY <1>0, <2>1, <2>2, <2>4, <2>5 DEF LoadRecord
<1>19. CASE UNCHANGED chatVars
  BY <1>0, <1>19 DEF chatVars
<1> QED
  BY <1>6, <1>7, <1>8, <1>9, <1>10, <1>11, <1>12, <1>13, <1>14, <1>15, <1>16, <1>17, <1>18, <1>19
     DEF ChatNext
-----------------------------------------------------------------------------
(* Every step keeps what holds of the messages.                            *)

\* What is known of the chat's session.
LEMMA HereFields ==
  ASSUME ChatTyped
  PROVE  /\ chat \in Talk /\ Here = talk[chat] /\ Here \in TalkRecord /\ talk \in [Talk -> TalkRecord]
         /\ Here.line \in Seq(Message) /\ Here.turn \in Nat /\ Here.paused \in Nat
         /\ (Here.turn # None => Here.turn \in Message) /\ (Here.paused # None => Here.paused \in Message)
         /\ Here.open \in BOOLEAN /\ Here.resumed \in BOOLEAN /\ Here.record \in Talk
         /\ ToSet(Here.line) \subseteq Message /\ Here.replies \subseteq Message
         /\ (Working(chat) <=> Here.turn # None)
         /\ None = 0 /\ None \notin Message /\ Message \subseteq Nat /\ Talk \subseteq Nat
         /\ arrived \in Nat /\ arrived <= MaxMessages /\ MaxMessages \in Nat
         /\ 1..arrived \subseteq Message /\ MaxResets \in Nat
<1>1. /\ chat \in Talk /\ Here = talk[chat] /\ (Working(chat) <=> Here.turn # None)
      /\ None = 0 /\ None \notin Message /\ Message \subseteq Nat /\ Talk \subseteq Nat
  BY TalkFields DEF ChatTyped, ChatTypeOK, Here, Working, None, Message, Talk
<1>2. /\ MaxMessages \in Nat /\ MaxResets \in Nat /\ arrived \in 0..MaxMessages
  BY ChannelAssumption DEF ChatTyped, ChatTypeOK
<1>3. /\ Here \in TalkRecord /\ talk \in [Talk -> TalkRecord]
      /\ Here.line \in Seq(Message) /\ Here.turn \in 0..MaxMessages /\ Here.paused \in 0..MaxMessages
      /\ (Here.turn # None => Here.turn \in Message) /\ (Here.paused # None => Here.paused \in Message)
      /\ Here.open \in BOOLEAN /\ Here.resumed \in BOOLEAN /\ Here.record \in Talk
      /\ ToSet(Here.line) \subseteq Message /\ Here.replies \subseteq Message
  BY <1>1, TalkFields
<1>4. Here.turn \in Nat /\ Here.paused \in Nat
  BY <1>3
<1>5. arrived \in Nat /\ arrived <= MaxMessages /\ 1..arrived \subseteq Message
  BY <1>2 DEF Message
<1> QED BY <1>1, <1>2, <1>3, <1>4, <1>5

\* A step beside the chat's turn and queue.
LEMMA StepBeside ==
  ASSUME ChatTyped, ChatParts,
         chat' = chat, closing' = closing, arrived' = arrived, paper' = paper,
         dropped' = dropped, answered' = answered, loaded' = loaded, over \subseteq over',
         Here'.line = Here.line, Here'.turn = Here.turn, Here'.paused = Here.paused,
         Here'.open = Here.open, Here'.resumed = Here.resumed, Here'.replies = Here.replies,
         Here'.record = Here.record,
         \A n \in Talk \ {chat} :
           talk'[n] = talk[n] \/ (n <= chat /\ talk'[n].line = talk[n].line /\ (Working(n)' => Working(n))),
         \A n \in Talk : talk'[n].at # "idle" => Working(n)'
  PROVE  ChatParts'
<1>1. Working(chat)' <=> Working(chat)
  BY DEF Working, Here
<1>2. Papers' = Papers
  BY DEF Papers
<1>3. OnlyArrived'
  BY DEF ChatParts, OnlyArrived
<1>4. OthersAreEmpty'
  <2>1. chat \in Nat /\ Talk \subseteq Nat
    BY HereFields
  <2> QED BY <2>1 DEF ChatParts, OthersAreEmpty, NewTalk
<1>5. OneCloses'
  BY <1>1 DEF ChatParts, OneCloses, Working
<1>6. PauseIsOnRecord' /\ TurnIsOnRecord'
  BY <1>1, <1>2 DEF ChatParts, PauseIsOnRecord, TurnIsOnRecord
<1>7. QueueIsNew' /\ NoneIsSettled'
  BY <1>2 DEF ChatParts, QueueIsNew, NoneIsSettled
<1>8. AllAreAccounted'
  BY DEF ChatParts, AllAreAccounted
<1> QED BY <1>3, <1>4, <1>5, <1>6, <1>7, <1>8 DEF ChatParts

\* The turn of the chat's session is over.
LEMMA TurnIsOver ==
  ASSUME ChatTyped, ChatParts, Working(chat),
         chat' = chat, closing' = closing, arrived' = arrived,
         dropped' = dropped, loaded' = loaded, over \subseteq over',
         Here'.line = Here.line, Here'.turn = None, Here'.at = "idle", Here'.paused = Here.paused,
         Here'.open = Here.open, Here'.resumed = FALSE, Here'.record = Here.record,
         Here.replies \ {Here.turn} \subseteq Here'.replies,
         paper' \in [Talk -> 0..MaxMessages], \A r \in Talk : paper'[r] \in {paper[r], None},
         Here.turn \in over' \cup loaded,
         \/ answered' = answered
         \/ answered' = answered \cup {Here.turn} /\ (Here.resumed => paper'[Here.record] = None),
         \A n \in Talk \ {chat} : talk'[n] = talk[n]
  PROVE  ChatParts'
<1>0. /\ chat \in Talk /\ Here.turn \in Message /\ ToSet(Here.line) \subseteq Message /\ None = 0
      /\ arrived \in Nat /\ Here.record \in Talk /\ MaxMessages \in Nat /\ Message \subseteq Nat
      /\ None \notin Message
  BY HereFields
<1>1. ~Working(chat)' /\ Here'.paused = None
  BY DEF Working, Here, ChatParts, PauseIsOnRecord
<1>2. Papers' \subseteq Papers
  BY DEF Papers
<1>3. Here.turn \in Papers => Here.resumed /\ paper[Here.record] = Here.turn
  BY DEF ChatParts, TurnIsOnRecord
<1>4. Here.turn \notin ToSet(Here.line)
  <2>1. CASE Here.turn \in Papers \cup loaded
    BY <2>1 DEF ChatParts, QueueIsNew
  <2>2. CASE Here.turn \notin loaded
    <3>1. Here.turn \in {Here.turn, Here.paused} \ (loaded \cup {None})
      BY <1>0, <2>2
    <3>2. \A j \in ToSet(Here.line) : Here.turn < j
      BY <3>1 DEF ChatParts, QueueIsNew
    <3>3. SUFFICES ASSUME Here.turn \in ToSet(Here.line) PROVE FALSE
      OBVIOUS
    <3>4. Here.turn < Here.turn
      BY <3>2, <3>3
    <3>5. Here.turn \in Nat
      BY <1>0
    <3> QED BY <3>4, <3>5
  <2> QED BY <2>1, <2>2
<1>5. answered' # answered => Here.turn \notin Papers'
  <2>1. SUFFICES ASSUME answered' # answered, NEW r \in Talk, paper'[r] = Here.turn PROVE FALSE
    BY DEF Papers
  <2>2. paper[r] = Here.turn /\ Here.turn # None
    BY <1>0, <2>1 DEF Message
  <2>3. Here.turn \in Papers
    BY <2>2 DEF Papers
  <2>4. r = Here.record
    BY <1>0, <1>3, <2>2, <2>3 DEF ChatParts, PauseIsOnRecord
  <2> QED BY <1>3, <2>1, <2>2, <2>3, <2>4
<1>6. OnlyArrived'
  <2>1. paper' \in [Talk -> 0..arrived] /\ Here.turn \in 1..arrived
    BY <1>0 DEF ChatParts, OnlyArrived, Message
  <2> QED BY <1>0, <1>1, <2>1 DEF ChatParts, OnlyArrived
<1>7. OthersAreEmpty'
  BY DEF ChatParts, OthersAreEmpty, NewTalk
<1>8. OneCloses'
  BY <1>1 DEF ChatParts, OneCloses, Working
<1>9. PauseIsOnRecord'
  BY <1>1 DEF ChatParts, PauseIsOnRecord
<1>10. TurnIsOnRecord'
  <2>1. \A n \in Talk : talk'[n].at # "idle" => Working(n)'
    BY DEF ChatParts, TurnIsOnRecord, Working, Here
  <2> QED BY <1>1, <2>1 DEF ChatParts, TurnIsOnRecord
<1>11. QueueIsNew'
  BY <1>0, <1>1, <1>2, <1>4 DEF ChatParts, QueueIsNew
<1>12. NoneIsSettled'
  <2>1. None \notin answered' /\ None \notin dropped
    <3>1. None \notin answered /\ None \notin dropped
      BY <1>0 DEF ChatParts, OnlyArrived
    <3> QED BY <1>0, <3>1
  <2> QED BY <1>0, <1>1, <1>2, <1>5, <2>1 DEF ChatParts, NoneIsSettled
<1>13. AllAreAccounted'
  BY <1>0, <1>1, <1>4 DEF ChatParts, AllAreAccounted
<1> QED BY <1>6, <1>7, <1>8, <1>9, <1>10, <1>11, <1>12, <1>13 DEF ChatParts

\* A message joins the queue.
LEMMA DispatchStep == ASSUME ChatTyped, ChatParts, Dispatch PROVE ChatParts'
<1> DEFINE i == arrived + 1
<1>0. /\ chat \in Talk /\ Here.line \in Seq(Message) /\ None = 0 /\ Here \in TalkRecord
      /\ arrived \in Nat /\ i \in Message /\ MaxMessages \in Nat /\ Message \subseteq Nat
      /\ Here.turn \in Nat /\ Here.paused \in Nat /\ ToSet(Here.line) \subseteq 1..arrived
      /\ talk \in [Talk -> TalkRecord] /\ Here = talk[chat]
  <2>1. i \in Message
    BY HereFields DEF Dispatch, Message
  <2> QED BY <2>1, HereFields DEF ChatParts, OnlyArrived
<1>1. /\ chat' = chat /\ closing' = closing /\ arrived' = i /\ paper' = paper /\ over' = over
      /\ dropped' = dropped /\ answered' = answered /\ loaded' = loaded
      /\ talk' = [talk EXCEPT ![chat].line = Append(@, i), ![chat].replies = @ \cup {i}]
  BY DEF Dispatch
<1>2. /\ Here'.line = Append(Here.line, i) /\ Here'.replies = Here.replies \cup {i}
      /\ Here'.turn = Here.turn /\ Here'.paused = Here.paused /\ Here'.at = Here.at
      /\ Here'.open = Here.open /\ Here'.resumed = Here.resumed /\ Here'.record = Here.record
      /\ \A n \in Talk \ {chat} : talk'[n] = talk[n]
  <2>1. /\ talk'[chat] = [talk[chat] EXCEPT !.line = Append(@, i), !.replies = @ \cup {i}]
        /\ \A n \in Talk \ {chat} : talk'[n] = talk[n]
    BY <1>0, <1>1
  <2>2. Here' = [Here EXCEPT !.line = Append(@, i), !.replies = @ \cup {i}]
    BY <1>0, <1>1, <2>1 DEF Here
  <2> QED BY <1>0, <2>1, <2>2 DEF TalkRecord
<1>3. /\ ToSet(Here'.line) = ToSet(Here.line) \cup {i}
      /\ Rising(Here.line) => Rising(Here'.line)
  <2>1. \A j \in ToSet(Here.line) : j < i
    BY <1>0
  <2> QED BY <1>0, <1>2, <2>1, QueueGrows
<1>4. Papers' = Papers /\ (Working(chat)' <=> Working(chat))
  BY <1>1, <1>2 DEF Papers, Working, Here
<1>5. OnlyArrived'
  <2>1. 0..arrived \subseteq 0..i /\ 1..arrived \subseteq 1..i /\ i \in 1..i
    BY <1>0
  <2>2. paper' \in [Talk -> 0..i]
    BY <1>1, <2>1 DEF ChatParts, OnlyArrived
  <2>3. Here'.turn <= i /\ Here'.paused <= i
    BY <1>0, <1>2 DEF ChatParts, OnlyArrived
  <2>4. ToSet(Here'.line) \subseteq 1..i /\ answered' \cup dropped' \cup loaded' \subseteq 1..i
    BY <1>0, <1>1, <1>3, <2>1 DEF ChatParts, OnlyArrived
  <2> QED BY <1>1, <2>2, <2>3, <2>4 DEF OnlyArrived
<1>6. OthersAreEmpty'
  BY <1>1, <1>2 DEF ChatParts, OthersAreEmpty, NewTalk
<1>7. OneCloses'
  BY <1>1, <1>2, <1>4 DEF ChatParts, OneCloses, Working
<1>8. PauseIsOnRecord'
  BY <1>1, <1>2, <1>4 DEF ChatParts, PauseIsOnRecord
<1>9. TurnIsOnRecord'
  <2>1. \A n \in Talk : talk'[n].at # "idle" => Working(n)'
    BY <1>0, <1>1, <1>2 DEF ChatParts, TurnIsOnRecord, Working, Here
  <2> QED BY <1>1, <1>2, <1>4, <2>1 DEF ChatParts, TurnIsOnRecord
<1>10. QueueIsNew'
  <2>1. i \notin loaded \cup answered \cup dropped \cup Papers
    BY <1>0 DEF ChatParts, OnlyArrived, Papers
  <2>2. Here.turn < i /\ Here.paused < i
    BY <1>0 DEF ChatParts, OnlyArrived
  <2> QED BY <1>1, <1>2, <1>3, <1>4, <2>1, <2>2 DEF ChatParts, QueueIsNew
<1>11. NoneIsSettled'
  BY <1>1, <1>2, <1>4 DEF ChatParts, NoneIsSettled
<1>12. AllAreAccounted'
  <2>1. 1..i = 1..arrived \cup {i}
    BY <1>0
  <2> QED BY <1>1, <1>2, <1>3, <2>1 DEF ChatParts, AllAreAccounted
<1> QED BY <1>5, <1>6, <1>7, <1>8, <1>9, <1>10, <1>11, <1>12 DEF ChatParts

\* The head of the queue is taken: it is the chat's own queue, and nothing is
\* being closed or paused.
LEMMA TakeMessageStep ==
  ASSUME ChatTyped, ChatParts, NEW n \in Talk, NEW i \in Message, TakeMessage(n, i)
  PROVE  ChatParts'
<1>0. /\ chat \in Talk /\ Here.line \in Seq(Message) /\ None = 0 /\ Here \in TalkRecord
      /\ arrived \in Nat /\ MaxMessages \in Nat /\ Message \subseteq Nat
      /\ Here.record \in Talk /\ ToSet(Here.line) \subseteq 1..arrived
      /\ talk \in [Talk -> TalkRecord] /\ Here = talk[chat]
  BY HereFields DEF ChatParts, OnlyArrived
<1>1. n = chat /\ Here.line # <<>> /\ Head(Here.line) = i /\ Here.open /\ ~Working(chat)
  BY DEF TakeMessage, IsHead, ChatParts, OthersAreEmpty, Here
<1>2. closing[chat] = 0 /\ Here.paused = None /\ Here.turn = None
  BY <1>1 DEF ChatParts, OneCloses, PauseIsOnRecord, Working, Here
<1>3. /\ Tail(Here.line) \in Seq(Message) /\ ToSet(Here.line) = {i} \cup ToSet(Tail(Here.line))
      /\ Rising(Tail(Here.line)) /\ \A j \in ToSet(Tail(Here.line)) : i < j
  BY <1>0, <1>1, QueueShrinks DEF ChatParts, QueueIsNew
<1>4. i \notin loaded \cup answered \cup dropped \cup Papers /\ i \in 1..arrived
  BY <1>0, <1>3 DEF ChatParts, QueueIsNew
<1>5. i # paper[Here.record]
  BY <1>0, <1>4 DEF Papers, Message
<1>6. /\ chat' = chat /\ closing' = closing /\ arrived' = arrived /\ paper' = paper /\ over' = over
      /\ dropped' = dropped /\ answered' = answered /\ loaded' = loaded
      /\ talk' = [talk EXCEPT ![chat].line = Tail(@), ![chat].turn = i, ![chat].at = "wait",
                              ![chat].resumed = (i = paper[talk[chat].record])]
  BY <1>1 DEF TakeMessage
<1>7. /\ Here'.line = Tail(Here.line) /\ Here'.turn = i /\ Here'.at = "wait" /\ ~Here'.resumed
      /\ Here'.paused = None /\ Here'.open = Here.open /\ Here'.replies = Here.replies
      /\ Here'.record = Here.record /\ \A m \in Talk \ {chat} : talk'[m] = talk[m]
  <2>1. /\ talk'[chat] = [talk[chat] EXCEPT !.line = Tail(@), !.turn = i, !.at = "wait",
                                            !.resumed = (i = paper[talk[chat].record])]
        /\ \A m \in Talk \ {chat} : talk'[m] = talk[m]
    BY <1>0, <1>6
  <2>2. Here' = [Here EXCEPT !.line = Tail(@), !.turn = i, !.at = "wait",
                             !.resumed = (i = paper[Here.record])]
    BY <1>0, <1>6, <2>1 DEF Here
  <2> QED BY <1>0, <1>2, <1>5, <2>1, <2>2 DEF TalkRecord
<1>8. Papers' = Papers /\ Working(chat)'
  BY <1>0, <1>6, <1>7 DEF Papers, Working, Here, Message
<1>9. OnlyArrived'
  BY <1>0, <1>3, <1>4, <1>6, <1>7 DEF ChatParts, OnlyArrived
<1>10. OthersAreEmpty'
  BY <1>6, <1>7 DEF ChatParts, OthersAreEmpty, NewTalk
<1>11. OneCloses'
  BY <1>2, <1>6, <1>7 DEF ChatParts, OneCloses, Working
<1>12. PauseIsOnRecord'
  BY <1>6, <1>7 DEF ChatParts, PauseIsOnRecord
<1>13. TurnIsOnRecord'
  <2>1. \A m \in Talk : talk'[m].at # "idle" => Working(m)'
    BY <1>6, <1>7, <1>8 DEF ChatParts, TurnIsOnRecord, Working
  <2> QED BY <1>4, <1>6, <1>7, <1>8, <2>1 DEF ChatParts, TurnIsOnRecord
<1>14. QueueIsNew'
  BY <1>3, <1>6, <1>7, <1>8 DEF ChatParts, QueueIsNew
<1>15. NoneIsSettled'
  BY <1>2, <1>4, <1>6, <1>7, <1>8 DEF ChatParts, NoneIsSettled
<1>16. AllAreAccounted'
  BY <1>2, <1>3, <1>6, <1>7 DEF ChatParts, AllAreAccounted
<1> QED BY <1>9, <1>10, <1>11, <1>12, <1>13, <1>14, <1>15, <1>16 DEF ChatParts

\* The turn is paused by its transport.
LEMMA TransportFailsStep == ASSUME ChatTyped, ChatParts, TransportFails PROVE ChatParts'
<1> DEFINE i == Here.turn
<1>0. /\ chat \in Talk /\ Here = talk[chat] /\ Here \in TalkRecord /\ talk \in [Talk -> TalkRecord]
      /\ None = 0 /\ None \notin Message /\ Message \subseteq Nat /\ ToSet(Here.line) \subseteq Message
      /\ Here.record \in Talk /\ arrived \in Nat /\ MaxMessages \in Nat
  BY HereFields
<1>1. /\ chat' = chat /\ closing' = closing /\ arrived' = arrived /\ over' = over
      /\ dropped' = dropped /\ answered' = answered /\ loaded' = loaded
      /\ talk' = Freed(chat, [Here EXCEPT !.paused = i, !.open = FALSE])
      /\ paper' = [paper EXCEPT ![Here.record] = i] /\ Here.at = "run"
  BY DEF TransportFails
<1>2. Working(chat) /\ i \in Message
  BY <1>0, <1>1, HereFields DEF ChatParts, TurnIsOnRecord
<1>3. Here.paused = None /\ closing[chat] = 0
  BY <1>2 DEF ChatParts, PauseIsOnRecord, OneCloses
<1>4. /\ Here'.line = Here.line /\ Here'.turn = None /\ Here'.at = "idle" /\ Here'.paused = i
      /\ Here'.open = FALSE /\ Here'.resumed = FALSE /\ Here'.record = Here.record
      /\ Here'.replies = Here.replies /\ \A m \in Talk \ {chat} : talk'[m] = talk[m]
  <2> DEFINE t == [Here EXCEPT !.paused = i, !.open = FALSE]
  <2>1. [Here EXCEPT !.paused = i] \in TalkRecord
    <3>1. i \in 0..MaxMessages
      BY <1>2 DEF Message
    <3> QED BY <1>0, <3>1, FieldChanged
  <2>2. t \in TalkRecord
    BY <2>1, FieldChanged
  <2>3. t.line = Here.line /\ t.paused = i /\ t.open = FALSE /\ t.record = Here.record /\ t.replies = Here.replies
    BY <1>0 DEF TalkRecord
  <2>4. Here' = talk'[chat]
    BY <1>1 DEF Here
  <2> HIDE DEF t
  <2>5. talk' = Freed(chat, t)
    BY <1>1 DEF t
  <2> QED BY <1>0, <2>2, <2>3, <2>4, <2>5, TalkFreed
<1>5. /\ paper' \in [Talk -> 0..arrived] /\ paper'[Here.record] = i
      /\ \A r \in Talk \ {Here.record} : paper'[r] = paper[r]
  <2>1. paper \in [Talk -> 0..arrived] /\ i \in 0..arrived
    <3>1. paper \in [Talk -> 0..arrived] /\ i <= arrived
      BY DEF ChatParts, OnlyArrived
    <3>2. i \in Nat
      BY <1>0, <1>2
    <3> HIDE DEF i
    <3> QED BY <1>0, <3>1, <3>2
  <2> QED BY <1>0, <1>1, <2>1
<1>6. i \notin ToSet(Here.line)
  <2>1. CASE Here.resumed
    <3>1. i \in Papers
      BY <1>0, <1>2, <2>1 DEF ChatParts, TurnIsOnRecord, Papers
    <3> QED BY <3>1 DEF ChatParts, QueueIsNew
  <2>2. CASE ~Here.resumed
    <3>1. i \in {Here.turn, Here.paused} \ (loaded \cup {None})
      BY <1>0, <1>2, <2>2 DEF ChatParts, TurnIsOnRecord
    <3>2. \A j \in ToSet(Here.line) : i < j
      BY <3>1 DEF ChatParts, QueueIsNew
    <3>3. SUFFICES ASSUME i \in ToSet(Here.line) PROVE FALSE
      OBVIOUS
    <3>4. i < i
      BY <3>2, <3>3
    <3>5. i \in Nat
      BY <1>0, <1>2
    <3> QED BY <3>4, <3>5
  <2> QED BY <2>1, <2>2
<1>7. \A r \in Talk : paper[r] = i => r = Here.record
  <2>1. SUFFICES ASSUME NEW r \in Talk, paper[r] = i PROVE r = Here.record
    OBVIOUS
  <2>2. i \in Papers
    BY <1>0, <1>2, <2>1 DEF Papers
  <2>3. Here.resumed /\ paper[Here.record] = i
    BY <1>2, <2>2 DEF ChatParts, TurnIsOnRecord
  <2> QED BY <1>0, <1>2, <2>1, <2>3 DEF ChatParts, PauseIsOnRecord
<1>8. Papers' \subseteq Papers \cup {i}
  BY <1>5 DEF Papers
<1>9. ~Working(chat)'
  BY <1>1, <1>4 DEF Working, Here
<1>10. OnlyArrived'
  <2>1. i <= arrived /\ None <= arrived
    BY <1>0 DEF ChatParts, OnlyArrived
  <2> QED BY <1>1, <1>4, <1>5, <2>1 DEF ChatParts, OnlyArrived
<1>11. OthersAreEmpty'
  BY <1>1, <1>4 DEF ChatParts, OthersAreEmpty, NewTalk
<1>12. OneCloses'
  BY <1>1, <1>3, <1>4 DEF ChatParts, OneCloses, Working
<1>13. PauseIsOnRecord'
  <2>1. \A r, s \in Talk : paper'[r] = paper'[s] /\ paper'[r] # None => r = s
    BY <1>0, <1>5, <1>7 DEF ChatParts, PauseIsOnRecord
  <2> QED BY <1>1, <1>4, <1>5, <1>9, <2>1 DEF PauseIsOnRecord
<1>14. TurnIsOnRecord'
  <2>1. \A m \in Talk : talk'[m].at # "idle" => Working(m)'
    BY <1>0, <1>1, <1>4 DEF ChatParts, TurnIsOnRecord, Working, Here
  <2> QED BY <1>4, <1>9, <2>1 DEF TurnIsOnRecord
<1>15. QueueIsNew'
  BY <1>1, <1>4, <1>6, <1>8 DEF ChatParts, QueueIsNew
<1>16. NoneIsSettled'
  <2>1. None \notin answered /\ None \notin dropped
    BY <1>0 DEF ChatParts, OnlyArrived
  <2> QED BY <1>1, <1>4, <1>8, <2>1 DEF ChatParts, NoneIsSettled
<1>17. AllAreAccounted'
  BY <1>1, <1>3, <1>4 DEF ChatParts, AllAreAccounted
<1> QED BY <1>10, <1>11, <1>12, <1>13, <1>14, <1>15, <1>16, <1>17 DEF ChatParts

\* The paused message is taken again.
LEMMA ResumeStep == ASSUME ChatTyped, ChatParts, Resume PROVE ChatParts'
<1> DEFINE i == Here.paused
<1>0. /\ chat \in Talk /\ Here = talk[chat] /\ Here \in TalkRecord /\ talk \in [Talk -> TalkRecord]
      /\ None = 0 /\ None \notin Message /\ arrived \in Nat
  BY HereFields
<1>1. /\ chat' = chat /\ closing' = closing /\ arrived' = arrived /\ paper' = paper /\ over' = over
      /\ dropped' = dropped /\ answered' = answered /\ loaded' = loaded /\ i # None
  BY DEF Resume
<1>2. ~Working(chat) /\ Here.turn = None /\ paper[Here.record] = i /\ closing[chat] = 0
  BY <1>1, HereFields DEF ChatParts, PauseIsOnRecord, OneCloses
<1>3. talk' = [talk EXCEPT ![chat] =
        [Here EXCEPT !.paused = None, !.open = TRUE, !.turn = i, !.at = "wait", !.resumed = TRUE]]
  BY <1>2 DEF Resume
<1>4. /\ Here'.line = Here.line /\ Here'.turn = i /\ Here'.at = "wait" /\ Here'.paused = None
      /\ Here'.open = TRUE /\ Here'.resumed = TRUE /\ Here'.record = Here.record
      /\ Here'.replies = Here.replies /\ \A m \in Talk \ {chat} : talk'[m] = talk[m]
  <2>1. Here' = talk'[chat]
    BY <1>1 DEF Here
  <2>2. Here' = [Here EXCEPT !.paused = None, !.open = TRUE, !.turn = i, !.at = "wait", !.resumed = TRUE]
    BY <1>0, <1>3, <2>1
  <2> QED BY <1>0, <1>3, <2>2 DEF TalkRecord
<1>5. Working(chat)' /\ Papers' = Papers
  BY <1>1, <1>4 DEF Working, Here, Papers
<1>6. OnlyArrived'
  BY <1>0, <1>1, <1>4 DEF ChatParts, OnlyArrived
<1>7. OthersAreEmpty'
  BY <1>1, <1>4 DEF ChatParts, OthersAreEmpty, NewTalk
<1>8. OneCloses'
  BY <1>1, <1>2, <1>4 DEF ChatParts, OneCloses, Working
<1>9. PauseIsOnRecord'
  BY <1>1, <1>4 DEF ChatParts, PauseIsOnRecord
<1>10. TurnIsOnRecord'
  <2>1. \A m \in Talk : talk'[m].at # "idle" => Working(m)'
    BY <1>1, <1>4, <1>5 DEF ChatParts, TurnIsOnRecord, Working
  <2> QED BY <1>1, <1>2, <1>4, <1>5, <2>1 DEF TurnIsOnRecord
<1>11. QueueIsNew'
  BY <1>1, <1>2, <1>4, <1>5 DEF ChatParts, QueueIsNew
<1>12. NoneIsSettled'
  BY <1>1, <1>2, <1>4, <1>5 DEF ChatParts, NoneIsSettled
<1>13. AllAreAccounted'
  BY <1>1, <1>2, <1>4 DEF ChatParts, AllAreAccounted
<1> QED BY <1>6, <1>7, <1>8, <1>9, <1>10, <1>11, <1>12, <1>13 DEF ChatParts

\* The chat has a new session, with the queue or without.
LEMMA ResetStep ==
  ASSUME ChatTyped, ChatParts, NEW preserve \in BOOLEAN, Reset(preserve), ~overlapped'
  PROVE  ChatParts'
<1> DEFINE n     == chat + 1
           moved == IF preserve THEN Here.line ELSE <<>>
           gone  == ({Here.turn, Here.paused} \cup (ToSet(Here.line) \ ToSet(moved))) \ {None}
<1>0. /\ chat \in Talk /\ Here = talk[chat] /\ Here \in TalkRecord /\ talk \in [Talk -> TalkRecord]
      /\ None = 0 /\ None \notin Message /\ arrived \in Nat /\ Talk \subseteq Nat /\ 1..arrived \subseteq Message
      /\ Here.record \in Talk
  BY HereFields
<1>1. /\ chat' = n /\ arrived' = arrived /\ paper' = paper /\ answered' = answered /\ loaded' = loaded
      /\ over' = over \cup gone /\ dropped' = dropped \cup gone
      /\ closing' = [closing EXCEPT ![n] = chat] /\ closing[chat] = 0 /\ chat <= MaxResets
  BY DEF Reset
<1>2. n \in Talk /\ n # chat /\ n > chat /\ chat < n /\ closing \in [Talk -> 0..MaxResets]
  <2>1. chat \in 1..(MaxResets + 1) /\ chat <= MaxResets /\ MaxResets \in Nat
    BY <1>0, <1>1, ChannelAssumption DEF Talk
  <2>2. n \in 1..(MaxResets + 1) /\ n # chat /\ n > chat /\ chat < n
    BY <2>1
  <2>3. closing \in [Talk -> 0..MaxResets]
    BY DEF ChatTyped, ChatTypeOK
  <2> QED BY <2>2, <2>3 DEF Talk
<1>3. /\ \A m \in Talk \ {n} : closing'[m] = 0
      /\ closing'[n] = chat
  BY <1>0, <1>1, <1>2 DEF ChatParts, OneCloses
<1>4. /\ talk'[chat].line = <<>> /\ talk'[chat].at = Here.at /\ talk'[chat].turn = Here.turn
      /\ Here'.line = moved /\ Here'.replies = ToSet(moved) /\ Here'.open = FALSE
      /\ Here'.turn = None /\ Here'.at = "idle" /\ Here'.paused = None /\ Here'.resumed = FALSE
      /\ \A m \in Talk \ {chat, n} : talk'[m] = talk[m]
  <2> DEFINE old == [Here EXCEPT !.line = <<>>, !.paused = None, !.open = TRUE]
             new == [NewTalk(n) EXCEPT !.line = moved, !.replies = ToSet(moved), !.open = FALSE]
  <2>1. talk[n] = NewTalk(n)
    BY <1>2 DEF ChatParts, OthersAreEmpty
  <2>2. talk' = [talk EXCEPT ![chat].line = <<>>, ![chat].paused = None, ![chat].open = TRUE,
                             ![n].line = moved, ![n].replies = ToSet(moved), ![n].open = FALSE]
    BY DEF Reset
  <2>3. talk' = [talk EXCEPT ![chat] = old, ![n] = new]
    BY <1>0, <1>2, <2>1, <2>2
  <2>4. talk'[chat] = old /\ talk'[n] = new /\ \A m \in Talk \ {chat, n} : talk'[m] = talk[m]
    BY <1>0, <1>2, <2>3
  <2>5. Here' = new
    BY <1>1, <2>4 DEF Here
  <2>6. old.line = <<>> /\ old.at = Here.at /\ old.turn = Here.turn
    BY <1>0 DEF TalkRecord
  <2>7. /\ new.line = moved /\ new.replies = ToSet(moved) /\ new.open = FALSE
        /\ new.turn = None /\ new.at = "idle" /\ new.paused = None /\ new.resumed = FALSE
    BY DEF NewTalk
  <2> QED BY <2>4, <2>5, <2>6, <2>7
<1>5. ToSet(moved) \subseteq ToSet(Here.line) /\ Rising(moved)
  BY EmptyQueue DEF ChatParts, QueueIsNew
<1>6. gone \cap ToSet(moved) = {}
  <2>1. \A j \in {Here.turn, Here.paused} \ {None} : j \notin ToSet(Here.line)
    <3>1. SUFFICES ASSUME NEW j \in {Here.turn, Here.paused} \ {None}, j \in ToSet(Here.line) PROVE FALSE
      OBVIOUS
    <3>2. j \notin loaded \cup Papers
      BY <3>1 DEF ChatParts, QueueIsNew
    <3>3. j < j
      BY <3>1, <3>2 DEF ChatParts, QueueIsNew
    <3>4. j \in Nat
      BY <3>1, HereFields
    <3> QED BY <3>3, <3>4
  <2> QED BY <1>5, <2>1
<1> HIDE DEF n, moved, gone
<1>7. gone \subseteq 1..arrived /\ gone \cap answered = {}
  <2>1. {Here.turn, Here.paused} \ {None} \subseteq 1..arrived
    BY <1>0, HereFields DEF ChatParts, OnlyArrived, Message
  <2> QED BY <2>1 DEF ChatParts, OnlyArrived, NoneIsSettled, QueueIsNew, gone
<1>8. Papers' = Papers
  BY <1>1 DEF Papers
<1>9. ~Working(chat)'
  BY <1>1, <1>4 DEF Working, Here
<1>10. OnlyArrived'
  <2>1. ToSet(moved) \subseteq 1..arrived /\ None <= arrived
    BY <1>0, <1>5 DEF ChatParts, OnlyArrived
  <2> QED BY <1>1, <1>4, <1>7, <2>1 DEF ChatParts, OnlyArrived
<1>11. OthersAreEmpty'
  <2>1. \A m \in Talk : m > n => m > chat
    BY <1>0, <1>2
  <2>2. \A m \in Talk \ {n} : talk'[m].line = <<>>
    BY <1>4 DEF ChatParts, OthersAreEmpty
  <2>3. \A m \in Talk \ {n} : m > n => talk'[m] = NewTalk(m)
    <3>1. ~(chat > n)
      BY <1>0, <1>2
    <3> QED BY <1>4, <2>1, <3>1 DEF ChatParts, OthersAreEmpty
  <2> QED BY <1>1, <2>2, <2>3 DEF OthersAreEmpty, NewTalk
<1>12. OneCloses'
  <2>1. \A m \in Talk \ {chat} : ~Working(m)
    <3>1. \A m \in Talk : m # 0
      BY HereFields DEF Talk
    <3> QED BY <1>1, <3>1 DEF ChatParts, OneCloses
  <2>2. \A m \in Talk \ {n} : talk'[m].turn # None => m = chat
    BY <1>4, <2>1 DEF Working
  <2> QED BY <1>1, <1>2, <1>3, <1>4, <1>9, <2>2 DEF OneCloses, Working
<1>13. PauseIsOnRecord'
  BY <1>1, <1>4 DEF ChatParts, PauseIsOnRecord
<1>14. TurnIsOnRecord'
  <2>1. \A m \in Talk : talk'[m].at # "idle" => talk'[m].turn # None
    <3>1. \A m \in Talk : talk[m].at # "idle" => talk[m].turn # None
      BY DEF ChatParts, TurnIsOnRecord, Working
    <3>2. talk'[n].at = "idle"
      BY <1>1, <1>4 DEF Here
    <3> QED BY <1>0, <1>4, <3>1, <3>2
  <2> QED BY <1>4, <1>9, <2>1 DEF TurnIsOnRecord, Working
<1>15. QueueIsNew'
  BY <1>1, <1>4, <1>5, <1>6, <1>8 DEF ChatParts, QueueIsNew
<1>16. NoneIsSettled'
  <2>1. None \notin answered /\ None \notin dropped'
    BY <1>0, <1>1, <1>7 DEF ChatParts, OnlyArrived
  <2> QED BY <1>1, <1>4, <1>7, <1>8, <2>1 DEF ChatParts, NoneIsSettled
<1>17. AllAreAccounted'
  <2>1. ToSet(Here.line) \cup {Here.turn, Here.paused} \subseteq gone \cup ToSet(moved) \cup {None}
    BY DEF gone
  <2>2. 1..arrived \subseteq over \cup loaded \cup ToSet(Here.line) \cup {Here.turn, Here.paused}
    BY DEF ChatParts, AllAreAccounted
  <2> QED BY <1>1, <1>4, <2>1, <2>2 DEF AllAreAccounted
<1> QED BY <1>10, <1>11, <1>12, <1>13, <1>14, <1>15, <1>16, <1>17 DEF ChatParts

\* The former session has stopped: the chat's may work.
LEMMA ClosedStep == ASSUME ChatTyped, ChatParts, NEW n \in Talk, Closed(n) PROVE ChatParts'
<1>0. /\ chat \in Talk /\ Here = talk[chat] /\ Here \in TalkRecord /\ talk \in [Talk -> TalkRecord]
      /\ closing \in [Talk -> 0..MaxResets]
  BY HereFields DEF ChatTyped, ChatTypeOK
<1>1. /\ chat' = chat /\ arrived' = arrived /\ paper' = paper /\ over' = over
      /\ dropped' = dropped /\ answered' = answered /\ loaded' = loaded
      /\ closing' = [closing EXCEPT ![n] = 0] /\ talk' = [talk EXCEPT ![n].open = TRUE]
      /\ closing[n] # 0 /\ ~Working(closing[n])
  BY DEF Closed
<1>2. n = chat /\ ~Working(chat) /\ Here.paused = None /\ \A m \in Talk \ {chat} : ~Working(m)
  BY <1>1 DEF ChatParts, OneCloses
<1>3. \A m \in Talk : closing'[m] = 0
  BY <1>0, <1>1, <1>2 DEF ChatParts, OneCloses
<1>4. /\ Here'.line = Here.line /\ Here'.turn = Here.turn /\ Here'.at = Here.at
      /\ Here'.paused = None /\ Here'.resumed = Here.resumed /\ Here'.replies = Here.replies
      /\ Here'.record = Here.record /\ \A m \in Talk \ {chat} : talk'[m] = talk[m]
  <2>1. Here' = [Here EXCEPT !.open = TRUE]
    BY <1>0, <1>1, <1>2 DEF Here
  <2> QED BY <1>0, <1>1, <1>2, <2>1 DEF TalkRecord
<1>5. Papers' = Papers /\ ~Working(chat)'
  BY <1>1, <1>2, <1>4 DEF Papers, Working, Here
<1>6. OnlyArrived'
  BY <1>1, <1>2, <1>4 DEF ChatParts, OnlyArrived
<1>7. OthersAreEmpty'
  BY <1>1, <1>4 DEF ChatParts, OthersAreEmpty, NewTalk
<1>8. OneCloses'
  BY <1>0, <1>1, <1>2, <1>3, <1>4 DEF OneCloses, Working
<1>9. PauseIsOnRecord'
  BY <1>1, <1>4 DEF ChatParts, PauseIsOnRecord
<1>10. TurnIsOnRecord'
  <2>1. \A m \in Talk : talk'[m].at # "idle" => Working(m)'
    BY <1>0, <1>1, <1>4 DEF ChatParts, TurnIsOnRecord, Working, Here
  <2> QED BY <1>1, <1>2, <1>4, <1>5, <2>1 DEF ChatParts, TurnIsOnRecord
<1>11. QueueIsNew'
  BY <1>1, <1>2, <1>4, <1>5 DEF ChatParts, QueueIsNew
<1>12. NoneIsSettled'
  BY <1>1, <1>2, <1>4, <1>5 DEF ChatParts, NoneIsSettled
<1>13. AllAreAccounted'
  BY <1>1, <1>2, <1>4 DEF ChatParts, AllAreAccounted
<1> QED BY <1>6, <1>7, <1>8, <1>9, <1>10, <1>11, <1>12, <1>13 DEF ChatParts

\* A paused message comes back from the records.
LEMMA LoadRecordStep ==
  ASSUME ChatTyped, ChatParts, NEW r \in Talk, LoadRecord(r), ~overlapped'
  PROVE  ChatParts'
<1> DEFINE i == paper[r]
           held == {Here.paused} \ {None, i}
<1>0. /\ chat \in Talk /\ Here = talk[chat] /\ Here \in TalkRecord /\ talk \in [Talk -> TalkRecord]
      /\ None = 0 /\ None \notin Message /\ ToSet(Here.line) \subseteq Message /\ arrived \in Nat
  BY HereFields
<1>1. /\ chat' = chat /\ closing' = closing /\ arrived' = arrived /\ paper' = paper
      /\ answered' = answered /\ ~Working(chat) /\ i # None /\ closing[chat] = 0
      /\ over' = (over \cup ToSet(Here.line) \cup held) \ {i}
      /\ loaded' = loaded \cup {i} /\ dropped' = dropped \ {i}
      /\ talk' = [talk EXCEPT ![chat] =
           [Here EXCEPT !.line = <<>>, !.replies = {}, !.paused = i, !.open = FALSE, !.record = r]]
  BY DEF LoadRecord
<1>2. i \in Papers /\ i \in 1..arrived /\ i <= arrived /\ Here.turn = None
  <2>1. i \in 0..arrived /\ Here.turn = None
    BY <1>1, HereFields DEF ChatParts, OnlyArrived
  <2> QED BY <1>0, <1>1, <2>1 DEF Papers
<1>3. /\ Here'.line = <<>> /\ Here'.replies = {} /\ Here'.paused = i /\ Here'.open = FALSE
      /\ Here'.record = r /\ Here'.turn = None /\ Here'.at = Here.at /\ Here'.resumed = Here.resumed
      /\ \A m \in Talk \ {chat} : talk'[m] = talk[m]
  <2> DEFINE t == [Here EXCEPT !.line = <<>>, !.replies = {}, !.paused = i, !.open = FALSE, !.record = r]
  <2>1. talk'[chat] = t /\ \A m \in Talk \ {chat} : talk'[m] = talk[m]
    BY <1>0, <1>1
  <2>2. Here' = t
    BY <1>1, <2>1 DEF Here
  <2>3. /\ t.line = <<>> /\ t.replies = {} /\ t.paused = i /\ t.open = FALSE /\ t.record = r
        /\ t.turn = Here.turn /\ t.at = Here.at /\ t.resumed = Here.resumed
    BY <1>0 DEF TalkRecord
  <2> QED BY <1>2, <2>1, <2>2, <2>3
<1>4. Papers' = Papers /\ ~Working(chat)' /\ ToSet(Here'.line) = {} /\ Rising(Here'.line)
  BY <1>1, <1>3, EmptyQueue DEF Papers, Working, Here
<1> HIDE DEF i
<1>5. OnlyArrived'
  BY <1>0, <1>1, <1>2, <1>3, <1>4 DEF ChatParts, OnlyArrived
<1>6. OthersAreEmpty'
  BY <1>1, <1>3 DEF ChatParts, OthersAreEmpty, NewTalk
<1>7. OneCloses'
  BY <1>1, <1>3, <1>4 DEF ChatParts, OneCloses, Working
<1>8. PauseIsOnRecord'
  BY <1>1, <1>3, <1>4 DEF ChatParts, PauseIsOnRecord, i
<1>9. TurnIsOnRecord'
  <2>1. \A m \in Talk : talk'[m].at # "idle" => Working(m)'
    BY <1>0, <1>1, <1>3 DEF ChatParts, TurnIsOnRecord, Working, Here
  <2>2. ~Here'.resumed
    BY <1>1, <1>3 DEF ChatParts, TurnIsOnRecord
  <2> QED BY <1>4, <2>1, <2>2 DEF TurnIsOnRecord
<1>10. QueueIsNew'
  BY <1>4 DEF QueueIsNew
<1>11. NoneIsSettled'
  <2>1. None \notin answered /\ None \notin dropped
    BY <1>0 DEF ChatParts, OnlyArrived
  <2>2. i \notin answered /\ i \notin dropped'
    BY <1>1, <1>2 DEF ChatParts, NoneIsSettled
  <2> QED BY <1>1, <1>3, <1>4, <2>1, <2>2 DEF ChatParts, NoneIsSettled
<1>12. AllAreAccounted'
  <2>1. 1..arrived \subseteq over \cup loaded \cup ToSet(Here.line) \cup {Here.paused}
    BY <1>0, <1>2 DEF ChatParts, AllAreAccounted
  <2>2. ToSet(Here.line) \cup {Here.paused} \subseteq over' \cup loaded' \cup {None}
    BY <1>1
  <2>3. over \cup loaded \subseteq over' \cup loaded'
    BY <1>1
  <2>4. 1..arrived \subseteq over' \cup loaded'
    BY <2>1, <2>2, <2>3, <1>0
  <2> QED BY <1>1, <1>3, <1>4, <2>4 DEF AllAreAccounted
<1> QED BY <1>5, <1>6, <1>7, <1>8, <1>9, <1>10, <1>11, <1>12 DEF ChatParts

\* A new session does not work.
LEMMA NewTalkRests == \A n \in Talk : NewTalk(n).turn = None /\ NewTalk(n).line = <<>>
BY DEF NewTalk

\* A turn begins, or one that runs in the former session ends.
LEMMA BesideStep ==
  ASSUME ChatTyped, ChatParts,
         \/ \E i \in Message : Capture(i)
         \/ \E n \in Talk : BeginTurn(n) \/ CancelOld(n)
         \/ \E n \in Talk \ {chat} : NoDelivery(n) \/ EndTurn(n)
  PROVE  ChatParts'
<1>0. /\ chat \in Talk /\ Here = talk[chat] /\ talk \in [Talk -> TalkRecord] /\ None = 0
      /\ \A n \in Talk : talk[n] \in TalkRecord
      /\ \A n \in Talk : talk[n].at # "idle" => Working(n)
  BY HereFields DEF ChatParts, TurnIsOnRecord
<1>1. CASE \E i \in Message : Capture(i)
  <2>1. /\ chat' = chat /\ closing' = closing /\ arrived' = arrived /\ paper' = paper
        /\ dropped' = dropped /\ answered' = answered /\ loaded' = loaded /\ over' = over
        /\ talk' = talk
    BY <1>1 DEF Capture
  <2>2. \A n \in Talk : talk'[n].at # "idle" => Working(n)'
    BY <1>0, <2>1 DEF Working
  <2>3. Here' = Here
    BY <2>1 DEF Here
  <2> QED BY <2>1, <2>2, <2>3, StepBeside
<1>2. CASE \E n \in Talk : BeginTurn(n)
  <2>1. PICK n \in Talk : BeginTurn(n)
    BY <1>2
  <2>2. /\ chat' = chat /\ closing' = closing /\ arrived' = arrived /\ paper' = paper
        /\ dropped' = dropped /\ answered' = answered /\ loaded' = loaded /\ over' = over
        /\ talk' = [talk EXCEPT ![n].at = "run"] /\ talk[n].at = "wait"
    BY <2>1 DEF BeginTurn
  <2>3. talk'[n] = [talk[n] EXCEPT !.at = "run"] /\ \A m \in Talk \ {n} : talk'[m] = talk[m]
    BY <1>0, <2>2
  <2>4. \A m \in Talk : /\ talk'[m].line = talk[m].line /\ talk'[m].turn = talk[m].turn
                        /\ talk'[m].paused = talk[m].paused /\ talk'[m].open = talk[m].open
                        /\ talk'[m].resumed = talk[m].resumed /\ talk'[m].replies = talk[m].replies
                        /\ talk'[m].record = talk[m].record
    <3>1. LET t == [talk[n] EXCEPT !.at = "run"] IN
          /\ t.line = talk[n].line /\ t.turn = talk[n].turn /\ t.paused = talk[n].paused
          /\ t.open = talk[n].open /\ t.resumed = talk[n].resumed /\ t.replies = talk[n].replies
          /\ t.record = talk[n].record
      BY <1>0 DEF TalkRecord
    <3> QED BY <2>3, <3>1
  <2>5. Here' = talk'[chat]
    BY <2>2 DEF Here
  <2>6. \A m \in Talk : Working(m)' <=> Working(m)
    BY <2>4 DEF Working
  <2>7. Working(n)
    BY <1>0, <2>2
  <2>8. \A m \in Talk : talk'[m].at # "idle" => Working(m)'
    BY <1>0, <2>3, <2>6, <2>7
  <2>9. n # chat => n <= chat
    <3>1. SUFFICES ASSUME n # chat, n > chat PROVE FALSE
      BY HereFields
    <3>2. talk[n].turn = None
      BY <3>1, NewTalkRests DEF ChatParts, OthersAreEmpty
    <3> QED BY <2>7, <3>2 DEF Working
  <2> QED BY <1>0, <2>2, <2>3, <2>4, <2>5, <2>6, <2>8, <2>9, StepBeside
<1>3. CASE \E n \in Talk \ {chat} : \E t \in TalkRecord :
             /\ talk' = Freed(n, t) /\ t.line = talk[n].line /\ Working(n)
             /\ chat' = chat /\ closing' = closing /\ arrived' = arrived /\ paper' = paper
             /\ dropped' = dropped /\ answered' = answered /\ loaded' = loaded /\ over \subseteq over'
  <2>1. PICK n \in Talk \ {chat}, t \in TalkRecord :
             /\ talk' = Freed(n, t) /\ t.line = talk[n].line /\ Working(n)
             /\ chat' = chat /\ closing' = closing /\ arrived' = arrived /\ paper' = paper
             /\ dropped' = dropped /\ answered' = answered /\ loaded' = loaded /\ over \subseteq over'
    BY <1>3
  <2>2. /\ \A m \in Talk \ {n} : talk'[m] = talk[m] /\ (Working(m)' <=> Working(m))
        /\ talk'[n].turn = None /\ talk'[n].at = "idle" /\ talk'[n].line = talk[n].line
    <3>1. /\ \A m \in Talk \ {n} : talk'[m] = talk[m]
          /\ talk'[n].turn = None /\ talk'[n].at = "idle" /\ talk'[n].line = t.line
      <4>1. n \in Talk /\ t \in TalkRecord /\ talk' = Freed(n, t)
        BY <2>1
      <4> QED BY <4>1, TalkFreed
    <3> QED BY <2>1, <3>1 DEF Working
  <2>3. Here' = Here
    BY <1>0, <2>1, <2>2 DEF Here
  <2>4. n <= chat
    <3>1. SUFFICES ASSUME n > chat PROVE FALSE
      BY <2>1, HereFields
    <3>2. talk[n].turn = None
      BY <2>1, <3>1, NewTalkRests DEF ChatParts, OthersAreEmpty
    <3> QED BY <2>1, <3>2 DEF Working
  <2>5. \A m \in Talk : talk'[m].at # "idle" => Working(m)'
    BY <1>0, <2>2
  <2>6. \A m \in Talk \ {chat} :
          talk'[m] = talk[m] \/ (m <= chat /\ talk'[m].line = talk[m].line /\ (Working(m)' => Working(m)))
    BY <2>1, <2>2, <2>4
  <2> QED BY <2>1, <2>3, <2>5, <2>6, StepBeside
<1>4. ASSUME NEW n \in Talk, CancelOld(n)
      PROVE  ChatParts'
  <2>1. closing[n] \in Talk \ {chat} /\ Working(closing[n])
    <3>1. n = chat /\ closing[n] < chat /\ closing[n] # 0 /\ Working(closing[n])
      BY <1>4 DEF CancelOld, ChatParts, OneCloses
    <3>2. closing[n] \in 0..MaxResets /\ chat \in Nat /\ MaxResets \in Nat
      BY HereFields DEF ChatTyped, ChatTypeOK
    <3>3. closing[n] \in Talk /\ closing[n] # chat
      BY <3>1, <3>2 DEF Talk
    <3> QED BY <3>1, <3>3
  <2>2. /\ talk' = Freed(closing[n], talk[closing[n]]) /\ talk[closing[n]] \in TalkRecord
        /\ chat' = chat /\ closing' = closing /\ arrived' = arrived /\ paper' = paper
        /\ dropped' = dropped /\ answered' = answered /\ loaded' = loaded /\ over \subseteq over'
    BY <1>0, <1>4, <2>1 DEF CancelOld
  <2> QED BY <1>3, <2>1, <2>2
<1>5. ASSUME NEW n \in Talk \ {chat}, NoDelivery(n)
      PROVE  ChatParts'
  <2>1. /\ talk' = Freed(n, talk[n]) /\ talk[n] \in TalkRecord /\ Working(n)
        /\ chat' = chat /\ closing' = closing /\ arrived' = arrived /\ paper' = paper
        /\ dropped' = dropped /\ answered' = answered /\ loaded' = loaded /\ over \subseteq over'
    BY <1>0, <1>5 DEF NoDelivery, TakeOffRecord
  <2> QED BY <1>3, <1>5, <2>1
<1>6. ASSUME NEW n \in Talk \ {chat}, EndTurn(n)
      PROVE  ChatParts'
  <2> DEFINE t == [talk[n] EXCEPT !.replies = @ \ {talk[n].turn}]
  <2>1. t \in TalkRecord /\ t.line = talk[n].line
    BY <1>0 DEF TalkRecord
  <2>2. /\ talk' = Freed(n, t) /\ Working(n)
        /\ chat' = chat /\ closing' = closing /\ arrived' = arrived /\ paper' = paper
        /\ dropped' = dropped /\ answered' = answered /\ loaded' = loaded /\ over \subseteq over'
    BY <1>0, <1>6 DEF EndTurn, TakeOffRecord
  <2> HIDE DEF t
  <2> QED BY <1>3, <1>6, <2>1, <2>2
<1> QED BY <1>1, <1>2, <1>4, <1>5, <1>6

\* The turn of the chat's session ends or is stopped.
LEMMA OverStep ==
  ASSUME ChatTyped, ChatParts, NoDelivery(chat) \/ EndTurn(chat) \/ StopTurn
  PROVE  ChatParts'
<1>0. /\ chat \in Talk /\ Here = talk[chat] /\ talk \in [Talk -> TalkRecord] /\ Here \in TalkRecord
      /\ \A n \in Talk : talk[n].at # "idle" => Working(n)
      /\ Here.turn # None => Here.turn \in Message
      /\ paper \in [Talk -> 0..MaxMessages]
  BY HereFields DEF ChatParts, TurnIsOnRecord, ChatTyped
<1>1. ASSUME NEW t \in TalkRecord, talk' = Freed(chat, t), chat' = chat,
             t.line = Here.line, t.paused = Here.paused, t.open = Here.open, t.record = Here.record
      PROVE  /\ Here'.line = Here.line /\ Here'.turn = None /\ Here'.at = "idle" /\ Here'.paused = Here.paused
             /\ Here'.open = Here.open /\ Here'.resumed = FALSE /\ Here'.record = Here.record
             /\ Here'.replies = t.replies /\ \A n \in Talk \ {chat} : talk'[n] = talk[n]
  <2>1. Here' = talk'[chat]
    BY <1>1 DEF Here
  <2> QED BY <1>0, <1>1, <2>1, TalkFreed
<1>2. CASE NoDelivery(chat)
  <2>1. /\ chat' = chat /\ closing' = closing /\ arrived' = arrived /\ dropped' = dropped
        /\ loaded' = loaded /\ over' = over /\ answered' = answered /\ Working(chat)
        /\ talk' = Freed(chat, Here) /\ Here.turn \notin Here.replies /\ TakeOffRecord(chat)
    BY <1>0, <1>2 DEF NoDelivery
  <2>2. Here.turn \in over' \cup loaded
    BY <1>0, <2>1, HereFields DEF ChatParts, AllAreAccounted
  <2>3. paper' \in [Talk -> 0..MaxMessages] /\ \A r \in Talk : paper'[r] \in {paper[r], None}
    BY <1>0, <2>1, OffRecord
  <2>4. /\ Here'.line = Here.line /\ Here'.turn = None /\ Here'.at = "idle" /\ Here'.paused = Here.paused
        /\ Here'.open = Here.open /\ Here'.resumed = FALSE /\ Here'.record = Here.record
        /\ Here'.replies = Here.replies /\ \A n \in Talk \ {chat} : talk'[n] = talk[n]
    BY <1>0, <1>1, <2>1
  <2> QED BY <2>1, <2>2, <2>3, <2>4, TurnIsOver
<1> DEFINE t == [Here EXCEPT !.replies = @ \ {Here.turn}]
<1>3. /\ t \in TalkRecord /\ t.line = Here.line /\ t.paused = Here.paused /\ t.open = Here.open
      /\ t.record = Here.record /\ t.replies = Here.replies \ {Here.turn}
  BY <1>0 DEF TalkRecord
<1>4. CASE EndTurn(chat)
  <2>1. /\ chat' = chat /\ closing' = closing /\ arrived' = arrived /\ dropped' = dropped
        /\ loaded' = loaded /\ over' = over \cup {Here.turn} /\ answered' = answered \cup {Here.turn}
        /\ Working(chat) /\ talk' = Freed(chat, t) /\ TakeOffRecord(chat)
    BY <1>0, <1>4 DEF EndTurn
  <2>2. /\ paper' \in [Talk -> 0..MaxMessages] /\ \A r \in Talk : paper'[r] \in {paper[r], None}
        /\ Here.resumed => paper'[Here.record] = None
    BY <1>0, <2>1, OffRecord
  <2> HIDE DEF t
  <2>3. /\ Here'.line = Here.line /\ Here'.turn = None /\ Here'.at = "idle" /\ Here'.paused = Here.paused
        /\ Here'.open = Here.open /\ Here'.resumed = FALSE /\ Here'.record = Here.record
        /\ Here'.replies = t.replies /\ \A n \in Talk \ {chat} : talk'[n] = talk[n]
    BY <1>1, <1>3, <2>1
  <2> QED BY <1>3, <2>1, <2>2, <2>3, TurnIsOver
<1>5. CASE StopTurn
  <2>1. /\ chat' = chat /\ closing' = closing /\ arrived' = arrived /\ dropped' = dropped
        /\ loaded' = loaded /\ over' = over \cup {Here.turn} /\ answered' = answered /\ paper' = paper
        /\ Working(chat) /\ talk' = Freed(chat, t)
    BY <1>0, <1>5 DEF StopTurn
  <2> HIDE DEF t
  <2>2. /\ Here'.line = Here.line /\ Here'.turn = None /\ Here'.at = "idle" /\ Here'.paused = Here.paused
        /\ Here'.open = Here.open /\ Here'.resumed = FALSE /\ Here'.record = Here.record
        /\ Here'.replies = t.replies /\ \A n \in Talk \ {chat} : talk'[n] = talk[n]
    BY <1>1, <1>3, <2>1
  <2>3. paper' \in [Talk -> 0..MaxMessages] /\ \A r \in Talk : paper'[r] \in {paper[r], None}
    BY <1>0, <2>1
  <2> QED BY <1>3, <2>1, <2>2, <2>3, TurnIsOver
<1> QED BY <1>2, <1>4, <1>5

\* Every step keeps the invariant.
LEMMA ChatStep == ASSUME ChatInv, [ChatNext]_chatVars PROVE ChatInv'
<1>1. ChatTyped'
  BY ChatTypeStep DEF ChatInv
<1>2. SUFFICES ASSUME ~overlapped' PROVE ChatParts'
  BY <1>1 DEF ChatInv
<1>3. ~overlapped
  <2>1. ChatTyped
    BY DEF ChatInv
  <2> QED BY <1>2 DEF ChatNext, chatVars, Dispatch, TransportFails, Resume, StopTurn, Capture, NoDelivery,
             BeginTurn, EndTurn, CancelOld, Closed, LoadRecord, TakeMessage, Reset
<1>4. ChatTyped /\ ChatParts
  BY <1>3 DEF ChatInv
<1>5. CASE Dispatch
  BY <1>4, <1>5, DispatchStep
<1>6. CASE TransportFails
  BY <1>4, <1>6, TransportFailsStep
<1>7. CASE Resume
  BY <1>4, <1>7, ResumeStep
<1>8. CASE StopTurn \/ NoDelivery(chat) \/ EndTurn(chat)
  BY <1>4, <1>8, OverStep
<1>9. CASE \/ \E i \in Message : Capture(i)
           \/ \E n \in Talk : BeginTurn(n) \/ CancelOld(n)
           \/ \E n \in Talk \ {chat} : NoDelivery(n) \/ EndTurn(n)
  BY <1>4, <1>9, BesideStep
<1>10. CASE \E n \in Talk : Closed(n)
  BY <1>4, <1>10, ClosedStep
<1>11. CASE \E r \in Talk : LoadRecord(r)
  BY <1>2, <1>4, <1>11, LoadRecordStep
<1>12. CASE \E n \in Talk : \E i \in Message : TakeMessage(n, i)
  BY <1>4, <1>12, TakeMessageStep
<1>13. CASE \E preserve \in BOOLEAN : Reset(preserve)
  BY <1>2, <1>4, <1>13, ResetStep
<1>14. CASE UNCHANGED chatVars
  <2>1. /\ talk' = talk /\ chat' = chat /\ closing' = closing /\ paper' = paper /\ arrived' = arrived
        /\ over' = over /\ dropped' = dropped /\ answered' = answered /\ loaded' = loaded
    BY <1>14 DEF chatVars
  <2>2. Here' = Here
    BY <2>1 DEF Here
  <2>3. \A n \in Talk : talk'[n].at # "idle" => Working(n)'
    BY <1>4, <2>1 DEF ChatParts, TurnIsOnRecord, Working
  <2> QED BY <1>4, <2>1, <2>2, <2>3, StepBeside
<1> QED
  BY <1>5, <1>6, <1>7, <1>8, <1>9, <1>10, <1>11, <1>12, <1>13, <1>14 DEF ChatNext

\* It holds when the service starts.
LEMMA ChatStarts == ASSUME ChatInit PROVE ChatInv
<1>1. /\ MaxMessages \in Nat /\ MaxResets \in Nat /\ None = 0 /\ 1 \in Talk /\ None \in 0..MaxMessages
      /\ 0 \in 0..MaxResets /\ \A n \in Talk : n \in Nat /\ n # 0
  BY ChannelAssumption DEF None, Talk
<1>2. /\ chat = 1 /\ talk = [n \in Talk |-> NewTalk(n)] /\ closing = [n \in Talk |-> 0]
      /\ capture = [i \in Message |-> "none"] /\ arrived = 0 /\ paper = [n \in Talk |-> None]
      /\ over = {} /\ dropped = {} /\ answered = {} /\ loaded = {}
  BY DEF ChatInit
<1>3. \A n \in Talk : /\ NewTalk(n) \in TalkRecord /\ NewTalk(n).line = <<>> /\ NewTalk(n).turn = None
                      /\ NewTalk(n).paused = None /\ NewTalk(n).at = "idle" /\ NewTalk(n).resumed = FALSE
                      /\ NewTalk(n).replies = {}
  BY <1>1, EmptyQueue DEF NewTalk, TalkRecord
<1>4. ChatTyped
  BY <1>1, <1>2, <1>3 DEF ChatTyped, ChatTypeOK, TalkRecord
<1>5. /\ Here.line = <<>> /\ Here.turn = None /\ Here.paused = None /\ Here.resumed = FALSE
      /\ Here.replies = {} /\ (\A n \in Talk : ~Working(n) /\ talk[n].at = "idle")
      /\ Papers = {} /\ ToSet(Here.line) = {} /\ Rising(Here.line)
  BY <1>1, <1>2, <1>3, EmptyQueue DEF Here, Working, Papers
<1>6. OnlyArrived
  BY <1>1, <1>2, <1>5 DEF OnlyArrived
<1>7. OthersAreEmpty /\ OneCloses /\ PauseIsOnRecord /\ TurnIsOnRecord
  BY <1>1, <1>2, <1>3, <1>5 DEF OthersAreEmpty, OneCloses, PauseIsOnRecord, TurnIsOnRecord
<1>8. QueueIsNew /\ NoneIsSettled /\ AllAreAccounted
  BY <1>1, <1>2, <1>5 DEF QueueIsNew, NoneIsSettled, AllAreAccounted
<1> QED BY <1>4, <1>6, <1>7, <1>8 DEF ChatInv, ChatParts

\* What is due is in order but for what /load brought back.
LEMMA DueRises ==
  ASSUME ChatTyped, ChatParts
  PROVE  /\ \A k, l \in DOMAIN Due : k < l => Due[k] < Due[l] \/ Due[k] \in loaded
         /\ ToSet(Due) = ToSet(Here.line) \cup ({Here.turn} \ {None})
<1> DEFINE s == Here.line
           d == <<Here.turn>> \o s
<1>1. /\ s \in Seq(Message) /\ (Working(chat) <=> Here.turn # None)
      /\ (Here.turn # None => Here.turn \in Message)
  BY HereFields
<1>2. Rising(s) /\ (Here.turn \notin loaded \cup {None} => \A j \in ToSet(s) : Here.turn < j)
  BY DEF ChatParts, QueueIsNew
<1>3. DOMAIN s = 1..Len(s) /\ Len(s) \in Nat
  BY <1>1, QueueIs
<1>4. CASE ~Working(chat)
  <2>1. Due = s
    <3>1. Due = <<>> \o s
      BY <1>4 DEF Due
    <3> QED BY <1>1, <3>1
  <2> QED BY <1>1, <1>2, <1>4, <2>1 DEF Rising
<1>5. CASE Working(chat)
  <2>1. Due = d
    BY <1>5 DEF Due
  <2>2. <<Here.turn>> \in Seq(Message) /\ Len(<<Here.turn>>) = 1
    BY <1>1, <1>5
  <2>3. /\ DOMAIN d = 1..(Len(s) + 1) /\ d[1] = Here.turn
        /\ \A k \in 2..(Len(s) + 1) : d[k] = s[k - 1]
    BY <1>1, <1>3, <2>2
  <2> HIDE DEF d
  <2>4. ASSUME NEW k \in DOMAIN d, NEW l \in DOMAIN d, k < l
        PROVE  d[k] < d[l] \/ d[k] \in loaded
    <3>1. l \in 2..(Len(s) + 1) /\ l - 1 \in DOMAIN s /\ d[l] = s[l - 1]
      BY <1>3, <2>3, <2>4
    <3>2. CASE k = 1
      <4>1. s[l - 1] \in ToSet(s)
        BY <3>1 DEF ToSet
      <4> QED BY <1>1, <1>2, <1>5, <2>3, <3>1, <3>2, <4>1
    <3>3. CASE k # 1
      <4>1. k \in 2..(Len(s) + 1) /\ k - 1 \in DOMAIN s /\ d[k] = s[k - 1] /\ k - 1 < l - 1
        BY <1>3, <2>3, <2>4, <3>1, <3>3
      <4> QED BY <1>2, <3>1, <4>1 DEF Rising
    <3> QED BY <3>2, <3>3
  <2>5. ToSet(d) = ToSet(s) \cup {Here.turn}
    <3>1. \A k \in DOMAIN d : d[k] \in ToSet(s) \cup {Here.turn}
      <4>1. SUFFICES ASSUME NEW k \in DOMAIN d, k # 1 PROVE d[k] \in ToSet(s)
        BY <2>3
      <4>2. k \in 2..(Len(s) + 1) /\ k - 1 \in DOMAIN s /\ d[k] = s[k - 1]
        BY <1>3, <2>3, <4>1
      <4> QED BY <4>2 DEF ToSet
    <3>2. \A k \in DOMAIN s : s[k] \in ToSet(d)
      <4>1. SUFFICES ASSUME NEW k \in DOMAIN s PROVE s[k] \in ToSet(d)
        OBVIOUS
      <4>2. k + 1 \in 2..(Len(s) + 1) /\ k + 1 \in DOMAIN d /\ d[k + 1] = s[(k + 1) - 1] /\ (k + 1) - 1 = k
        BY <1>3, <2>3, <4>1
      <4> QED BY <4>2 DEF ToSet
    <3>3. 1 \in DOMAIN d /\ d[1] = Here.turn
      BY <1>3, <2>3
    <3> QED BY <3>1, <3>2, <3>3 DEF ToSet
  <2> QED BY <1>1, <1>5, <2>1, <2>4, <2>5
<1> QED BY <1>4, <1>5

\* It says what the chat keeps.
LEMMA ChatInvSays == ASSUME ChatInv PROVE ChatKeepsItsMessages
<1>1. SUFFICES ASSUME ~overlapped
               PROVE  /\ \A k, l \in DOMAIN Due : k < l => Due[k] < Due[l] \/ Due[k] \in loaded
                      /\ \A i \in 1..arrived : i \notin over \cup loaded => i \in ToSet(Due) \cup {Here.paused}
                      /\ answered \cap dropped = {}
                      /\ Working(chat) => \A n \in Talk \ {chat} : ~Working(n)
  BY DEF ChatKeepsItsMessages
<1>2. ChatTyped /\ ChatParts
  BY <1>1 DEF ChatInv
<1>3. /\ \A k, l \in DOMAIN Due : k < l => Due[k] < Due[l] \/ Due[k] \in loaded
      /\ ToSet(Due) = ToSet(Here.line) \cup ({Here.turn} \ {None})
  BY <1>2, DueRises
<1>4. \A i \in 1..arrived : i \notin over \cup loaded => i \in ToSet(Due) \cup {Here.paused}
  <2>1. \A i \in 1..arrived : i # None
    BY <1>2, HereFields
  <2> QED BY <1>2, <1>3, <2>1 DEF ChatParts, AllAreAccounted
<1>5. answered \cap dropped = {}
  BY <1>2 DEF ChatParts, NoneIsSettled
<1>6. Working(chat) => \A n \in Talk \ {chat} : ~Working(n)
  <2>1. \A n \in Talk : n # 0
    BY <1>2, HereFields DEF Talk
  <2> QED BY <1>2, <2>1 DEF ChatParts, OneCloses
<1> QED BY <1>3, <1>4, <1>5, <1>6

\* Whatever is sent, reset, loaded, paused and stopped, the sessions of a chat,
\* their queues and deliveries are what the code takes them for.
THEOREM ChatTypeCorrect == ChatSpec => []ChatTypeOK
<1>1. ChatInit => ChatTyped
  BY ChatStarts DEF ChatInv
<1>2. ChatTyped /\ [ChatNext]_chatVars => ChatTyped'
  BY ChatTypeStep
<1>3. ChatTyped => ChatTypeOK
  BY DEF ChatTyped
<1> QED BY <1>1, <1>2, <1>3, PTL DEF ChatSpec

\* For any number of messages, resets and pauses: messages of a chat are taken in
\* the order they came, none is forgotten, none of a session that was reset is
\* answered, and a new session works when the former has stopped (_submit_turn,
\* _reset_session), as long as no reset or /load comes while one is closing.
THEOREM ChatKeepsItsMessagesCorrect == ChatSpec => []ChatKeepsItsMessages
<1>1. ChatInit => ChatInv
  BY ChatStarts
<1>2. ChatInv /\ [ChatNext]_chatVars => ChatInv'
  BY ChatStep
<1>3. ChatInv => ChatKeepsItsMessages
  BY ChatInvSays
<1> QED BY <1>1, <1>2, <1>3, PTL DEF ChatSpec
=============================================================================
