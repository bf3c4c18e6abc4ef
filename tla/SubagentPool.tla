---------------------------- MODULE SubagentPool ----------------------------
(***************************************************************************)
(* SubagentFactory and SubagentHandle (core/agents.py): every child Agent  *)
(* runs on a thread and an event loop of its own, admitted by a semaphore  *)
(* per session, and can be cancelled at any time by its caller, its turn,  *)
(* its session or the closing factory.                                     *)
(*                                                                         *)
(* Two threads meet in one handle.  The owner loop runs run, _dispatch,    *)
(* cancel and _finished; the child thread runs _run.  cancel is three      *)
(* steps of the owner loop (set the flag, read _loop, read _task) between  *)
(* which the child thread may move but no other coroutine of the owner     *)
(* loop does.                                                              *)
(***************************************************************************)
EXTENDS Naturals, Sequences, FiniteSets, SequencesExt

CONSTANTS
  Handle,      \* the children that may be started
  Session,
  SessionOf,   \* [Handle -> Session]
  Limit,       \* max_concurrent_threads_per_session
  MaxCancels   \* bound: cancellations delivered to one caller of run

ASSUME SubagentPoolAssumption ==
  /\ IsFiniteSet(Handle)
  /\ SessionOf \in [Handle -> Session]
  /\ Limit \in Nat \ {0}
  /\ MaxCancels \in Nat

VARIABLES
  closed,   \* SubagentFactory._closed
  slots,    \* _slots: free places of each session's semaphore
  waiters,  \* the semaphore's queue
  adm,      \* where the admission task (_dispatch) of a handle is
  thr,      \* where its thread (_run) is
  flag,     \* _cancelled
  due,      \* task.cancel has been scheduled on the child's loop
  fut,      \* _future
  call,     \* where the caller of run is
  hits,     \* cancellations delivered to that caller
  cur,      \* cancel() in progress on the owner loop: its handle and step
  todo,     \* handles the running _cancel or stop has still to cancel
  awaited   \* handles whose admission _cancel is gathering

owner == <<closed, slots, waiters, adm, call, hits, todo, awaited>>
child == <<thr, due, fut>>
vars  == <<owner, child, flag, cur>>

NoCancel == [h |-> "none", step |-> "none"]

\* The owner loop is inside cancel(): nothing else runs on it.
Busy == cur.step # "none" \/ todo # {}

TypeOK ==
  /\ closed \in BOOLEAN
  /\ slots \in [Session -> 0..Limit]
  /\ waiters \in [Session -> Seq(Handle)]
  /\ adm \in [Handle -> {"none", "new", "waiting", "granted", "watching",
                         "closing", "ended", "done"}]
  /\ thr \in [Handle -> {"none", "boot", "loop", "task", "user", "cleanup",
                         "resolved", "dead"}]
  /\ fut \in [Handle -> {"pending", "result", "error", "cancelled"}]
  /\ call \in [Handle -> {"none", "waiting", "settling", "returned"}]
  /\ hits \in [Handle -> 0..MaxCancels]
  /\ flag \subseteq Handle /\ due \subseteq Handle
  /\ todo \subseteq Handle /\ awaited \subseteq Handle
  /\ cur \in {NoCancel} \cup [h : Handle, step : {"flag", "loop", "task"}]

Init ==
  /\ closed = FALSE
  /\ slots = [s \in Session |-> Limit]
  /\ waiters = [s \in Session |-> <<>>]
  /\ adm = [h \in Handle |-> "none"]
  /\ thr = [h \in Handle |-> "none"]
  /\ fut = [h \in Handle |-> "pending"]
  /\ call = [h \in Handle |-> "none"]
  /\ hits = [h \in Handle |-> 0]
  /\ flag = {} /\ due = {} /\ todo = {} /\ awaited = {}
  /\ cur = NoCancel

Live(h) == adm[h] \notin {"none", "done"}
Handles == {h \in Handle : Live(h)}

-----------------------------------------------------------------------------
(* asyncio.Semaphore: FIFO; a released place goes to the first waiter.     *)

Acquire(h, s) ==
  IF slots[s] > 0 /\ waiters[s] = <<>>
    THEN /\ slots' = [slots EXCEPT ![s] = @ - 1]
         /\ adm' = [adm EXCEPT ![h] = "granted"]
         /\ UNCHANGED waiters
    ELSE /\ waiters' = [waiters EXCEPT ![s] = Append(@, h)]
         /\ adm' = [adm EXCEPT ![h] = "waiting"]
         /\ UNCHANGED slots

\* Mutant: the freed place is counted, the next waiter is not woken.
ReleaseSilent(h, s) ==
  /\ slots' = [slots EXCEPT ![s] = @ + 1]
  /\ adm' = [adm EXCEPT ![h] = "ended"]
  /\ UNCHANGED waiters

\* h leaves its place, which goes to the next waiter.
Release(h, s) ==
  IF waiters[s] = <<>>
    THEN /\ slots' = [slots EXCEPT ![s] = @ + 1]
         /\ adm' = [adm EXCEPT ![h] = "ended"]
         /\ UNCHANGED waiters
    ELSE /\ waiters' = [waiters EXCEPT ![s] = Tail(@)]
         /\ adm' = [adm EXCEPT ![h] = "ended", ![Head(waiters[s])] = "granted"]
         /\ UNCHANGED slots

\* list.remove: q without the one place of h.
Without(q, h) ==
  LET n == CHOOSE i \in DOMAIN q : q[i] = h
  IN  SubSeq(q, 1, n - 1) \o SubSeq(q, n + 1, Len(q))

\* CancelledError raised in _dispatch before the thread exists.
AbandonAdmission(h) ==
  LET s == SessionOf[h] IN
    CASE adm[h] = "granted" -> Release(h, s)
      [] adm[h] = "waiting" ->
           /\ waiters' = [waiters EXCEPT ![s] = Without(@, h)]
           /\ adm' = [adm EXCEPT ![h] = "ended"]
           /\ UNCHANGED slots
      [] adm[h] = "new" ->
           /\ adm' = [adm EXCEPT ![h] = "ended"]
           /\ UNCHANGED <<slots, waiters>>
      [] OTHER -> UNCHANGED <<adm, slots, waiters>>

-----------------------------------------------------------------------------
(* The owner loop.                                                         *)

\* run: start_background, then await the result.
Run(h) ==
  /\ ~Busy /\ ~closed
  /\ adm[h] = "none"
  /\ adm' = [adm EXCEPT ![h] = "new"]
  /\ call' = [call EXCEPT ![h] = "waiting"]
  /\ UNCHANGED <<closed, slots, waiters, hits, todo, awaited, child, flag, cur>>

\* _dispatch enters the semaphore.
Enter(h) ==
  /\ ~Busy
  /\ adm[h] = "new"
  /\ Acquire(h, SessionOf[h])
  /\ UNCHANGED <<closed, call, hits, todo, awaited, child, flag, cur>>

\* _dispatch inside the semaphore: refuse a cancelled handle, or start.
StartThread(h) ==
  /\ ~Busy
  /\ adm[h] = "granted"
  /\ IF closed \/ h \in flag
       THEN Release(h, SessionOf[h]) /\ UNCHANGED thr
       ELSE /\ adm' = [adm EXCEPT ![h] = "watching"]
            /\ thr' = [thr EXCEPT ![h] = "boot"]
            /\ UNCHANGED <<slots, waiters>>
  /\ UNCHANGED <<closed, call, hits, todo, awaited, due, fut, flag, cur>>

\* result() returns in _dispatch; close() begins.
Observe(h) ==
  /\ ~Busy
  /\ adm[h] = "watching" /\ fut[h] # "pending"
  /\ adm' = [adm EXCEPT ![h] = "closing"]
  /\ UNCHANGED <<closed, slots, waiters, call, hits, todo, awaited, child,
                 flag, cur>>

\* close() has joined the thread; the place is given back.
Join(h) ==
  /\ ~Busy
  /\ adm[h] = "closing" /\ thr[h] = "dead"
  /\ Release(h, SessionOf[h])
  /\ UNCHANGED <<closed, call, hits, todo, awaited, child, flag, cur>>

\* Mutant: the session's semaphore is forgotten with every handle.
FinishedAlways(h) ==
  /\ ~Busy
  /\ adm[h] = "ended"
  /\ adm' = [adm EXCEPT ![h] = "done"]
  /\ fut' = [fut EXCEPT ![h] = IF @ = "pending" THEN "cancelled" ELSE @]
  /\ slots' = [slots EXCEPT ![SessionOf[h]] = Limit]
  /\ UNCHANGED <<closed, waiters, call, hits, todo, awaited, thr, due, flag,
                 cur>>

\* _finished: the handle is forgotten, and with the last one of a session
\* its semaphore, which a later dispatch makes anew.
Finished(h) ==
  /\ ~Busy
  /\ adm[h] = "ended"
  /\ adm' = [adm EXCEPT ![h] = "done"]
  /\ fut' = [fut EXCEPT ![h] = IF @ = "pending" THEN "cancelled" ELSE @]
  /\ slots' = IF \E g \in Handles \ {h} : SessionOf[g] = SessionOf[h]
                THEN slots ELSE [slots EXCEPT ![SessionOf[h]] = Limit]
  /\ UNCHANGED <<closed, waiters, call, hits, todo, awaited, thr, due, flag,
                 cur>>

\* The awaited result ends run's try; its finally waits for the admission.
ResultReady(h) ==
  /\ ~Busy
  /\ call[h] = "waiting" /\ fut[h] # "pending"
  /\ call' = [call EXCEPT ![h] = "settling"]
  /\ UNCHANGED <<closed, slots, waiters, adm, hits, todo, awaited, child, flag,
                 cur>>

Return(h) ==
  /\ ~Busy
  /\ call[h] = "settling" /\ adm[h] \in {"ended", "done"}
  /\ call' = [call EXCEPT ![h] = "returned"]
  /\ UNCHANGED <<closed, slots, waiters, adm, hits, todo, awaited, child, flag,
                 cur>>

\* The caller of run is cancelled: in result() that cancels the handle, in
\* the finally it ends the wait, for asyncio.shield protects only the task.
CancelCaller(h) ==
  /\ ~Busy
  /\ call[h] \in {"waiting", "settling"} /\ hits[h] < MaxCancels
  /\ hits' = [hits EXCEPT ![h] = @ + 1]
  /\ IF call[h] = "waiting"
       THEN /\ call' = [call EXCEPT ![h] = "settling"]
            /\ todo' = {h}
       ELSE /\ call' = [call EXCEPT ![h] = "returned"]
            /\ UNCHANGED todo
  /\ UNCHANGED <<closed, slots, waiters, adm, awaited, child, flag, cur>>

\* cancel_turn, cancel_session, cancel_all: cancel a group, then gather it.
CancelGroup(G) ==
  /\ ~Busy /\ awaited = {}
  /\ todo' = G /\ awaited' = G
  /\ UNCHANGED <<closed, slots, waiters, adm, call, hits, child, flag, cur>>

\* _cancel's gather returns when every admission is done.
Gathered ==
  /\ ~Busy
  /\ awaited # {} /\ \A h \in awaited : adm[h] \in {"ended", "done"}
  /\ awaited' = {}
  /\ UNCHANGED <<closed, slots, waiters, adm, call, hits, todo, child, flag,
                 cur>>

\* stop and close: no admission any more, everything live is cancelled.
Stop ==
  /\ ~Busy /\ ~closed
  /\ closed' = TRUE
  /\ todo' = Handles /\ awaited' = awaited \cup Handles
  /\ UNCHANGED <<slots, waiters, adm, call, hits, child, flag, cur>>

(* cancel(): idempotent; set the flag, withdraw an admission that has no   *)
(* thread yet, then look for the child's loop and task.                    *)
CancelFlag(h) ==
  /\ cur = NoCancel /\ h \in todo
  /\ todo' = todo \ {h}
  /\ IF h \in flag
       THEN UNCHANGED <<flag, cur, adm, slots, waiters>>
       ELSE /\ flag' = flag \cup {h}
            /\ cur' = [h |-> h, step |-> "loop"]
            /\ IF thr[h] = "none" THEN AbandonAdmission(h)
                                  ELSE UNCHANGED <<adm, slots, waiters>>
  /\ UNCHANGED <<closed, call, hits, awaited, child>>

LoopSet(h) == thr[h] \in {"loop", "task", "user", "cleanup", "resolved"}
TaskSet(h) == thr[h] \in {"task", "user", "cleanup", "resolved"}

ReadLoop ==
  /\ cur.step = "loop"
  /\ cur' = IF LoopSet(cur.h) THEN [cur EXCEPT !.step = "task"] ELSE NoCancel
  /\ UNCHANGED <<owner, child, flag>>

\* The cancellation is scheduled unless the loop is already closed.
ReadTask ==
  /\ cur.step = "task"
  /\ due' = IF TaskSet(cur.h) /\ thr[cur.h] # "resolved"
              THEN due \cup {cur.h} ELSE due
  /\ cur' = NoCancel
  /\ UNCHANGED <<owner, thr, fut, flag>>

-----------------------------------------------------------------------------
(* The child thread.                                                       *)

ChildMove(h, from, to) ==
  /\ thr[h] = from
  /\ thr' = [thr EXCEPT ![h] = to]
  /\ UNCHANGED <<owner, due, fut, flag, cur>>

SetLoop(h) == ChildMove(h, "boot", "loop")
SetTask(h) == ChildMove(h, "loop", "task")

\* Mutant: the flag is not looked at again once the task can be seen.
CheckFlagNever(h) ==
  /\ thr[h] = "task"
  /\ thr' = [thr EXCEPT ![h] = "user"]
  /\ UNCHANGED <<owner, due, fut, flag, cur>>

\* A cancel() that could not see the task yet is noticed here.
CheckFlag(h) ==
  /\ thr[h] = "task"
  /\ IF h \in flag
       THEN /\ thr' = [thr EXCEPT ![h] = "resolved"]
            /\ fut' = [fut EXCEPT ![h] = "cancelled"]
       ELSE thr' = [thr EXCEPT ![h] = "user"] /\ UNCHANGED fut
  /\ UNCHANGED <<owner, due, flag, cur>>

\* The Agent's own code ends, by itself or by the cancellation it is due.
EndUser(h) == ChildMove(h, "user", "cleanup")

\* Clients are closed and the future is resolved; a cancellation delivered
\* during the cleanup replaces the result.
Resolve(h) ==
  /\ thr[h] = "cleanup"
  /\ thr' = [thr EXCEPT ![h] = "resolved"]
  /\ \E r \in {"result", "error"} \cup (IF h \in due THEN {"cancelled"} ELSE {}) :
       fut' = [fut EXCEPT ![h] = r]
  /\ UNCHANGED <<owner, due, flag, cur>>

Exit(h) == ChildMove(h, "resolved", "dead")

-----------------------------------------------------------------------------
ChildStep(h) ==
  SetLoop(h) \/ SetTask(h) \/ CheckFlag(h) \/ EndUser(h) \/ Resolve(h) \/ Exit(h)

OwnerStep(h) ==
  \/ Enter(h) \/ StartThread(h) \/ Observe(h) \/ Join(h) \/ Finished(h)
  \/ ResultReady(h) \/ Return(h)

Next ==
  \/ \E h \in Handle : \/ Run(h) \/ OwnerStep(h) \/ ChildStep(h)
                     \/ CancelCaller(h) \/ CancelFlag(h)
  \/ \E G \in (SUBSET Handles) \ {{}} : CancelGroup(G)
  \/ Gathered \/ Stop \/ ReadLoop \/ ReadTask

Spec == Init /\ [][Next]_vars

\* The owner loop and the threads are scheduled; an Agent's own code ends
\* (usage limits bound it, and asyncio raises a due cancellation in it).  A
\* ready callback of the owner loop is only delayed by the cancel() calls
\* that run before it: strong fairness.
Fairness ==
  /\ \A h \in Handle : /\ SF_vars(OwnerStep(h)) /\ WF_vars(CancelFlag(h))
                       /\ WF_vars(ChildStep(h))
  /\ WF_vars(ReadLoop) /\ WF_vars(ReadTask) /\ SF_vars(Gathered)

FairSpec == Spec /\ Fairness

-----------------------------------------------------------------------------
(* Properties.                                                             *)

Alive(h) == thr[h] \notin {"none", "dead"}

\* No more threads than configured are alive in a session, although its
\* semaphore is dropped and made anew (_dispatch, _finished).
AtMostLimit ==
  \A s \in Session : Cardinality({h \in Handle : SessionOf[h] = s /\ Alive(h)})
                       <= Limit

\* A cancellation is never lost between the two threads: once cancel() has
\* returned, an Agent whose code still runs is due to be cancelled
\* (SubagentHandle.cancel against _run's assignments of _loop and _task).
CancelReachesChild ==
  \A h \in Handle : h \in flag /\ cur.h # h /\ thr[h] = "user" => h \in due

\* Whoever awaits an admission (run, cancel_turn, close) finds the thread
\* gone: no Agent acts after its turn was reported stopped.
NoThreadOutlivesAdmission ==
  \A h \in Handle : adm[h] \in {"ended", "done"} => ~Alive(h)

\* run, cancelled at most once, returns only when its child acts no more; a
\* second cancellation cuts that wait short (SubagentFactory.run's finally),
\* and only the gather of cancel_turn covers it.
ReturnAfterWork ==
  \A h \in Handle : call[h] = "returned" /\ hits[h] < 2
                      => thr[h] \in {"none", "resolved", "dead"}

\* Nothing a child does comes after its end was reported, to whoever waited;
\* and the place it gives back is all that is taken anew.
EndedChildIsStill == NoThreadOutlivesAdmission /\ ReturnAfterWork /\ AtMostLimit

\* A stopped factory gets rid of all its children, the queued ones included.
StopDrains == closed ~> \A h \in Handle : ~Live(h)

\* Nobody starves: an admitted child is run, or cancelled, and its caller
\* returns.
CallersReturn == \A h \in Handle : call[h] # "none" ~> call[h] = "returned"

\* Both: closing waits for no child for ever, nor a turn for its children.
PoolSettles == StopDrains /\ CallersReturn
=============================================================================
