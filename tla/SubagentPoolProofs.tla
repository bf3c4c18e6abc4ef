-------------------------- MODULE SubagentPoolProofs --------------------------
(***************************************************************************)
(* Part A, SubagentPool, for every set of children and sessions, every     *)
(* limit and every number of cancellations: type correctness, that no      *)
(* cancellation is lost between the two threads, and that an ended child   *)
(* is still and at most Limit of a session are alive.                      *)
(*                                                                         *)
(* Part B, InputGate, for every number of lines, commands and stops: an    *)
(* input runs in the conversation it was typed into, in order, and none is *)
(* put aside without a reason.                                             *)
(***************************************************************************)
EXTENDS SubagentPool, InputGate, FiniteSetTheorems, SequenceTheorems, TLAPS

-----------------------------------------------------------------------------
(* Sequences without repetition.                                           *)

Distinct(q) == \A m, n \in DOMAIN q : q[m] = q[n] => m = n
Has(q, e) == \E n \in DOMAIN q : q[n] = e

\* list.remove takes one element away and leaves the others.
LEMMA WithoutLemma ==
  ASSUME NEW S, NEW q \in Seq(S), NEW e, Distinct(q), Has(q, e)
  PROVE  /\ Without(q, e) \in Seq(S)
         /\ Distinct(Without(q, e))
         /\ \A x : Has(Without(q, e), x) <=> Has(q, x) /\ x # e
<1> DEFINE k == CHOOSE i \in DOMAIN q : q[i] = e
           a == SubSeq(q, 1, k - 1)
           b == SubSeq(q, k + 1, Len(q))
           r == Without(q, e)
<1>1. k \in 1..Len(q) /\ q[k] = e
  BY DEF Has
<1>2. a \in Seq(S) /\ Len(a) = k - 1 /\ \A i \in 1..k - 1 : a[i] = q[i]
  BY <1>1
<1>3. b \in Seq(S) /\ Len(b) = Len(q) - k /\ \A i \in 1..Len(q) - k : b[i] = q[k + i]
  BY <1>1
<1>4. r = a \o b
  BY DEF Without
<1> HIDE DEF k, a, b, r
<1>5. r \in Seq(S) /\ Len(r) = Len(q) - 1
  BY <1>1, <1>2, <1>3, <1>4
<1>6. \A i \in 1..Len(q) - 1 : r[i] = IF i < k THEN q[i] ELSE q[i + 1]
  <2> TAKE i \in 1..Len(q) - 1
  <2>1. CASE i < k
    BY <1>1, <1>2, <1>3, <1>4, <2>1
  <2>2. CASE i >= k
    <3>1. i - Len(a) \in 1..Len(b) /\ k + (i - Len(a)) = i + 1
      BY <1>1, <1>2, <1>3, <2>2
    <3>2. r[i] = b[i - Len(a)]
      BY <1>1, <1>2, <1>3, <1>4, <2>2
    <3> QED BY <1>1, <1>3, <2>2, <3>1, <3>2
  <2> QED BY <1>1, <2>1, <2>2
<1>7. Distinct(r)
  <2> DEFINE at(i) == IF i < k THEN i ELSE i + 1
  <2>1. SUFFICES ASSUME NEW m \in 1..Len(q) - 1, NEW n \in 1..Len(q) - 1, r[m] = r[n]
                 PROVE  m = n
    BY <1>5 DEF Distinct
  <2>2. at(m) \in DOMAIN q /\ at(n) \in DOMAIN q /\ q[at(m)] = q[at(n)]
    BY <1>1, <1>6, <2>1
  <2>3. at(m) = at(n)
    BY <2>2 DEF Distinct
  <2> QED BY <1>1, <2>3
<1>8. ASSUME NEW x
      PROVE  Has(r, x) <=> Has(q, x) /\ x # e
  <2>1. ASSUME Has(r, x) PROVE Has(q, x) /\ x # e
    BY <1>1, <1>5, <1>6, <2>1 DEF Has, Distinct
  <2>2. ASSUME Has(q, x), x # e PROVE Has(r, x)
    <3>1. PICK n \in 1..Len(q) : q[n] = x
      BY <2>2 DEF Has
    <3>2. CASE n < k
      BY <1>1, <1>5, <1>6, <3>1, <3>2 DEF Has
    <3>3. CASE n > k
      <4>1. n - 1 \in DOMAIN r /\ r[n - 1] = x
        BY <1>1, <1>5, <1>6, <3>1, <3>3
      <4> QED BY <4>1 DEF Has
    <3> QED BY <1>1, <2>2, <3>1, <3>2, <3>3
  <2> QED BY <2>1, <2>2
<1> QED BY <1>5, <1>7, <1>8 DEF r

\* The first of a queue leaves it.
LEMMA TailLemma ==
  ASSUME NEW S, NEW q \in Seq(S), q # <<>>, Distinct(q)
  PROVE  /\ Head(q) \in S /\ Has(q, Head(q)) /\ Tail(q) \in Seq(S)
         /\ Distinct(Tail(q))
         /\ \A x : Has(Tail(q), x) <=> Has(q, x) /\ x # Head(q)
<1>1. /\ Head(q) \in S /\ Tail(q) \in Seq(S) /\ Len(Tail(q)) = Len(q) - 1 /\ Head(q) = q[1]
      /\ Len(q) >= 1 /\ \A i \in 1..Len(q) - 1 : Tail(q)[i] = q[i + 1]
  OBVIOUS
<1>2. Distinct(Tail(q))
  BY <1>1 DEF Distinct
<1>3. ASSUME NEW x
      PROVE  Has(Tail(q), x) <=> Has(q, x) /\ x # Head(q)
  <2>1. ASSUME Has(Tail(q), x) PROVE Has(q, x) /\ x # Head(q)
    BY <1>1, <2>1 DEF Has, Distinct
  <2>2. ASSUME Has(q, x), x # Head(q) PROVE Has(Tail(q), x)
    <3>1. PICK n \in 1..Len(q) : q[n] = x
      BY <2>2 DEF Has
    <3>2. n - 1 \in DOMAIN Tail(q) /\ Tail(q)[n - 1] = x
      BY <1>1, <2>2, <3>1
    <3> QED BY <3>2 DEF Has
  <2> QED BY <2>1, <2>2
<1> QED BY <1>1, <1>2, <1>3 DEF Has

\* A newcomer joins a queue at its end.
LEMMA AppendLemma ==
  ASSUME NEW S, NEW q \in Seq(S), NEW e \in S, Distinct(q), ~Has(q, e)
  PROVE  /\ Append(q, e) \in Seq(S)
         /\ Distinct(Append(q, e))
         /\ \A x : Has(Append(q, e), x) <=> Has(q, x) \/ x = e
<1>1. /\ Append(q, e) \in Seq(S) /\ Len(Append(q, e)) = Len(q) + 1
      /\ \A i \in 1..Len(q) : Append(q, e)[i] = q[i]
      /\ Append(q, e)[Len(q) + 1] = e
  OBVIOUS
<1>2. Distinct(Append(q, e))
  BY <1>1 DEF Distinct, Has
<1>3. ASSUME NEW x
      PROVE  Has(Append(q, e), x) <=> Has(q, x) \/ x = e
  BY <1>1 DEF Has
<1> QED BY <1>1, <1>2, <1>3
-----------------------------------------------------------------------------
(* The invariant.                                                          *)

HoldsPlace(h) == adm[h] \in {"granted", "watching", "closing"}
Holders(s) == {h \in Handle : SessionOf[h] = s /\ HoldsPlace(h)}

\* A place is free or taken, also when a semaphore was forgotten meanwhile.
Places == \A s \in Session : slots[s] + Cardinality(Holders(s)) = Limit

\* A semaphore's queue holds each child that waits for it, once.
Queues ==
  \A s \in Session :
    /\ Distinct(waiters[s])
    /\ \A h \in Handle : Has(waiters[s], h) <=> SessionOf[h] = s /\ adm[h] = "waiting"

\* A child's thread lives while its admission watches or closes it.
Phases ==
  \A h \in Handle :
    /\ thr[h] = "none" => adm[h] \notin {"watching", "closing"}
    /\ thr[h] # "none" => adm[h] \in {"watching", "closing", "ended", "done"}
    /\ adm[h] \in {"ended", "done"} => thr[h] \in {"none", "dead"}
    /\ fut[h] # "pending" => thr[h] \in {"resolved", "dead"} \/ adm[h] = "done"

\* Who settles without a cancellation has a result; who returned with at most
\* one has a result or an ended admission.
Callers ==
  \A h \in Handle :
    /\ call[h] = "settling" /\ hits[h] = 0 => fut[h] # "pending"
    /\ call[h] = "returned" /\ hits[h] < 2 => fut[h] # "pending" \/ adm[h] \in {"ended", "done"}

\* CancelReachesChild, also of a child that is named like no child.
Reached ==
  \A h \in Handle :
    h \in flag /\ (cur = NoCancel \/ cur.h # h) /\ thr[h] = "user" => h \in due

PoolInv == TypeOK /\ Places /\ Queues /\ Phases /\ Callers /\ Reached

-----------------------------------------------------------------------------
(* The semaphore keeps count.                                              *)

LEMMA HoldersFinite == \A s : IsFiniteSet(Holders(s)) /\ IsFiniteSet(Holders(s)')
BY FS_Subset, SubagentPoolAssumption DEF Holders

\* What a step of the semaphore promises of child h and of the others.
Grants(h) ==
  \A g \in Handle \ {h} : adm'[g] = adm[g] \/ (adm[g] = "waiting" /\ adm'[g] = "granted")

SemaphoreTyped ==
  /\ slots' \in [Session -> 0..Limit] /\ waiters' \in [Session -> Seq(Handle)]
  /\ adm' \in [Handle -> {"none", "new", "waiting", "granted", "watching",
                          "closing", "ended", "done"}]

LEMMA AcquireLemma ==
  ASSUME TypeOK, Places, Queues, NEW h \in Handle, adm[h] = "new", Acquire(h, SessionOf[h])
  PROVE  /\ SemaphoreTyped /\ Places' /\ Queues' /\ Grants(h)
         /\ adm'[h] \in {"granted", "waiting"}
<1> DEFINE s == SessionOf[h]
<1>0. s \in Session
  BY SubagentPoolAssumption
<1>1. CASE slots[s] > 0 /\ waiters[s] = <<>>
  <2>1. /\ slots' = [slots EXCEPT ![s] = @ - 1] /\ adm' = [adm EXCEPT ![h] = "granted"]
        /\ waiters' = waiters
    BY <1>1 DEF Acquire
  <2>0. slots[s] - 1 \in 0..Limit
    BY <1>0, <1>1, SubagentPoolAssumption DEF TypeOK
  <2>2. SemaphoreTyped /\ Grants(h) /\ adm'[h] = "granted"
    <3>1. slots' \in [Session -> 0..Limit]
      BY <2>0, <2>1 DEF TypeOK
    <3>2. adm'[h] = "granted" /\ \A g \in Handle \ {h} : adm'[g] = adm[g]
      BY <2>1 DEF TypeOK
    <3> QED BY <2>1, <3>1, <3>2 DEF TypeOK, SemaphoreTyped, Grants
  <2>3. Holders(s)' = Holders(s) \cup {h} /\ h \notin Holders(s)
    BY <2>1 DEF Holders, HoldsPlace, TypeOK
  <2>4. \A t \in Session \ {s} : Holders(t)' = Holders(t)
    BY <2>1 DEF Holders, HoldsPlace, TypeOK
  <2>5. Cardinality(Holders(s)') = Cardinality(Holders(s)) + 1 /\ Cardinality(Holders(s)) \in Nat
    BY <2>3, HoldersFinite, FS_AddElement, FS_CardinalityType
  <2>6. Places'
    BY <1>0, <2>1, <2>4, <2>5, SubagentPoolAssumption DEF Places, TypeOK
  <2>7. Queues'
    BY <2>1 DEF Queues, TypeOK
  <2> QED BY <2>2, <2>6, <2>7
<1>2. CASE ~(slots[s] > 0 /\ waiters[s] = <<>>)
  <2>1. /\ waiters' = [waiters EXCEPT ![s] = Append(@, h)] /\ adm' = [adm EXCEPT ![h] = "waiting"]
        /\ slots' = slots
    BY <1>2 DEF Acquire
  <2>2. waiters[s] \in Seq(Handle) /\ Distinct(waiters[s]) /\ ~Has(waiters[s], h)
    BY <1>0 DEF Queues, TypeOK
  <2>3. /\ Append(waiters[s], h) \in Seq(Handle) /\ Distinct(Append(waiters[s], h))
        /\ \A x : Has(Append(waiters[s], h), x) <=> Has(waiters[s], x) \/ x = h
    BY <2>2, AppendLemma
  <2>4. SemaphoreTyped /\ Grants(h) /\ adm'[h] = "waiting"
    BY <1>0, <2>1, <2>3 DEF TypeOK, SemaphoreTyped, Grants
  <2>5. \A t \in Session : Holders(t)' = Holders(t)
    BY <2>1 DEF Holders, HoldsPlace, TypeOK
  <2>6. Places'
    BY <2>1, <2>5 DEF Places
  <2>7. ASSUME NEW t \in Session
        PROVE  /\ Distinct(waiters'[t])
               /\ \A g \in Handle : Has(waiters'[t], g) <=> SessionOf[g] = t /\ adm'[g] = "waiting"
    <3>1. CASE t = s
      BY <1>0, <2>1, <2>3, <3>1 DEF Queues, TypeOK
    <3>2. CASE t # s
      BY <1>0, <2>1, <3>2 DEF Queues, TypeOK
    <3> QED BY <3>1, <3>2
  <2>8. Queues'
    BY <2>7 DEF Queues, Has, Distinct
  <2> QED BY <2>4, <2>6, <2>8
<1> QED BY <1>1, <1>2

LEMMA ReleaseLemma ==
  ASSUME TypeOK, Places, Queues, NEW h \in Handle, HoldsPlace(h), Release(h, SessionOf[h])
  PROVE  /\ SemaphoreTyped /\ Places' /\ Queues' /\ Grants(h)
         /\ adm'[h] = "ended"
<1> DEFINE s == SessionOf[h]
<1>0. s \in Session /\ h \in Holders(s)
  BY SubagentPoolAssumption DEF Holders
<1>00. /\ Cardinality(Holders(s) \ {h}) = Cardinality(Holders(s)) - 1 /\ IsFiniteSet(Holders(s) \ {h})
       /\ Cardinality(Holders(s)) \in Nat /\ Cardinality(Holders(s) \ {h}) \in Nat
  BY <1>0, HoldersFinite, FS_RemoveElement, FS_CardinalityType
<1>1. CASE waiters[s] = <<>>
  <2>1. /\ slots' = [slots EXCEPT ![s] = @ + 1] /\ adm' = [adm EXCEPT ![h] = "ended"]
        /\ waiters' = waiters
    BY <1>1 DEF Release
  <2>2. Holders(s)' = Holders(s) \ {h}
    BY <2>1 DEF Holders, HoldsPlace, TypeOK
  <2>3. \A t \in Session \ {s} : Holders(t)' = Holders(t)
    BY <2>1 DEF Holders, HoldsPlace, TypeOK
  <2>4. Places'
    <3>1. slots'[s] = slots[s] + 1 /\ slots[s] \in Nat /\ Limit \in Nat
      BY <1>0, <2>1, SubagentPoolAssumption DEF TypeOK
    <3>2. slots'[s] + Cardinality(Holders(s)') = Limit
      BY <1>0, <1>00, <2>2, <3>1 DEF Places
    <3>3. \A t \in Session \ {s} : slots'[t] = slots[t]
      BY <2>1 DEF TypeOK
    <3> QED BY <2>3, <3>2, <3>3 DEF Places
  <2>5. slots[s] \in 0..Limit /\ slots[s] + 1 <= Limit
    BY <1>0, <1>00, SubagentPoolAssumption DEF Places, TypeOK
  <2>6. SemaphoreTyped /\ Grants(h) /\ adm'[h] = "ended"
    BY <1>0, <2>1, <2>5, SubagentPoolAssumption DEF TypeOK, SemaphoreTyped, Grants
  <2>7. Queues'
    BY <2>1 DEF Queues, TypeOK, HoldsPlace
  <2> QED BY <2>4, <2>6, <2>7
<1>2. CASE waiters[s] # <<>>
  <2> DEFINE w == Head(waiters[s])
  <2>1. /\ waiters' = [waiters EXCEPT ![s] = Tail(@)] /\ slots' = slots
        /\ adm' = [adm EXCEPT ![h] = "ended", ![w] = "granted"]
    BY <1>2 DEF Release
  <2>2. waiters[s] \in Seq(Handle) /\ Distinct(waiters[s])
    BY <1>0 DEF Queues, TypeOK
  <2>3. /\ w \in Handle /\ Has(waiters[s], w) /\ Tail(waiters[s]) \in Seq(Handle)
        /\ Distinct(Tail(waiters[s]))
        /\ \A x : Has(Tail(waiters[s]), x) <=> Has(waiters[s], x) /\ x # w
    BY <1>2, <2>2, TailLemma
  <2>4. SessionOf[w] = s /\ adm[w] = "waiting" /\ w # h
    BY <1>0, <2>3 DEF Queues, HoldsPlace
  <2>5. SemaphoreTyped /\ Grants(h) /\ adm'[h] = "ended"
    BY <1>0, <2>1, <2>3, <2>4 DEF TypeOK, SemaphoreTyped, Grants
  <2>6. Holders(s)' = (Holders(s) \ {h}) \cup {w} /\ w \notin Holders(s) \ {h}
    BY <2>1, <2>3, <2>4 DEF Holders, HoldsPlace, TypeOK
  <2>7. \A t \in Session \ {s} : Holders(t)' = Holders(t)
    BY <2>1, <2>3, <2>4 DEF Holders, HoldsPlace, TypeOK
  <2>8. Cardinality(Holders(s)') = Cardinality(Holders(s))
    <3>1. Cardinality((Holders(s) \ {h}) \cup {w}) = Cardinality(Holders(s) \ {h}) + 1
      BY <1>00, <2>6, FS_AddElement
    <3> QED BY <1>00, <2>6, <3>1
  <2>9. Places'
    BY <1>0, <2>1, <2>7, <2>8 DEF Places, TypeOK
  <2>10. ASSUME NEW t \in Session
         PROVE  /\ Distinct(waiters'[t])
                /\ \A g \in Handle : Has(waiters'[t], g) <=> SessionOf[g] = t /\ adm'[g] = "waiting"
    <3>1. CASE t = s
      BY <1>0, <2>1, <2>3, <2>4, <3>1 DEF Queues, TypeOK, HoldsPlace
    <3>2. CASE t # s
      BY <1>0, <2>1, <2>3, <2>4, <3>2 DEF Queues, TypeOK
    <3> QED BY <3>1, <3>2
  <2>11. Queues'
    BY <2>10 DEF Queues, Has, Distinct
  <2> QED BY <2>5, <2>9, <2>11
<1> QED BY <1>1, <1>2

LEMMA AbandonLemma ==
  ASSUME TypeOK, Places, Queues, NEW h \in Handle, AbandonAdmission(h)
  PROVE  /\ SemaphoreTyped /\ Places' /\ Queues' /\ Grants(h)
         /\ adm'[h] = IF adm[h] \in {"granted", "waiting", "new"} THEN "ended" ELSE adm[h]
<1> DEFINE s == SessionOf[h]
<1>0. s \in Session
  BY SubagentPoolAssumption
<1>1. CASE adm[h] = "granted"
  <2>1. HoldsPlace(h) /\ Release(h, s)
    BY <1>1 DEF HoldsPlace, AbandonAdmission
  <2> QED BY <1>1, <2>1, ReleaseLemma
<1>2. CASE adm[h] = "waiting"
  <2>1. /\ waiters' = [waiters EXCEPT ![s] = Without(@, h)] /\ adm' = [adm EXCEPT ![h] = "ended"]
        /\ slots' = slots
    BY <1>2 DEF AbandonAdmission
  <2>2. waiters[s] \in Seq(Handle) /\ Distinct(waiters[s]) /\ Has(waiters[s], h)
    BY <1>0, <1>2 DEF Queues, TypeOK
  <2>3. /\ Without(waiters[s], h) \in Seq(Handle) /\ Distinct(Without(waiters[s], h))
        /\ \A x : Has(Without(waiters[s], h), x) <=> Has(waiters[s], x) /\ x # h
    BY <2>2, WithoutLemma
  <2>4. SemaphoreTyped /\ Grants(h) /\ adm'[h] = "ended"
    BY <1>0, <2>1, <2>3 DEF TypeOK, SemaphoreTyped, Grants
  <2>5. \A t \in Session : Holders(t)' = Holders(t)
    BY <1>2, <2>1 DEF Holders, HoldsPlace, TypeOK
  <2>6. Places'
    BY <2>1, <2>5 DEF Places
  <2>7. ASSUME NEW t \in Session
        PROVE  /\ Distinct(waiters'[t])
               /\ \A g \in Handle : Has(waiters'[t], g) <=> SessionOf[g] = t /\ adm'[g] = "waiting"
    <3>1. CASE t = s
      BY <1>0, <2>1, <2>3, <3>1 DEF Queues, TypeOK
    <3>2. CASE t # s
      BY <1>0, <1>2, <2>1, <3>2 DEF Queues, TypeOK
    <3> QED BY <3>1, <3>2
  <2>8. Queues'
    BY <2>7 DEF Queues, Has, Distinct
  <2> QED BY <1>2, <2>4, <2>6, <2>8
<1>3. CASE adm[h] = "new"
  <2>1. adm' = [adm EXCEPT ![h] = "ended"] /\ slots' = slots /\ waiters' = waiters
    BY <1>3 DEF AbandonAdmission
  <2>2. \A t \in Session : Holders(t)' = Holders(t)
    BY <1>3, <2>1 DEF Holders, HoldsPlace, TypeOK
  <2>3. SemaphoreTyped /\ Grants(h) /\ adm'[h] = "ended"
    BY <2>1 DEF TypeOK, SemaphoreTyped, Grants
  <2> QED BY <1>3, <2>1, <2>2, <2>3 DEF Places, Queues, TypeOK
<1>4. CASE adm[h] \notin {"granted", "waiting", "new"}
  <2>1. adm' = adm /\ slots' = slots /\ waiters' = waiters
    BY <1>4 DEF AbandonAdmission
  <2> QED BY <1>4, <2>1 DEF Places, Queues, TypeOK, SemaphoreTyped, Grants, Holders, HoldsPlace
<1> QED BY <1>1, <1>2, <1>3, <1>4

\* A step that moves no admission into or out of a place, and none to or from
\* a queue, keeps the semaphores as they are.
LEMMA QuietLemma ==
  ASSUME Places, Queues, slots' = slots, waiters' = waiters,
         \A h \in Handle : /\ HoldsPlace(h)' <=> HoldsPlace(h)
                           /\ adm'[h] = "waiting" <=> adm[h] = "waiting"
  PROVE  Places' /\ Queues'
<1>1. \A s : Holders(s)' = Holders(s)
  BY DEF Holders
<1> QED BY <1>1 DEF Places, Queues

\* _finished: a semaphore nobody holds a place of is whole already.
LEMMA FinishedLemma ==
  ASSUME TypeOK, Places, Queues, NEW h \in Handle, Finished(h)
  PROVE  Places' /\ Queues' /\ slots' = slots
<1> DEFINE s == SessionOf[h]
<1>1. s \in Session /\ adm[h] = "ended" /\ adm' = [adm EXCEPT ![h] = "done"] /\ waiters' = waiters
  BY SubagentPoolAssumption DEF Finished
<1>2. slots' = slots
  <2>1. CASE \E g \in Handles \ {h} : SessionOf[g] = s
    BY <2>1 DEF Finished
  <2>2. CASE ~\E g \in Handles \ {h} : SessionOf[g] = s
    <3>1. Holders(s) = {}
      BY <1>1, <2>2 DEF Holders, HoldsPlace, Handles, Live
    <3>2. slots[s] = Limit
      <4>1. Cardinality(Holders(s)) = 0 /\ slots[s] \in Nat
        BY <1>1, <3>1, FS_EmptySet, SubagentPoolAssumption DEF TypeOK
      <4>2. slots[s] + Cardinality(Holders(s)) = Limit
        BY <1>1 DEF Places
      <4> QED BY <4>1, <4>2
    <3> QED BY <1>1, <2>2, <3>2 DEF Finished, TypeOK
  <2> QED BY <2>1, <2>2
<1>3. \A g \in Handle : /\ HoldsPlace(g)' <=> HoldsPlace(g)
                        /\ adm'[g] = "waiting" <=> adm[g] = "waiting"
  BY <1>1 DEF HoldsPlace, TypeOK
<1> QED BY <1>1, <1>2, <1>3, QuietLemma

-----------------------------------------------------------------------------
(* Every step keeps the invariant.                                         *)

LEMMA PoolInit == Init => PoolInv
<1> SUFFICES ASSUME Init PROVE PoolInv
  OBVIOUS
<1> USE DEF Init
<1>0. Limit \in 0..Limit /\ 0 \in 0..MaxCancels /\ <<>> \in Seq(Handle) /\ Limit + 0 = Limit
  BY SubagentPoolAssumption
<1>1. TypeOK
  BY <1>0 DEF TypeOK
<1>2. Places
  <2>1. \A s : Holders(s) = {}
    BY DEF Holders, HoldsPlace
  <2> QED BY <1>0, <2>1, FS_EmptySet DEF Places
<1>3. Queues
  BY DEF Queues, Distinct, Has
<1> QED BY <1>1, <1>2, <1>3 DEF PoolInv, Phases, Callers, Reached

\* A step of the semaphore that gives a child no thread, or ends its admission
\* while it has none or a dead one, keeps the other three parts.
LEMMA AdmissionLemma ==
  ASSUME PoolInv, NEW h \in Handle, SemaphoreTyped, Grants(h),
         \/ adm[h] = "new" /\ adm'[h] \in {"granted", "waiting"}
         \/ adm[h] \in {"new", "waiting", "granted"} /\ adm'[h] = "ended"
         \/ adm[h] = "closing" /\ thr[h] = "dead" /\ adm'[h] = "ended",
         UNCHANGED <<thr, fut, call, hits>>
  PROVE  Phases' /\ Callers'
<1> USE DEF PoolInv
<1>1. \A g \in Handle \ {h} : adm'[g] = adm[g] \/ (adm[g] = "waiting" /\ adm'[g] = "granted")
  BY DEF Grants
<1>2. Phases'
  BY <1>1 DEF Phases
<1>3. Callers'
  BY <1>1 DEF Callers
<1> QED BY <1>2, <1>3

LEMMA PoolStep == PoolInv /\ [Next]_vars => PoolInv'
<1> SUFFICES ASSUME PoolInv, [Next]_vars PROVE PoolInv'
  OBVIOUS
<1> USE DEF PoolInv
<1> USE DEF owner, child
<1>1. ASSUME NEW h \in Handle, Run(h) PROVE PoolInv'
  <2> USE <1>1 DEF Run
  <2>1. TypeOK'
    BY DEF TypeOK
  <2>2. Places' /\ Queues'
    BY QuietLemma DEF HoldsPlace, TypeOK
  <2>3. Phases' /\ Callers' /\ Reached'
    BY DEF Phases, Callers, Reached, TypeOK
  <2> QED BY <2>1, <2>2, <2>3
<1>2. ASSUME NEW h \in Handle, Enter(h) PROVE PoolInv'
  <2> USE <1>2 DEF Enter
  <2>1. /\ SemaphoreTyped /\ Places' /\ Queues' /\ Grants(h) /\ adm'[h] \in {"granted", "waiting"}
    BY AcquireLemma
  <2>2. TypeOK'
    BY <2>1 DEF TypeOK, SemaphoreTyped
  <2>3. Phases' /\ Callers'
    BY <2>1, AdmissionLemma
  <2>4. Reached'
    BY DEF Reached
  <2> QED BY <2>1, <2>2, <2>3, <2>4
<1>3. ASSUME NEW h \in Handle, StartThread(h) PROVE PoolInv'
  <2> USE <1>3 DEF StartThread
  <2>1. CASE closed \/ h \in flag
    <3>1. Release(h, SessionOf[h]) /\ HoldsPlace(h) /\ thr' = thr
      BY <2>1 DEF HoldsPlace
    <3>2. /\ SemaphoreTyped /\ Places' /\ Queues' /\ Grants(h) /\ adm'[h] = "ended"
      BY <3>1, ReleaseLemma
    <3>3. TypeOK'
      BY <3>1, <3>2 DEF TypeOK, SemaphoreTyped
    <3>4. Phases' /\ Callers'
      BY <3>1, <3>2, AdmissionLemma
    <3>5. Reached'
      BY <3>1 DEF Reached
    <3> QED BY <3>2, <3>3, <3>4, <3>5
  <2>2. CASE ~(closed \/ h \in flag)
    <3>1. /\ adm' = [adm EXCEPT ![h] = "watching"] /\ thr' = [thr EXCEPT ![h] = "boot"]
          /\ UNCHANGED <<slots, waiters>>
      BY <2>2
    <3>2. TypeOK'
      BY <3>1 DEF TypeOK
    <3>3. Places' /\ Queues'
      BY <3>1, QuietLemma DEF HoldsPlace, TypeOK
    <3>4. Phases' /\ Callers'
      BY <3>1 DEF Phases, Callers, TypeOK
    <3>5. Reached'
      BY <3>1 DEF Reached, TypeOK
    <3> QED BY <3>2, <3>3, <3>4, <3>5
  <2> QED BY <2>1, <2>2
<1>4. ASSUME NEW h \in Handle, Observe(h) PROVE PoolInv'
  <2> USE <1>4 DEF Observe
  <2>1. TypeOK'
    BY DEF TypeOK
  <2>2. Places' /\ Queues'
    BY QuietLemma DEF HoldsPlace, TypeOK
  <2>3. Phases' /\ Callers' /\ Reached'
    BY DEF Phases, Callers, Reached, TypeOK
  <2> QED BY <2>1, <2>2, <2>3
<1>5. ASSUME NEW h \in Handle, Join(h) PROVE PoolInv'
  <2> USE <1>5 DEF Join
  <2>1. /\ SemaphoreTyped /\ Places' /\ Queues' /\ Grants(h) /\ adm'[h] = "ended"
    BY ReleaseLemma DEF HoldsPlace
  <2>2. TypeOK'
    BY <2>1 DEF TypeOK, SemaphoreTyped
  <2>3. Phases' /\ Callers'
    BY <2>1, AdmissionLemma
  <2>4. Reached'
    BY DEF Reached
  <2> QED BY <2>1, <2>2, <2>3, <2>4
<1>6. ASSUME NEW h \in Handle, Finished(h) PROVE PoolInv'
  <2>1. Places' /\ Queues' /\ slots' = slots
    BY <1>6, FinishedLemma
  <2> USE <1>6 DEF Finished
  <2>2. TypeOK'
    BY <2>1 DEF TypeOK
  <2>3. Phases' /\ Callers' /\ Reached'
    BY DEF Phases, Callers, Reached, TypeOK
  <2> QED BY <2>1, <2>2, <2>3
<1>7. ASSUME NEW h \in Handle, ResultReady(h) \/ Return(h) \/ CancelCaller(h) PROVE PoolInv'
  <2> USE <1>7, SubagentPoolAssumption DEF ResultReady, Return, CancelCaller
  <2>1. TypeOK'
    <3>1. hits' \in [Handle -> 0..MaxCancels]
      <4>1. CASE CancelCaller(h)
        <5>1. hits[h] + 1 \in 0..MaxCancels
          BY <4>1 DEF TypeOK
        <5> QED BY <4>1, <5>1 DEF TypeOK
      <4> QED BY <4>1 DEF TypeOK
    <3>2. \E place \in {"settling", "returned"} : call' = [call EXCEPT ![h] = place]
      OBVIOUS
    <3>3. call' \in [Handle -> {"none", "waiting", "settling", "returned"}]
      BY <3>2 DEF TypeOK
    <3>4. todo' \subseteq Handle
      BY DEF TypeOK
    <3> QED BY <3>1, <3>3, <3>4 DEF TypeOK
  <2>2. Places' /\ Queues'
    BY QuietLemma DEF HoldsPlace
  <2>3. Phases' /\ Reached'
    BY DEF Phases, Reached
  <2>4. Callers'
    BY DEF Callers, TypeOK
  <2> QED BY <2>1, <2>2, <2>3, <2>4
<1>8. ASSUME NEW h \in Handle, CancelFlag(h) PROVE PoolInv'
  <2>1. CASE h \in flag
    <3>1. UNCHANGED <<flag, cur, adm, slots, waiters, closed, call, hits, awaited, thr, due, fut>> /\ todo' \subseteq todo
      BY <1>8, <2>1 DEF CancelFlag
    <3>2. TypeOK'
      BY <3>1 DEF TypeOK
    <3> QED BY <3>1, <3>2 DEF Places, Queues, Holders, HoldsPlace, Phases, Callers, Reached
  <2>2. CASE h \notin flag
    <3>1. /\ flag' = flag \cup {h} /\ cur' = [h |-> h, step |-> "loop"] /\ todo' = todo \ {h}
          /\ UNCHANGED <<closed, call, hits, awaited, thr, due, fut>>
      BY <1>8, <2>2 DEF CancelFlag
    <3>2. Reached'
      BY <3>1, <1>8 DEF Reached, CancelFlag, NoCancel
    <3>3. /\ SemaphoreTyped /\ Places' /\ Queues' /\ Phases' /\ Callers'
      <4>1. CASE thr[h] = "none"
        <5>1. AbandonAdmission(h)
          BY <1>8, <2>2, <4>1 DEF CancelFlag
        <5>2. /\ SemaphoreTyped /\ Places' /\ Queues' /\ Grants(h)
              /\ adm'[h] = IF adm[h] \in {"granted", "waiting", "new"} THEN "ended" ELSE adm[h]
          BY <5>1, AbandonLemma
        <5>3. Phases' /\ Callers'
          BY <3>1, <4>1, <5>2 DEF Phases, Callers, Grants
        <5> QED BY <5>2, <5>3
      <4>2. CASE thr[h] # "none"
        <5>1. UNCHANGED <<adm, slots, waiters>>
          BY <1>8, <2>2, <4>2 DEF CancelFlag
        <5> QED BY <3>1, <5>1 DEF TypeOK, SemaphoreTyped, Places, Queues, Holders, HoldsPlace, Phases, Callers
      <4> QED BY <4>1, <4>2
    <3>4. TypeOK'
      BY <3>1, <3>3 DEF TypeOK, SemaphoreTyped
    <3> QED BY <3>2, <3>3, <3>4
  <2> QED BY <2>1, <2>2
<1>9. ASSUME NEW h \in Handle, ChildStep(h) PROVE PoolInv'
  <2>1. UNCHANGED <<owner, due, flag, cur>>
    BY <1>9 DEF ChildStep, SetLoop, SetTask, CheckFlag, EndUser, Resolve, Exit, ChildMove
  <2>2. Places' /\ Queues'
    BY <2>1, QuietLemma DEF HoldsPlace
  <2>3. CASE SetLoop(h) \/ SetTask(h) \/ EndUser(h) \/ Exit(h)
    <3> USE <2>1, <2>3 DEF SetLoop, SetTask, EndUser, Exit, ChildMove
    <3>1. TypeOK'
      BY DEF TypeOK
    <3>2. Phases' /\ Callers'
      BY DEF Phases, Callers, TypeOK
    <3>3. Reached'
      BY DEF Reached, TypeOK
    <3> QED BY <2>2, <3>1, <3>2, <3>3
  <2>4. CASE CheckFlag(h)
    <3> USE <2>1, <2>4 DEF CheckFlag
    <3>1. TypeOK'
      BY DEF TypeOK
    <3>2. Phases' /\ Callers'
      BY DEF Phases, Callers, TypeOK
    <3>3. Reached'
      BY DEF Reached, TypeOK
    <3> QED BY <2>2, <3>1, <3>2, <3>3
  <2>5. CASE Resolve(h)
    <3>1. PICK end \in {"result", "error", "cancelled"} : fut' = [fut EXCEPT ![h] = end]
      BY <2>5 DEF Resolve
    <3>2. thr[h] = "cleanup" /\ thr' = [thr EXCEPT ![h] = "resolved"]
      BY <2>5 DEF Resolve
    <3>3. TypeOK'
      BY <2>1, <3>1, <3>2 DEF TypeOK
    <3>4. Phases' /\ Callers'
      BY <2>1, <3>1, <3>2 DEF Phases, Callers, TypeOK
    <3>5. Reached'
      BY <2>1, <3>2 DEF Reached, TypeOK
    <3> QED BY <2>2, <3>3, <3>4, <3>5
  <2> QED BY <1>9, <2>3, <2>4, <2>5 DEF ChildStep
<1>10. ASSUME NEW G \in SUBSET Handles, CancelGroup(G) PROVE PoolInv'
  <2> USE <1>10 DEF CancelGroup, Handles
  <2>1. TypeOK'
    BY DEF TypeOK
  <2> QED BY <2>1, QuietLemma DEF HoldsPlace, Phases, Callers, Reached
<1>11. ASSUME Gathered \/ Stop PROVE PoolInv'
  <2> USE <1>11 DEF Gathered, Stop, Handles
  <2>1. TypeOK'
    BY DEF TypeOK
  <2> QED BY <2>1, QuietLemma DEF HoldsPlace, Phases, Callers, Reached
<1>12. ASSUME ReadLoop \/ ReadTask PROVE PoolInv'
  <2> USE <1>12 DEF ReadLoop, ReadTask
  <2>0. cur \in [h : Handle, step : {"flag", "loop", "task"}] /\ cur # NoCancel
    BY DEF TypeOK, NoCancel
  <2>1. TypeOK'
    <3>1. cur' \in {NoCancel} \cup [h : Handle, step : {"flag", "loop", "task"}]
      BY <2>0
    <3>2. due' \subseteq Handle
      BY <2>0 DEF TypeOK
    <3> QED BY <3>1, <3>2 DEF TypeOK
  <2>2. Places' /\ Queues'
    BY QuietLemma DEF HoldsPlace
  <2>3. Phases' /\ Callers'
    BY DEF Phases, Callers
  <2>4. Reached'
    <3>1. CASE ReadLoop
      <4>1. UNCHANGED <<thr, flag, due>>
        BY <3>1
      <4>2. CASE LoopSet(cur.h)
        <5>1. cur'.h = cur.h /\ cur' # NoCancel
          BY <2>0, <3>1, <4>2 DEF NoCancel
        <5> QED BY <2>0, <4>1, <5>1 DEF Reached
      <4>3. CASE ~LoopSet(cur.h)
        <5>1. thr[cur.h] # "user"
          BY <4>3 DEF LoopSet
        <5> QED BY <4>1, <5>1 DEF Reached
      <4> QED BY <4>2, <4>3
    <3>2. CASE ReadTask
      <4>1. cur' = NoCancel /\ thr' = thr /\ flag' = flag
        BY <3>2
      <4>2. due \subseteq due' /\ (thr[cur.h] = "user" => cur.h \in due')
        BY <3>2 DEF TaskSet
      <4> QED BY <4>1, <4>2 DEF Reached
    <3> QED BY <3>1, <3>2
  <2> QED BY <2>1, <2>2, <2>3, <2>4
<1>13. CASE UNCHANGED vars
  BY <1>13 DEF vars, TypeOK, Places, Queues, Holders, HoldsPlace, Phases, Callers, Reached
<1> QED BY <1>1, <1>2, <1>3, <1>4, <1>5, <1>6, <1>7, <1>8, <1>9, <1>10, <1>11, <1>12, <1>13 DEF Next, OwnerStep

LEMMA PoolInvHolds == Spec => []PoolInv
<1>1. Init => PoolInv
  BY PoolInit
<1>2. PoolInv /\ [Next]_vars => PoolInv'
  BY PoolStep
<1> QED BY <1>1, <1>2, PTL DEF Spec

-----------------------------------------------------------------------------
(* The theorems.                                                           *)

\* Every variable of SubagentPool keeps its type.
THEOREM PoolTypeCorrect == Spec => []TypeOK
BY PoolInvHolds, PTL DEF PoolInv

\* No cancellation is lost between cancel() and the child's thread that sets
\* and clears what cancel() reads (SubagentHandle.cancel and _run).
THEOREM CancelReachesChildCorrect == Spec => []CancelReachesChild
<1>1. PoolInv => CancelReachesChild
  BY DEF PoolInv, Reached, CancelReachesChild
<1> QED BY <1>1, PoolInvHolds, PTL

\* Whoever was told that a child has ended finds its thread gone, and no
\* session ever has more than Limit threads, although its semaphore is
\* forgotten and made anew (_dispatch, _finished, run).
THEOREM EndedChildIsStillCorrect == Spec => []EndedChildIsStill
<1>1. PoolInv => NoThreadOutlivesAdmission /\ ReturnAfterWork
  BY DEF PoolInv, Phases, Callers, NoThreadOutlivesAdmission, ReturnAfterWork, Alive, TypeOK
<1>2. PoolInv => AtMostLimit
  <2>1. SUFFICES ASSUME PoolInv, NEW s \in Session
                 PROVE  Cardinality({h \in Handle : SessionOf[h] = s /\ Alive(h)}) <= Limit
    BY DEF AtMostLimit
  <2> DEFINE A == {h \in Handle : SessionOf[h] = s /\ Alive(h)}
  <2>2. A \subseteq Holders(s)
    BY <2>1 DEF PoolInv, Phases, Alive, Holders, HoldsPlace
  <2>3. Cardinality(A) <= Cardinality(Holders(s)) /\ Cardinality(A) \in Nat /\ Cardinality(Holders(s)) \in Nat
    BY <2>2, HoldersFinite, FS_Subset, FS_CardinalityType
  <2>4. slots[s] \in Nat /\ slots[s] + Cardinality(Holders(s)) = Limit /\ Limit \in Nat
    BY <2>1, SubagentPoolAssumption DEF PoolInv, TypeOK, Places
  <2> QED BY <2>3, <2>4
<1> QED BY <1>1, <1>2, PoolInvHolds, PTL DEF EndedChildIsStill

-----------------------------------------------------------------------------
(* Part B, InputGate: what holds of lines, commands and the gate.          *)

Idle == {"off", "asked", "over"}
CommandPlace ==
  Idle \cup {"reset", "discard", "list", "restore", "renew", "discard2", "bind", "release"}
LinePlace == {"off", "lock", "refused", "resolve", "keep", "queued", "dropped", "ran"} \cup Working
LineRecord == [at : LinePlace, count : Nat, gen : Nat, conv : Nat, stops : Nat]
CommandRecord == [what : {"none", "clear", "load", "cd"}, at : CommandPlace, gen : Nat \X Nat]

GateTypeOK ==
  /\ gate \in [open : BOOLEAN, active : Nat, count : Nat]
  /\ session \in [gen : Nat, conv : Nat, paused : BOOLEAN, resuming : Nat,
                  first : BOOLEAN, fresh : BOOLEAN]
  /\ line \in [Line -> LineRecord]
  /\ turnQueue \in [waiting : Seq(Line), current : Line \cup {0}]
  /\ command \in [Command -> CommandRecord]
  /\ ran \in Seq([line : Line, conv : Nat, untitled : BOOLEAN])
  /\ upset \in [stops : Nat, overlap : BOOLEAN, failed : BOOLEAN, renamed : BOOLEAN]

\* Where each command goes.
CommandOK(r) ==
  /\ r.what = "none" => r.at = "off"
  /\ r.what = "clear" => r.at \in {"asked", "reset", "discard", "over"}
  /\ r.what = "load" => r.at \notin {"off", "reset", "discard"}
  /\ r.what = "cd" => r.at # "off"

\* How often each command has shut the gate; the gate counts them all.
Weight(r) == IF r.at \in Idle THEN 0 ELSE IF r.at = "list" \/ r.what = "clear" THEN 1 ELSE 2
Holds == {s \in Command \X {1, 2} : s[2] <= Weight(command[s[1]])}
GateCounts ==
  /\ \A c \in Command : CommandOK(command[c])
  /\ gate.active = Cardinality(Holds)
  /\ gate.open <=> gate.active = 0

Admitted == {l \in Line : line[l].at \in {"resolve", "keep", "queued"} \cup Working}
LiveLines == {l \in Line : line[l].at = "lock"} \cup Admitted

\* A live line was typed while the gate was open, so the commands at work have
\* shut it since; only the first list of a /load does not count.
LinesKnowTheGate ==
  /\ \A l \in Line : line[l].count <= gate.count /\ line[l].gen <= session.gen /\ line[l].stops <= upset.stops
  /\ \A l \in LiveLines : line[l].count = gate.count =>
       /\ line[l].conv = session.conv
       /\ \A c \in Command : command[c].at \in Idle \/ (command[c].at = "list" /\ command[c].what = "load")

\* A line of this generation is one of this conversation, and none is there
\* between the discarding of a conversation and the next one.
AcceptedAreOfNow ==
  \A l \in Admitted : line[l].gen = session.gen =>
    /\ line[l].conv = session.conv
    /\ \A c \in Command : command[c].at \notin {"discard", "discard2"}

InWaiting(l) == \E n \in DOMAIN turnQueue.waiting : turnQueue.waiting[n] = l

\* What a line can find when it is checked was brought about by a command or a stop.
AsideForAReason ==
  \A l \in Line :
    \/ line[l].at = "dropped"
    \/ l \in Admitted /\ line[l].gen # session.gen
    \/ line[l].at = "keep" /\ ~InWaiting(l)
    => PutAside(l)

\* Lines that have begun, that are being prepared, that wait, that are being
\* resolved, that wait for the lock and that are still to come: each before the next.
Began == {ran[n].line : n \in DOMAIN ran}
AtWork == {l \in Line : line[l].at \in Working}
Waiting == {turnQueue.waiting[n] : n \in DOMAIN turnQueue.waiting}
Resolving == {l \in Line : line[l].at = "resolve"}
Coming == {l \in Line : line[l].at = "off"}
Precede(S, T) == \A a \in S, b \in T : a < b
LinesInOrder ==
  /\ RanInOrder /\ Precede(Began, AtWork \cup Waiting \cup Resolving \cup Locking \cup Coming)
  /\ Precede(AtWork, Waiting \cup Resolving \cup Locking \cup Coming)
  /\ Precede(Waiting, Resolving \cup Locking \cup Coming)
  /\ \A m, n \in DOMAIN turnQueue.waiting : m < n => turnQueue.waiting[m] < turnQueue.waiting[n]
  /\ Precede(Resolving, Locking \cup Coming) /\ Precede(Locking, Coming)
OneAtATime ==
  /\ \A l \in Line : line[l].at \in Working <=> l = turnQueue.current
  /\ \A n \in DOMAIN turnQueue.waiting : line[turnQueue.waiting[n]].at \in {"queued", "keep"}
  /\ \A l, m \in Holder : l = m

\* Past the gate there is nobody while a conversation is discarded, chosen or installed.
PastGate == Working \ {"gate"}
NonePastTheGate ==
  (\E c \in Command : command[c].at \notin Idle \cup {"reset"}) => \A l \in Line : line[l].at \notin PastGate
OneCommand == ~upset.overlap => \A c, d \in Command : command[c].at \notin Idle /\ command[d].at \notin Idle => c = d

\* A conversation without a title expects its first input; /cd makes the new
\* one before the user has chosen what comes.
Choosing(r) == r.what = "cd" /\ r.at \in {"list", "restore", "renew", "discard2", "bind"}
FirstIsFresh ==
  ~upset.overlap /\ ~upset.failed =>
    /\ (\E c \in Command : Choosing(command[c])) => session.fresh
    /\ (\A c \in Command : ~Choosing(command[c])) => session.first = session.fresh
    /\ (\E c \in Command : command[c].at = "release") => ~session.fresh
    /\ \A l \in Line : /\ line[l].at \in {"bind", "title", "save"} => session.fresh
                       /\ line[l].at = "prepare" => ~session.fresh
    /\ (\A n \in DOMAIN ran : ~ran[n].untitled) /\ ~upset.renamed

GateInv ==
  /\ GateCounts /\ LinesKnowTheGate /\ AcceptedAreOfNow /\ AsideForAReason /\ RanWhereTyped
  /\ LinesInOrder /\ OneAtATime /\ NonePastTheGate /\ OneCommand /\ FirstIsFresh

\* A command's shares of the gate, added to those of the others.
LEMMA SharesOf ==
  ASSUME NEW B, IsFiniteSet(B), NEW c, <<c, 1>> \notin B, <<c, 2>> \notin B, NEW w \in 0..2, NEW H,
         \A s : s \in H <=> s \in B \/ (s \in {<<c, 1>>, <<c, 2>>} /\ s[2] <= w)
  PROVE  IsFiniteSet(H) /\ Cardinality(H) = Cardinality(B) + w
<1>1. IsFiniteSet(B \cup {<<c, 1>>}) /\ Cardinality(B \cup {<<c, 1>>}) = Cardinality(B) + 1
  BY FS_AddElement
<1>2. <<c, 2>> \notin B \cup {<<c, 1>>}
  OBVIOUS
<1>3. /\ IsFiniteSet((B \cup {<<c, 1>>}) \cup {<<c, 2>>})
      /\ Cardinality((B \cup {<<c, 1>>}) \cup {<<c, 2>>}) = Cardinality(B \cup {<<c, 1>>}) + 1
  BY <1>1, <1>2, FS_AddElement
<1>4. Cardinality(B) \in Nat
  BY FS_CardinalityType
<1>5. CASE w = 0
  <2>1. H = B
    BY <1>5
  <2> QED BY <1>4, <1>5, <2>1
<1>6. CASE w = 1
  <2>1. H = B \cup {<<c, 1>>}
    BY <1>6
  <2> QED BY <1>1, <1>6, <2>1
<1>7. CASE w = 2
  <2>1. H = (B \cup {<<c, 1>>}) \cup {<<c, 2>>}
    BY <1>7
  <2>2. (Cardinality(B) + 1) + 1 = Cardinality(B) + 2
    BY <1>4
  <2> QED BY <1>1, <1>3, <1>7, <2>1, <2>2
<1> QED BY <1>5, <1>6, <1>7

\* One command moves: the shares change by what it takes and gives back.
LEMMA SharesMove ==
  ASSUME GateTypeOK, NEW c \in Command, NEW r \in CommandRecord, command' = [command EXCEPT ![c] = r]
  PROVE  /\ Weight(command[c]) \in 0..2 /\ Weight(r) \in 0..2
         /\ Cardinality(Holds) \in Nat /\ Weight(command[c]) <= Cardinality(Holds)
         /\ Cardinality(Holds') = (Cardinality(Holds) - Weight(command[c])) + Weight(r)
<1> DEFINE B == {s \in Holds : s[1] # c}
<1>1. Weight(command[c]) \in 0..2 /\ Weight(r) \in 0..2
  BY DEF Weight
<1>2. IsFiniteSet(B)
  <2>1. IsFiniteSet(Command) /\ IsFiniteSet({1, 2})
    <3>1. IsFiniteSet(Command)
      BY InputGateAssumption, FS_Interval DEF Command
    <3>2. IsFiniteSet(1..2)
      <4>1. 1 \in Int /\ 2 \in Int
        OBVIOUS
      <4> QED BY <4>1, FS_Interval
    <3>3. 1..2 = {1, 2}
      OBVIOUS
    <3> QED BY <3>1, <3>2, <3>3
  <2>2. IsFiniteSet(Command \X {1, 2})
    BY <2>1, FS_Product
  <2>3. B \in SUBSET (Command \X {1, 2})
    BY DEF Holds
  <2> QED BY <2>2, <2>3, FS_Subset
<1>3. \A s : s \in Holds <=> s \in B \/ (s \in {<<c, 1>>, <<c, 2>>} /\ s[2] <= Weight(command[c]))
  BY DEF Holds
<1>4. \A s : s \in Holds' <=> s \in B \/ (s \in {<<c, 1>>, <<c, 2>>} /\ s[2] <= Weight(r))
  <2>1. command \in [Command -> CommandRecord]
    BY DEF GateTypeOK
  <2>2. command'[c] = r /\ \A d \in Command \ {c} : command'[d] = command[d]
    BY <2>1
  <2>3. Holds' = {s \in Command \X {1, 2} : s[2] <= Weight(command'[s[1]])}
    BY DEF Holds, Weight
  <2> QED BY <2>2, <2>3 DEF Holds
<1>5. <<c, 1>> \notin B /\ <<c, 2>> \notin B
  OBVIOUS
<1> HIDE DEF B
<1>6. IsFiniteSet(Holds) /\ Cardinality(Holds) = Cardinality(B) + Weight(command[c])
  BY <1>1, <1>2, <1>3, <1>5, SharesOf
<1>7. Cardinality(Holds') = Cardinality(B) + Weight(r)
  BY <1>1, <1>2, <1>4, <1>5, SharesOf
<1>8. Cardinality(B) \in Nat
  BY <1>2, FS_CardinalityType
<1> QED BY <1>1, <1>6, <1>7, <1>8
\* What a command does to itself and to the gate.
Moves(c) ==
  /\ command' = [command EXCEPT ![c] = command'[c]]
  /\ command'[c] \in CommandRecord /\ CommandOK(command'[c])
  /\ gate' \in [open : BOOLEAN, active : Int, count : Nat] /\ gate.count <= gate'.count
  /\ gate'.active = (gate.active - Weight(command[c])) + Weight(command'[c])
  /\ gate'.open <=> gate'.active = 0

CommandStep(c) ==
  Begin(c) \/ Pick(c) \/ Discard(c) \/ Discarded(c) \/ Fails(c) \/ Restore(c) \/ Install(c) \/ Released(c)

\* The gate, shut and opened by n commands.
LEMMA GateMoves ==
  ASSUME GateTypeOK, NEW n \in {1, 2}
  PROVE  /\ \A g \in {gate, Shut(gate, n), Counted(Shut(gate, n)), Reopen(gate, n)} :
              g \in [open : BOOLEAN, active : Int, count : Nat] /\ gate.count <= g.count
         /\ \A g \in {Shut(gate, n), Counted(Shut(gate, n))} : ~g.open /\ g.active = gate.active + n
         /\ (Reopen(gate, n).open <=> gate.active = n) /\ Reopen(gate, n).active = gate.active - n
         /\ gate.active \in Nat /\ gate.count \in Nat
<1>1. gate \in [open : BOOLEAN, active : Nat, count : Nat]
  BY DEF GateTypeOK
<1> DEFINE shut == [gate EXCEPT !.open = FALSE]
           both == [shut EXCEPT !.active = @ + n]
           less == [gate EXCEPT !.active = @ - n]
<1>2. /\ shut \in [open : BOOLEAN, active : Nat, count : Nat]
      /\ ~shut.open /\ shut.active = gate.active /\ shut.count = gate.count
  BY <1>1
<1>3. /\ both \in [open : BOOLEAN, active : Nat, count : Nat]
      /\ ~both.open /\ both.active = gate.active + n /\ both.count = gate.count
  <2> HIDE DEF shut
  <2> QED BY <1>2
<1>4. Shut(gate, n) = both
  BY DEF Shut
<1>5. /\ less \in [open : BOOLEAN, active : Int, count : Nat]
      /\ less.active = gate.active - n /\ less.count = gate.count
  BY <1>1
<1>6. Reopen(gate, n) = [less EXCEPT !.open = (gate.active = n)]
  BY DEF Reopen
<1> HIDE DEF both, less
<1>7. /\ Counted(both) \in [open : BOOLEAN, active : Nat, count : Nat]
      /\ ~Counted(both).open /\ Counted(both).active = both.active /\ Counted(both).count = both.count + 1
  BY <1>3 DEF Counted
<1>8. /\ Reopen(gate, n) \in [open : BOOLEAN, active : Int, count : Nat]
      /\ Reopen(gate, n).open <=> gate.active = n
      /\ Reopen(gate, n).active = less.active /\ Reopen(gate, n).count = less.count
  BY <1>5, <1>6
<1>9. gate.active \in Nat /\ gate.count \in Nat /\ gate \in [open : BOOLEAN, active : Int, count : Nat]
  BY <1>1
<1>10. \A g \in {gate, Shut(gate, n), Counted(Shut(gate, n)), Reopen(gate, n)} :
         g \in [open : BOOLEAN, active : Int, count : Nat] /\ gate.count <= g.count
  BY <1>3, <1>4, <1>5, <1>7, <1>8, <1>9
<1> QED BY <1>3, <1>4, <1>5, <1>7, <1>8, <1>9, <1>10

\* Only the command that acts changes, and so far.
LEMMA CommandPlaces ==
  ASSUME GateTypeOK, NEW c \in Command
  PROVE  /\ command[c] \in CommandRecord
         /\ \A p \in CommandPlace :
              /\ In(c, p)[c] = [what |-> command[c].what, at |-> p, gen |-> command[c].gen]
              /\ In(c, p) = [command EXCEPT ![c] = In(c, p)[c]]
         /\ Over(c)[c] = [what |-> command[c].what, at |-> "over", gen |-> <<0, 0>>]
         /\ Over(c) = [command EXCEPT ![c] = Over(c)[c]]
         /\ Now \in Nat \X Nat
<1>1. command \in [Command -> CommandRecord] /\ Now \in Nat \X Nat
  BY DEF GateTypeOK, Now
<1>2. ASSUME NEW p \in CommandPlace
      PROVE  /\ In(c, p)[c] = [what |-> command[c].what, at |-> p, gen |-> command[c].gen]
             /\ In(c, p) = [command EXCEPT ![c] = In(c, p)[c]]
  BY <1>1 DEF In, CommandRecord
<1>3. /\ Over(c)[c] = [what |-> command[c].what, at |-> "over", gen |-> <<0, 0>>]
      /\ Over(c) = [command EXCEPT ![c] = Over(c)[c]]
  BY <1>1 DEF Over, CommandRecord
<1> QED BY <1>1, <1>2, <1>3

\* The same of a command that remembers where the conversation is.
LEMMA PlacesNow ==
  ASSUME GateTypeOK, NEW c \in Command, NEW p, NEW k, k = [command EXCEPT ![c].at = p, ![c].gen = Now]
  PROVE  /\ k[c] = [what |-> command[c].what, at |-> p, gen |-> Now]
         /\ k = [command EXCEPT ![c] = k[c]]
<1> DEFINE j == [command EXCEPT ![c].at = p]
<1>1. command \in [Command -> CommandRecord]
  BY DEF GateTypeOK
<1>2. k = [j EXCEPT ![c].gen = Now]
  OBVIOUS
<1>3. /\ j[c] = [what |-> command[c].what, at |-> p, gen |-> command[c].gen]
      /\ DOMAIN j = Command /\ j = [d \in Command |-> j[d]] /\ \A d \in Command \ {c} : j[d] = command[d]
  BY <1>1 DEF CommandRecord
<1> HIDE DEF j
<1>4. /\ k[c] = [what |-> command[c].what, at |-> p, gen |-> Now]
      /\ DOMAIN k = Command /\ k = [d \in Command |-> k[d]] /\ \A d \in Command \ {c} : k[d] = command[d]
  <2>1. k[c] = [j[c] EXCEPT !.gen = Now] /\ DOMAIN k = Command /\ \A d \in Command \ {c} : k[d] = command[d]
    BY <1>2, <1>3
  <2>2. k = [d \in Command |-> k[d]]
    BY <1>2, <1>3
  <2>3. k[c] = [what |-> command[c].what, at |-> p, gen |-> Now]
    BY <1>3, <2>1
  <2> QED BY <2>1, <2>2, <2>3
<1>5. k = [command EXCEPT ![c] = k[c]]
  BY <1>1, <1>4
<1> QED BY <1>4, <1>5

\* A command that gives back what it held, and takes what it holds next.
LEMMA MovesTo ==
  ASSUME GateTypeOK, GateCounts, NEW c \in Command, NEW p \in CommandPlace, NEW g \in Nat \X Nat,
         NEW m, m = [what |-> command[c].what, at |-> p, gen |-> g], CommandOK(m),
         command'[c] = m, command' = [command EXCEPT ![c] = command'[c]],
         NEW v \in 0..2, NEW w \in 0..2, Weight(command[c]) = v, Weight(m) = w,
         \/ v = w /\ gate' = gate
         \/ w = v + 1 /\ gate' \in {Shut(gate, 1), Counted(Shut(gate, 1))}
         \/ w = v + 2 /\ gate' \in {Shut(gate, 2), Counted(Shut(gate, 2))}
         \/ v = w + 1 /\ gate' = Reopen(gate, 1)
         \/ v = w + 2 /\ gate' = Reopen(gate, 2)
  PROVE  Moves(c) /\ command'[c].what = command[c].what
<1>1. command[c] \in CommandRecord
  BY CommandPlaces
<1>2. m \in CommandRecord /\ m.what = command[c].what
  BY <1>1 DEF CommandRecord
<1>3. gate.active \in Nat /\ gate.count \in Nat /\ (gate.open <=> gate.active = 0)
  BY GateMoves DEF GateCounts
<1> SUFFICES /\ gate' \in [open : BOOLEAN, active : Int, count : Nat] /\ gate.count <= gate'.count
             /\ gate'.active = (gate.active - v) + w
             /\ gate'.open <=> gate'.active = 0
  BY <1>2 DEF Moves
<1>4. CASE v = w /\ gate' = gate
  <2>1. gate \in [open : BOOLEAN, active : Int, count : Nat]
    BY DEF GateTypeOK
  <2> QED BY <1>3, <1>4, <2>1
<1>5. ASSUME NEW n \in {1, 2}, w = v + n, gate' \in {Shut(gate, n), Counted(Shut(gate, n))}
      PROVE  /\ gate' \in [open : BOOLEAN, active : Int, count : Nat] /\ gate.count <= gate'.count
             /\ gate'.active = (gate.active - v) + w
             /\ gate'.open <=> gate'.active = 0
  <2>1. /\ gate' \in [open : BOOLEAN, active : Int, count : Nat] /\ gate.count <= gate'.count
        /\ ~gate'.open /\ gate'.active = gate.active + n
    BY <1>5, GateMoves
  <2> QED BY <1>3, <1>5, <2>1
<1>6. ASSUME NEW n \in {1, 2}, v = w + n, gate' = Reopen(gate, n)
      PROVE  /\ gate' \in [open : BOOLEAN, active : Int, count : Nat] /\ gate.count <= gate'.count
             /\ gate'.active = (gate.active - v) + w
             /\ gate'.open <=> gate'.active = 0
  <2>1. /\ gate' \in [open : BOOLEAN, active : Int, count : Nat] /\ gate.count <= gate'.count
        /\ (gate'.open <=> gate.active = n) /\ gate'.active = gate.active - n
    BY <1>6, GateMoves
  <2> QED BY <1>3, <1>6, <2>1
<1> QED BY <1>4, <1>5, <1>6

\* The shares fit: a command gives back what it took.
LEMMA CommandMoves ==
  ASSUME GateTypeOK, GateCounts, NEW c \in Command, CommandStep(c)
  PROVE  Moves(c) /\ command'[c].what = command[c].what /\ command[c].at # "off"
<1>1. CommandOK(command[c]) /\ command[c] \in CommandRecord
  BY CommandPlaces DEF GateCounts
<1>2. /\ <<0, 0>> \in Nat \X Nat /\ Now \in Nat \X Nat /\ command[c].gen \in Nat \X Nat
      /\ command[c].what \in {"none", "clear", "load", "cd"}
  BY <1>1, CommandPlaces DEF CommandRecord
<1>3. ASSUME NEW p \in CommandPlace, command' = In(c, p)
      PROVE  /\ command'[c] = [what |-> command[c].what, at |-> p, gen |-> command[c].gen]
             /\ command' = [command EXCEPT ![c] = command'[c]]
  BY <1>3, CommandPlaces
<1>4. ASSUME command' = Over(c)
      PROVE  /\ command'[c] = [what |-> command[c].what, at |-> "over", gen |-> <<0, 0>>]
             /\ command' = [command EXCEPT ![c] = command'[c]]
  BY <1>4, CommandPlaces
<1>5. ASSUME NEW p, command' = [command EXCEPT ![c].at = p, ![c].gen = Now]
      PROVE  /\ command'[c] = [what |-> command[c].what, at |-> p, gen |-> Now]
             /\ command' = [command EXCEPT ![c] = command'[c]]
  <2> DEFINE k == [command EXCEPT ![c].at = p, ![c].gen = Now]
  <2>1. /\ k[c] = [what |-> command[c].what, at |-> p, gen |-> Now]
        /\ k = [command EXCEPT ![c] = k[c]]
    BY PlacesNow
  <2>2. command' = k
    BY <1>5
  <2> HIDE DEF k
  <2> QED BY <2>1, <2>2
<1>6. CASE Begin(c)
  <2>0. command[c].at = "asked" /\ command[c].what # "none"
    BY <1>1, <1>6 DEF Begin, CommandOK
  <2>1. CASE command' = In(c, "reset") /\ gate' = Counted(Shut(gate, 1)) /\ command[c].what = "clear"
    <3>1. /\ command'[c] = [what |-> command[c].what, at |-> "reset", gen |-> command[c].gen]
          /\ command' = [command EXCEPT ![c] = command'[c]]
      BY <1>3, <2>1 DEF CommandPlace
    <3>2. /\ Weight(command[c]) = 0 /\ Weight(command'[c]) = 1 /\ CommandOK(command'[c])
          /\ "reset" \in CommandPlace
      BY <1>1, <2>0, <2>1, <3>1 DEF CommandOK, Weight, Idle, CommandPlace
    <3>3. gate' = Counted(Shut(gate, 1)) /\ command[c].at # "off"
      BY <1>1, <2>1, <2>0
    <3> QED BY <1>2, <3>1, <3>2, <3>3, MovesTo
  <2>2. CASE command' = In(c, "reset") /\ gate' = Counted(Shut(gate, 2)) /\ command[c].what = "cd"
    <3>1. /\ command'[c] = [what |-> command[c].what, at |-> "reset", gen |-> command[c].gen]
          /\ command' = [command EXCEPT ![c] = command'[c]]
      BY <1>3, <2>2 DEF CommandPlace
    <3>2. /\ Weight(command[c]) = 0 /\ Weight(command'[c]) = 2 /\ CommandOK(command'[c])
          /\ "reset" \in CommandPlace
      BY <1>1, <2>0, <2>2, <3>1 DEF CommandOK, Weight, Idle, CommandPlace
    <3>3. gate' = Counted(Shut(gate, 2)) /\ command[c].at # "off"
      BY <1>1, <2>2, <2>0
    <3> QED BY <1>2, <3>1, <3>2, <3>3, MovesTo
  <2>3. CASE command' = Over(c) /\ UNCHANGED gate
    <3>1. /\ command'[c] = [what |-> command[c].what, at |-> "over", gen |-> <<0, 0>>]
          /\ command' = [command EXCEPT ![c] = command'[c]]
      BY <1>4, <2>3 DEF CommandPlace
    <3>2. /\ Weight(command[c]) = 0 /\ Weight(command'[c]) = 0 /\ CommandOK(command'[c])
          /\ "over" \in CommandPlace
      BY <1>1, <2>0, <2>3, <3>1 DEF CommandOK, Weight, Idle, CommandPlace
    <3>3. gate' = gate /\ command[c].at # "off"
      BY <1>1, <2>3, <2>0
    <3> QED BY <1>2, <3>1, <3>2, <3>3, MovesTo
  <2>4. CASE /\ command' = [command EXCEPT ![c].at = "list", ![c].gen = Now] /\ gate' = Shut(gate, 1)
             /\ command[c].what = "load"
    <3>1. /\ command'[c] = [what |-> "load", at |-> "list", gen |-> Now]
          /\ command' = [command EXCEPT ![c] = command'[c]]
      BY <1>5, <2>4
    <3>2. /\ Weight(command[c]) = 0 /\ Weight(command'[c]) = 1 /\ CommandOK(command'[c])
          /\ "list" \in CommandPlace
      BY <2>0, <2>4, <3>1 DEF CommandOK, Weight, Idle, CommandPlace
    <3>3. gate' = Shut(gate, 1) /\ command[c].what = "load" /\ command[c].at # "off"
      BY <2>0, <2>4
    <3> QED BY <1>2, <3>1, <3>2, <3>3, MovesTo
  <2>5. command[c].what \in {"clear", "load", "cd"}
    BY <1>2, <2>0
  <2> QED BY <1>6, <2>0, <2>1, <2>2, <2>3, <2>4, <2>5 DEF Begin
<1>7. CASE Pick(c)
  <2>0. command[c].at = "list" /\ command[c].what \in {"load", "cd"}
    BY <1>1, <1>2, <1>7 DEF Pick, CommandOK
  <2>1. CASE command' = Over(c) /\ gate' = Reopen(gate, 1)
    <3>1. /\ command'[c] = [what |-> command[c].what, at |-> "over", gen |-> <<0, 0>>]
          /\ command' = [command EXCEPT ![c] = command'[c]]
      BY <1>4, <2>1 DEF CommandPlace
    <3>2. /\ Weight(command[c]) = 1 /\ Weight(command'[c]) = 0 /\ CommandOK(command'[c])
          /\ "over" \in CommandPlace
      BY <1>1, <2>0, <2>1, <3>1 DEF CommandOK, Weight, Idle, CommandPlace
    <3>3. gate' = Reopen(gate, 1) /\ command[c].at # "off"
      BY <1>1, <2>1, <2>0
    <3> QED BY <1>2, <3>1, <3>2, <3>3, MovesTo
  <2>2. ASSUME NEW next \in {"restore", "renew"}, command' = In(c, next), gate' = Counted(Shut(gate, 1))
        PROVE  Moves(c) /\ command'[c].what = command[c].what
    <3>1. /\ command'[c] = [what |-> command[c].what, at |-> next, gen |-> command[c].gen]
          /\ command' = [command EXCEPT ![c] = command'[c]]
      BY <1>3, <2>2 DEF CommandPlace
    <3>2. /\ Weight(command[c]) = 1 /\ Weight(command'[c]) = 2 /\ CommandOK(command'[c])
          /\ next \in CommandPlace
      BY <1>1, <2>0, <2>2, <3>1 DEF CommandOK, Weight, Idle, CommandPlace
    <3>3. gate' = Counted(Shut(gate, 1)) /\ command[c].at # "off"
      BY <1>1, <2>2, <2>0
    <3> QED BY <1>2, <3>1, <3>2, <3>3, MovesTo
  <2> QED BY <1>7, <2>0, <2>1, <2>2 DEF Pick, End
<1>8. CASE Discard(c)
  <2>1. CASE command[c].at = "reset" /\ command' = In(c, "discard") /\ UNCHANGED gate
    <3>0. command[c].what \in {"clear", "cd"}
      BY <1>1, <1>2, <2>1 DEF CommandOK
    <3>4. CASE command[c].what = "clear"
      <4>1. /\ command'[c] = [what |-> command[c].what, at |-> "discard", gen |-> command[c].gen]
            /\ command' = [command EXCEPT ![c] = command'[c]]
        BY <1>3, <2>1, <3>4 DEF CommandPlace
      <4>2. /\ Weight(command[c]) = 1 /\ Weight(command'[c]) = 1 /\ CommandOK(command'[c])
            /\ "discard" \in CommandPlace
        BY <1>1, <1>2, <2>1, <3>4, <4>1 DEF CommandOK, Weight, Idle, CommandPlace
      <4>3. gate' = gate /\ command[c].at # "off"
        BY <1>1, <2>1, <3>4
      <4> QED BY <1>2, <4>1, <4>2, <4>3, MovesTo
    <3>5. CASE command[c].what = "cd"
      <4>1. /\ command'[c] = [what |-> command[c].what, at |-> "discard", gen |-> command[c].gen]
            /\ command' = [command EXCEPT ![c] = command'[c]]
        BY <1>3, <2>1, <3>5 DEF CommandPlace
      <4>2. /\ Weight(command[c]) = 2 /\ Weight(command'[c]) = 2 /\ CommandOK(command'[c])
            /\ "discard" \in CommandPlace
        BY <1>1, <1>2, <2>1, <3>5, <4>1 DEF CommandOK, Weight, Idle, CommandPlace
      <4>3. gate' = gate /\ command[c].at # "off"
        BY <1>1, <2>1, <3>5
      <4> QED BY <1>2, <4>1, <4>2, <4>3, MovesTo
    <3> QED BY <3>0, <3>4, <3>5
  <2>2. CASE command[c].at = "renew" /\ command' = In(c, "discard2") /\ UNCHANGED gate
    <3>1. /\ command'[c] = [what |-> command[c].what, at |-> "discard2", gen |-> command[c].gen]
          /\ command' = [command EXCEPT ![c] = command'[c]]
      BY <1>3, <2>2 DEF CommandPlace
    <3>2. /\ Weight(command[c]) = 2 /\ Weight(command'[c]) = 2 /\ CommandOK(command'[c])
          /\ "discard2" \in CommandPlace
      BY <1>1, <1>2, <2>2, <3>1 DEF CommandOK, Weight, Idle, CommandPlace
    <3> QED BY <1>2, <2>2, <3>1, <3>2, MovesTo
  <2> QED BY <1>8, <2>1, <2>2 DEF Discard
<1>9. CASE Discarded(c)
  <2>1. CASE /\ command' = [command EXCEPT ![c].at = "list", ![c].gen = Now] /\ gate' = Reopen(gate, 1)
             /\ command[c].what = "cd" /\ command[c].at = "discard"
    <3>1. /\ command'[c] = [what |-> "cd", at |-> "list", gen |-> Now]
          /\ command' = [command EXCEPT ![c] = command'[c]]
      BY <1>5, <2>1
    <3>2. /\ Weight(command[c]) = 2 /\ Weight(command'[c]) = 1 /\ CommandOK(command'[c])
          /\ "list" \in CommandPlace
      BY <2>1, <3>1 DEF CommandOK, Weight, Idle, CommandPlace
    <3>3. gate' = Reopen(gate, 1) /\ command[c].what = "cd" /\ command[c].at # "off"
      BY <2>1
    <3> QED BY <1>2, <3>1, <3>2, <3>3, MovesTo
  <2>2. CASE command' = Over(c) /\ command[c].at = "discard2" /\ gate' = Reopen(gate, 2)
    <3>1. /\ command'[c] = [what |-> command[c].what, at |-> "over", gen |-> <<0, 0>>]
          /\ command' = [command EXCEPT ![c] = command'[c]]
      BY <1>4, <2>2 DEF CommandPlace
    <3>2. /\ Weight(command[c]) = 2 /\ Weight(command'[c]) = 0 /\ CommandOK(command'[c])
          /\ "over" \in CommandPlace
      BY <1>1, <1>2, <2>2, <3>1 DEF CommandOK, Weight, Idle, CommandPlace
    <3>3. gate' = Reopen(gate, 2) /\ command[c].at # "off"
      BY <1>1, <2>2
    <3> QED BY <1>2, <3>1, <3>2, <3>3, MovesTo
  <2>3. CASE command' = Over(c) /\ command[c].at = "discard" /\ command[c].what # "cd" /\ gate' = Reopen(gate, 1)
    <3>1. /\ command'[c] = [what |-> command[c].what, at |-> "over", gen |-> <<0, 0>>]
          /\ command' = [command EXCEPT ![c] = command'[c]]
      BY <1>4, <2>3 DEF CommandPlace
    <3>2. /\ Weight(command[c]) = 1 /\ Weight(command'[c]) = 0 /\ CommandOK(command'[c])
          /\ "over" \in CommandPlace
      BY <1>1, <1>2, <2>3, <3>1 DEF CommandOK, Weight, Idle, CommandPlace
    <3>3. gate' = Reopen(gate, 1) /\ command[c].at # "off"
      BY <1>1, <2>3
    <3> QED BY <1>2, <3>1, <3>2, <3>3, MovesTo
  <2> QED BY <1>9, <2>1, <2>2, <2>3 DEF Discarded
<1>10. CASE Fails(c)
  <2>1. /\ command[c].at \in {"reset", "renew", "discard", "discard2", "restore", "bind"} /\ command' = Over(c)
        /\ gate' = Reopen(gate, IF command[c].what = "load" \/ command[c].at \notin {"reset", "discard"}
                                   \/ command[c].what = "cd" THEN 2 ELSE 1)
    BY <1>10 DEF Fails, End
  <2>2. CASE command[c].what = "clear"
    <3>1. command[c].at \in {"reset", "discard"} /\ gate' = Reopen(gate, 1)
      BY <1>1, <2>1, <2>2 DEF CommandOK
    <3>2. /\ command'[c] = [what |-> command[c].what, at |-> "over", gen |-> <<0, 0>>]
          /\ command' = [command EXCEPT ![c] = command'[c]]
      BY <1>4, <2>1
    <3>3. /\ Weight(command[c]) = 1 /\ Weight(command'[c]) = 0 /\ CommandOK(command'[c])
          /\ "over" \in CommandPlace
      BY <2>2, <3>1, <3>2 DEF CommandOK, Weight, Idle, CommandPlace
    <3> QED BY <1>2, <3>1, <3>2, <3>3, MovesTo
  <2>3. CASE command[c].what \in {"load", "cd"}
    <3>1. gate' = Reopen(gate, 2)
      BY <2>1, <2>3
    <3>2. Weight(command[c]) = 2
      BY <2>1, <2>3 DEF Weight, Idle
    <3>3. /\ command'[c] = [what |-> command[c].what, at |-> "over", gen |-> <<0, 0>>]
          /\ command' = [command EXCEPT ![c] = command'[c]]
      BY <1>4, <2>1
    <3>4. CommandOK(command'[c]) /\ Weight(command'[c]) = 0 /\ "over" \in CommandPlace /\ command[c].at # "off"
      BY <2>1, <2>3, <3>3 DEF CommandOK, Weight, Idle, CommandPlace
    <3> QED BY <1>2, <3>1, <3>2, <3>3, <3>4, MovesTo
  <2> QED BY <1>1, <1>2, <2>1, <2>2, <2>3 DEF CommandOK
<1>11. CASE Restore(c)
  <2>1. /\ command[c].at = "restore" /\ command' = [command EXCEPT ![c].at = "bind", ![c].gen = Now]
        /\ gate' = gate
    BY <1>11 DEF Restore
  <2>2. /\ command'[c] = [what |-> command[c].what, at |-> "bind", gen |-> Now]
        /\ command' = [command EXCEPT ![c] = command'[c]]
    BY <1>5, <2>1
  <2>3. /\ Weight(command[c]) = 2 /\ Weight(command'[c]) = 2 /\ CommandOK(command'[c])
        /\ "bind" \in CommandPlace /\ command[c].at # "off" /\ gate' = gate
    BY <1>1, <1>2, <2>1, <2>2 DEF CommandOK, Weight, Idle, CommandPlace
  <2>4. Now \in Nat \X Nat /\ 2 \in 0..2
    BY <1>2
  <2>5. Moves(c) /\ command'[c].what = command[c].what
    BY <2>2, <2>3, <2>4, MovesTo
  <2> QED BY <2>3, <2>5
<1>12. CASE Install(c)
  <2>1. command[c].at = "bind" /\ command' = In(c, "release") /\ gate' = gate
    BY <1>12 DEF Install
  <2>2. /\ command'[c] = [what |-> command[c].what, at |-> "release", gen |-> command[c].gen]
        /\ command' = [command EXCEPT ![c] = command'[c]]
    BY <1>3, <2>1 DEF CommandPlace
  <2>3. /\ Weight(command[c]) = 2 /\ Weight(command'[c]) = 2 /\ CommandOK(command'[c])
        /\ "release" \in CommandPlace /\ command[c].at # "off" /\ gate' = gate
    BY <1>1, <1>2, <2>1, <2>2 DEF CommandOK, Weight, Idle, CommandPlace
  <2> QED BY <1>2, <2>2, <2>3, MovesTo
<1>13. CASE Released(c)
  <2>1. command[c].at = "release" /\ command' = Over(c) /\ gate' = Reopen(gate, 2)
    BY <1>13 DEF Released, End
  <2>2. /\ command'[c] = [what |-> command[c].what, at |-> "over", gen |-> <<0, 0>>]
        /\ command' = [command EXCEPT ![c] = command'[c]]
    BY <1>4, <2>1
  <2>3. /\ Weight(command[c]) = 2 /\ Weight(command'[c]) = 0 /\ CommandOK(command'[c])
        /\ "over" \in CommandPlace /\ command[c].at # "off" /\ gate' = Reopen(gate, 2)
    BY <1>1, <1>2, <2>1, <2>2 DEF CommandOK, Weight, Idle, CommandPlace
  <2> QED BY <1>2, <2>2, <2>3, MovesTo
<1> QED BY <1>6, <1>7, <1>8, <1>9, <1>10, <1>11, <1>12, <1>13 DEF CommandStep

\* A command that is asked for holds nothing.
LEMMA AskMoves ==
  ASSUME GateTypeOK, GateCounts, Ask
  PROVE  \E c \in Command : Moves(c) /\ command[c].at = "off" /\ command'[c].at = "asked"
<1>1. PICK c \in Command :
        /\ \A d \in Command : command[d].at = "off" <=> d >= c
        /\ \E what \in {"clear", "load", "cd"} :
             command' = [command EXCEPT ![c] = [what |-> what, at |-> "asked", gen |-> <<0, 0>>]]
  BY DEF Ask
<1>2. c >= c
  BY InputGateAssumption DEF Command
<1>3. command[c].at = "off" /\ UNCHANGED gate
  BY <1>1, <1>2 DEF Ask
<1>4. PICK what \in {"clear", "load", "cd"} :
        command' = [command EXCEPT ![c] = [what |-> what, at |-> "asked", gen |-> <<0, 0>>]]
  BY <1>1
<1>5. command'[c] = [what |-> what, at |-> "asked", gen |-> <<0, 0>>]
  BY <1>4 DEF GateTypeOK
<1>6. Moves(c)
  <2>1. command'[c] \in CommandRecord /\ CommandOK(command'[c]) /\ Weight(command'[c]) = 0
    BY <1>5 DEF CommandRecord, CommandPlace, CommandOK, Weight, Idle
  <2>2. Weight(command[c]) = 0
    BY <1>3 DEF Weight, Idle
  <2>3. gate \in [open : BOOLEAN, active : Int, count : Nat] /\ (gate.open <=> gate.active = 0)
    BY DEF GateTypeOK, GateCounts
  <2>4. gate.active \in Nat /\ gate.count \in Nat /\ gate' = gate
    BY <1>3, GateMoves
  <2>5. command' = [command EXCEPT ![c] = command'[c]]
    BY <1>4, <1>5
  <2> QED BY <2>1, <2>2, <2>3, <2>4, <2>5 DEF Moves
<1> QED BY <1>3, <1>5, <1>6

\* The gate counts the commands that have shut it.
LEMMA GateCountsMove ==
  ASSUME GateTypeOK, GateCounts, NEW c \in Command, Moves(c)
  PROVE  GateCounts' /\ gate' \in [open : BOOLEAN, active : Nat, count : Nat]
<1>1. /\ Weight(command[c]) \in 0..2 /\ Weight(command'[c]) \in 0..2
      /\ Cardinality(Holds) \in Nat /\ Weight(command[c]) <= Cardinality(Holds)
      /\ Cardinality(Holds') = (Cardinality(Holds) - Weight(command[c])) + Weight(command'[c])
  BY SharesMove DEF Moves
<1>2. gate'.active = Cardinality(Holds') /\ gate'.active \in Nat
  BY <1>1 DEF Moves, GateCounts
<1>3. \A d \in Command : CommandOK(command'[d])
  BY DEF Moves, GateCounts, GateTypeOK
<1>4. GateCounts'
  BY <1>2, <1>3 DEF Moves, GateCounts, CommandOK
<1> QED BY <1>2, <1>4 DEF Moves
\* A line that is typed or gets the lock.
Enters(l) ==
  /\ line' = [line EXCEPT ![l] = line'[l]] /\ line'[l] \in LineRecord
  /\ UNCHANGED <<gate, session, command, ran, upset>>
  /\ \/ /\ l \in Coming /\ \A m \in Coming : l <= m
        /\ line'[l].count = gate.count /\ line'[l].conv = session.conv /\ line'[l].stops = upset.stops
     \/ /\ l \in Locking /\ (\A m \in Locking : l <= m) /\ ~Locked
        /\ line'[l].count = line[l].count /\ line'[l].conv = line[l].conv /\ line'[l].stops = line[l].stops
  /\ \/ line'[l].at = "refused" /\ line'[l].gen \in {0, session.gen} /\ UNCHANGED turnQueue
     \/ line'[l].at = "dropped" /\ l \in Locking /\ ~Unmoved(line[l]) /\ line'[l].gen = line[l].gen /\ UNCHANGED turnQueue
     \/ line'[l].at = "lock" /\ l \in Coming /\ gate.open /\ line'[l].gen = 0 /\ UNCHANGED turnQueue
     \/ /\ line'[l].gen = session.gen /\ gate.open /\ line'[l].count = gate.count /\ ~Locked
        /\ l \in Coming => Locking = {}
        /\ \/ line'[l].at = "resolve" /\ UNCHANGED turnQueue
           \/ line'[l].at = "queued" /\ QueueInput(l)

\* A line is placed elsewhere, and remembers what it saw.
LEMMA PlacedIs ==
  ASSUME GateTypeOK, NEW l \in Line, NEW p \in LinePlace
  PROVE  /\ Placed(l, p) \in [Line -> LineRecord] /\ Placed(l, p) = [line EXCEPT ![l] = Placed(l, p)[l]]
         /\ Placed(l, p)[l].at = p /\ Placed(l, p)[l].count = line[l].count /\ Placed(l, p)[l].gen = line[l].gen
         /\ Placed(l, p)[l].conv = line[l].conv /\ Placed(l, p)[l].stops = line[l].stops
         /\ \A m \in Line \ {l} : Placed(l, p)[m] = line[m]
BY DEF GateTypeOK, Placed, LineRecord

\* Lines are dropped where they are, and remember what they saw.
LEMMA DroppedIs ==
  ASSUME GateTypeOK, NEW D \in SUBSET LinePlace
  PROVE  /\ Dropped(D) \in [Line -> LineRecord]
         /\ \A l \in Line : /\ line[l].at \notin D => Dropped(D)[l] = line[l]
                            /\ line[l].at \in D => Dropped(D)[l].at = "dropped"
                            /\ Dropped(D)[l].count = line[l].count /\ Dropped(D)[l].gen = line[l].gen
                            /\ Dropped(D)[l].conv = line[l].conv /\ Dropped(D)[l].stops = line[l].stops
<1>1. line \in [Line -> LineRecord]
  BY DEF GateTypeOK
<1>2. ASSUME NEW l \in Line
      PROVE  /\ Dropped(D)[l] \in LineRecord
             /\ line[l].at \notin D => Dropped(D)[l] = line[l]
             /\ line[l].at \in D => Dropped(D)[l].at = "dropped"
             /\ Dropped(D)[l].count = line[l].count /\ Dropped(D)[l].gen = line[l].gen
             /\ Dropped(D)[l].conv = line[l].conv /\ Dropped(D)[l].stops = line[l].stops
  <2>1. Dropped(D)[l] = IF line[l].at \in D THEN [line[l] EXCEPT !.at = "dropped"] ELSE line[l]
    BY DEF Dropped
  <2> QED BY <1>1, <2>1 DEF LineRecord, LinePlace
<1>3. Dropped(D) \in [Line -> LineRecord]
  BY <1>2 DEF Dropped
<1> QED BY <1>2, <1>3

\* A record of a line, changed in its place.
LEMMA RecordIs ==
  ASSUME NEW r \in LineRecord, NEW p \in LinePlace, NEW n, n = [r EXCEPT !.at = p]
  PROVE  /\ n \in LineRecord /\ n.at = p /\ n.gen = r.gen
         /\ n.count = r.count /\ n.conv = r.conv /\ n.stops = r.stops
BY DEF LineRecord

\* Under the lock.
AdmittedAs(l, n, r) ==
  \/ n.at = "dropped" /\ ~Unmoved(r) /\ n.gen = r.gen /\ UNCHANGED turnQueue
  \/ n.at = "refused" /\ n.gen = session.gen /\ UNCHANGED turnQueue
  \/ n.at = "resolve" /\ n.gen = session.gen /\ Unmoved(r) /\ UNCHANGED turnQueue
  \/ n.at = "queued" /\ n.gen = session.gen /\ Unmoved(r) /\ QueueInput(l)

\* What becomes of a line under the lock.
LEMMA AdmissionIs ==
  ASSUME GateTypeOK, NEW l \in Line, NEW r \in LineRecord, Admission(l, r)
  PROVE  /\ line' = [line EXCEPT ![l] = line'[l]] /\ line'[l] \in LineRecord
         /\ line'[l].count = r.count /\ line'[l].conv = r.conv /\ line'[l].stops = r.stops
         /\ AdmittedAs(l, line'[l], r)
<1>1. DOMAIN line = Line /\ session.gen \in Nat
  BY DEF GateTypeOK
<1>2. ASSUME NEW n, line' = [line EXCEPT ![l] = n] PROVE line'[l] = n /\ line' = [line EXCEPT ![l] = line'[l]]
  BY <1>1, <1>2
<1>3. /\ "dropped" \in LinePlace /\ "refused" \in LinePlace /\ "resolve" \in LinePlace /\ "queued" \in LinePlace
  BY DEF LinePlace
<1>4. \/ ~Unmoved(r) /\ line' = [line EXCEPT ![l] = [r EXCEPT !.at = "dropped"]] /\ UNCHANGED turnQueue
      \/ line' = [line EXCEPT ![l] = [r EXCEPT !.at = "refused", !.gen = session.gen]] /\ UNCHANGED turnQueue
      \/ Unmoved(r) /\ line' = [line EXCEPT ![l] = [r EXCEPT !.at = "resolve", !.gen = session.gen]] /\ UNCHANGED turnQueue
      \/ Unmoved(r) /\ line' = [line EXCEPT ![l] = [r EXCEPT !.at = "queued", !.gen = session.gen]] /\ QueueInput(l)
  BY DEF Admission
<1>5. CASE ~Unmoved(r) /\ line' = [line EXCEPT ![l] = [r EXCEPT !.at = "dropped"]] /\ UNCHANGED turnQueue
  <2>1. line'[l] = [r EXCEPT !.at = "dropped"] /\ line' = [line EXCEPT ![l] = line'[l]]
    BY <1>2, <1>5
  <2>2. /\ line'[l] \in LineRecord /\ line'[l].at = "dropped" /\ line'[l].gen = r.gen
        /\ line'[l].count = r.count /\ line'[l].conv = r.conv /\ line'[l].stops = r.stops
    BY <1>1, <1>3, <2>1, RecordIs
  <2> QED BY <1>5, <2>1, <2>2 DEF AdmittedAs
<1>6. CASE line' = [line EXCEPT ![l] = [r EXCEPT !.at = "refused", !.gen = session.gen]] /\ UNCHANGED turnQueue
  <2>1. line'[l] = [r EXCEPT !.at = "refused", !.gen = session.gen] /\ line' = [line EXCEPT ![l] = line'[l]]
    BY <1>2, <1>6
  <2>2. /\ line'[l] \in LineRecord /\ line'[l].at = "refused" /\ line'[l].gen = session.gen
        /\ line'[l].count = r.count /\ line'[l].conv = r.conv /\ line'[l].stops = r.stops
    <3> DEFINE j == [r EXCEPT !.at = "refused"]
    <3>1. line'[l] = [j EXCEPT !.gen = session.gen]
      BY <2>1
    <3>2. j \in LineRecord /\ j.at = "refused" /\ j.count = r.count /\ j.conv = r.conv /\ j.stops = r.stops
      BY <1>3, RecordIs
    <3> HIDE DEF j
    <3> QED BY <1>1, <3>1, <3>2 DEF LineRecord
  <2> QED BY <1>6, <2>1, <2>2 DEF AdmittedAs
<1>7. CASE Unmoved(r) /\ line' = [line EXCEPT ![l] = [r EXCEPT !.at = "resolve", !.gen = session.gen]] /\ UNCHANGED turnQueue
  <2>1. line'[l] = [r EXCEPT !.at = "resolve", !.gen = session.gen] /\ line' = [line EXCEPT ![l] = line'[l]]
    BY <1>2, <1>7
  <2>2. /\ line'[l] \in LineRecord /\ line'[l].at = "resolve" /\ line'[l].gen = session.gen
        /\ line'[l].count = r.count /\ line'[l].conv = r.conv /\ line'[l].stops = r.stops
    <3> DEFINE j == [r EXCEPT !.at = "resolve"]
    <3>1. line'[l] = [j EXCEPT !.gen = session.gen]
      BY <2>1
    <3>2. j \in LineRecord /\ j.at = "resolve" /\ j.count = r.count /\ j.conv = r.conv /\ j.stops = r.stops
      BY <1>3, RecordIs
    <3> HIDE DEF j
    <3> QED BY <1>1, <3>1, <3>2 DEF LineRecord
  <2> QED BY <1>7, <2>1, <2>2 DEF AdmittedAs
<1>8. CASE Unmoved(r) /\ line' = [line EXCEPT ![l] = [r EXCEPT !.at = "queued", !.gen = session.gen]] /\ QueueInput(l)
  <2>1. line'[l] = [r EXCEPT !.at = "queued", !.gen = session.gen] /\ line' = [line EXCEPT ![l] = line'[l]]
    BY <1>2, <1>8
  <2>2. /\ line'[l] \in LineRecord /\ line'[l].at = "queued" /\ line'[l].gen = session.gen
        /\ line'[l].count = r.count /\ line'[l].conv = r.conv /\ line'[l].stops = r.stops
    <3> DEFINE j == [r EXCEPT !.at = "queued"]
    <3>1. line'[l] = [j EXCEPT !.gen = session.gen]
      BY <2>1
    <3>2. j \in LineRecord /\ j.at = "queued" /\ j.count = r.count /\ j.conv = r.conv /\ j.stops = r.stops
      BY <1>3, RecordIs
    <3> HIDE DEF j
    <3> QED BY <1>1, <3>1, <3>2 DEF LineRecord
  <2> QED BY <1>8, <2>1, <2>2 DEF AdmittedAs
<1> QED BY <1>4, <1>5, <1>6, <1>7, <1>8

\* A line that is typed is the next one.
LEMMA TypeLineEnters ==
  ASSUME GateTypeOK, TypeLine
  PROVE  \E l \in Line : Enters(l)
<1> DEFINE r == [at |-> "lock", count |-> gate.count, gen |-> 0, conv |-> session.conv, stops |-> upset.stops]
           stays(l, p) == line' = [line EXCEPT ![l] = [r EXCEPT !.at = p]] /\ UNCHANGED turnQueue
<1>1. PICK l \in Line :
        /\ Typed = 1..l - 1
        /\ IF ~gate.open THEN stays(l, "refused")
           ELSE IF Locked \/ Locking # {} THEN stays(l, "lock")
           ELSE Admission(l, r)
        /\ UNCHANGED <<gate, session, command, ran, upset>>
  BY DEF TypeLine
<1>2. r \in LineRecord /\ "refused" \in LinePlace /\ "lock" \in LinePlace /\ "dropped" \in LinePlace
  BY DEF GateTypeOK, LineRecord, LinePlace
<1>3. l \in Coming /\ \A m \in Coming : l <= m
  <2>1. \A m \in Line : m \in Nat /\ (line[m].at = "off" <=> m \notin 1..l - 1)
    BY <1>1 DEF Typed, Line
  <2>2. l \in Nat /\ l >= 1 /\ l \notin 1..l - 1
    BY DEF Line
  <2>3. \A m \in Line : m >= 1
    BY DEF Line
  <2> QED BY <2>1, <2>2, <2>3 DEF Coming
<1>4. r.count = gate.count /\ r.gen = 0 /\ r.conv = session.conv /\ r.stops = upset.stops
  OBVIOUS
<1> HIDE DEF r
<1>5. ASSUME NEW p \in {"refused", "lock"}, stays(l, p)
      PROVE  /\ line' = [line EXCEPT ![l] = line'[l]] /\ line'[l] \in LineRecord /\ line'[l].at = p /\ line'[l].gen = 0
             /\ line'[l].count = gate.count /\ line'[l].conv = session.conv /\ line'[l].stops = upset.stops
             /\ UNCHANGED turnQueue
  <2>1. line'[l] = [r EXCEPT !.at = p] /\ line' = [line EXCEPT ![l] = line'[l]] /\ UNCHANGED turnQueue
    BY <1>5 DEF GateTypeOK
  <2> QED BY <1>2, <1>4, <2>1, RecordIs
<1>6. CASE ~gate.open /\ stays(l, "refused")
  BY <1>1, <1>3, <1>5, <1>6 DEF Enters
<1>7. CASE gate.open /\ stays(l, "lock")
  BY <1>1, <1>3, <1>5, <1>7 DEF Enters
<1>8. CASE gate.open /\ ~Locked /\ Locking = {} /\ Admission(l, r)
  <2>1. /\ line' = [line EXCEPT ![l] = line'[l]] /\ line'[l] \in LineRecord
        /\ line'[l].count = r.count /\ line'[l].conv = r.conv /\ line'[l].stops = r.stops
        /\ AdmittedAs(l, line'[l], r)
    BY <1>2, <1>8, AdmissionIs
  <2>2. Unmoved(r)
    BY <1>4, <1>8 DEF Unmoved
  <2> QED BY <1>1, <1>3, <1>4, <1>8, <2>1, <2>2 DEF Enters, AdmittedAs
<1> QED BY <1>1, <1>6, <1>7, <1>8

\* A line that gets the lock is the first of those that wait for it.
LEMMA AdmitEnters ==
  ASSUME GateTypeOK, NEW l \in Line, Admit(l)
  PROVE  Enters(l)
<1>1. line[l] \in LineRecord /\ session.gen \in Nat
  BY DEF GateTypeOK
<1>2. /\ line' = [line EXCEPT ![l] = line'[l]] /\ line'[l] \in LineRecord
      /\ line'[l].count = line[l].count /\ line'[l].conv = line[l].conv /\ line'[l].stops = line[l].stops
      /\ AdmittedAs(l, line'[l], line[l])
  BY <1>1, AdmissionIs DEF Admit
<1>3. l \notin Coming /\ l \in Locking /\ ~Locked /\ (\A m \in Locking : l <= m)
  BY DEF Admit, Coming, Locking
<1>4. Unmoved(line[l]) => gate.open /\ line[l].count = gate.count
  BY DEF Unmoved
<1> QED BY <1>2, <1>3, <1>4 DEF Admit, Enters, AdmittedAs
\* The steps of a line that has entered.
GoesOn(l) == Resolved(l) \/ Kept(l) \/ PrepareTurn(l) \/ Named(l) \/ StartLine(l)

\* From where line l goes to place p, and what becomes of the queue.
Goes(l, p) ==
  /\ line' = Placed(l, p) /\ UNCHANGED <<gate, command>>
  /\ session'.gen = session.gen /\ session'.conv = session.conv
  /\ upset'.stops = upset.stops /\ upset'.overlap = upset.overlap /\ upset'.failed = upset.failed
  /\ \/ line[l].at = "resolve" /\ p \in {"queued", "keep"} /\ Unmoved(line[l]) /\ Accepts(line[l]) /\ QueueInput(l)
     \/ line[l].at = "resolve" /\ p = "dropped" /\ ~(Unmoved(line[l]) /\ Accepts(line[l])) /\ UNCHANGED turnQueue
     \/ line[l].at = "resolve" /\ p = "refused" /\ UNCHANGED turnQueue
     \/ line[l].at = "keep" /\ p = "queued" /\ InWaiting(l) /\ UNCHANGED turnQueue
     \/ line[l].at = "keep" /\ p = "dropped" /\ ~InWaiting(l) /\ UNCHANGED turnQueue
     \/ /\ line[l].at = "queued" /\ p = "gate" /\ turnQueue.waiting # <<>> /\ turnQueue.current = 0
        /\ l = Head(turnQueue.waiting) /\ turnQueue' = [waiting |-> Tail(turnQueue.waiting), current |-> l]
     \/ line[l].at \in Working /\ p \in PastGate /\ (line[l].at = "gate" => gate.open) /\ UNCHANGED turnQueue
     \/ /\ line[l].at \in Working /\ p \in {"dropped", "refused", "ran"} /\ (p = "dropped" => ~Accepts(line[l]))
        /\ p = "ran" => Accepts(line[l])
        /\ turnQueue' = [turnQueue EXCEPT !.current = 0]
  /\ \/ p = "ran" /\ line[l].at = "prepare" /\ ran' = Append(ran, [line |-> l, conv |-> session.conv, untitled |-> session.fresh])
     \/ p # "ran" /\ ran' = ran

\* Each check and each wait of a line takes it to a next place.
LEMMA GoesOnGoes ==
  ASSUME GateTypeOK, NEW l \in Line, GoesOn(l)
  PROVE  /\ \E p \in LinePlace : Goes(l, p)
         /\ line[l].at \in {"resolve", "keep"} \cup Working
         /\ session' \in [gen : Nat, conv : Nat, paused : BOOLEAN, resuming : Nat, first : BOOLEAN, fresh : BOOLEAN]
         /\ upset' \in [stops : Nat, overlap : BOOLEAN, failed : BOOLEAN, renamed : BOOLEAN]
<1> USE DEF Working, PastGate, LinePlace
<1>1. /\ session \in [gen : Nat, conv : Nat, paused : BOOLEAN, resuming : Nat, first : BOOLEAN, fresh : BOOLEAN]
      /\ upset \in [stops : Nat, overlap : BOOLEAN, failed : BOOLEAN, renamed : BOOLEAN]
  BY DEF GateTypeOK
<1>2. CASE Resolved(l)
  BY <1>1, <1>2 DEF Resolved, Goes
<1>3. CASE Kept(l)
  BY <1>1, <1>3 DEF Kept, Goes, InWaiting
<1>4. CASE PrepareTurn(l)
  <2>1. UNCHANGED <<gate, session, command, ran, upset>>
    BY <1>4 DEF PrepareTurn
  <2>2. ASSUME NEW from \in Working, NEW to \in PastGate, Go(l, from, to), from = "gate" => gate.open
        PROVE  Goes(l, to) /\ line[l].at \in Working
    BY <2>1, <2>2 DEF Go, Goes
  <2>3. ASSUME NEW to \in {"dropped", "refused"}, line[l].at \in Working, Leaves(l, to), to = "dropped" => ~Accepts(line[l])
        PROVE  Goes(l, to)
    BY <2>1, <2>3 DEF Leaves, Goes
  <2>4. ASSUME NEW from \in Working, NEW to \in PastGate, Checked(l, from, to), from = "gate" => gate.open
        PROVE  \E p \in LinePlace : Goes(l, p) /\ line[l].at \in Working
    BY <2>2, <2>3, <2>4 DEF Checked
  <2>5. \/ gate.open /\ Checked(l, "gate", "usage")
        \/ Go(l, "usage", "refs")
        \/ Checked(l, "refs", "bind") \/ Checked(l, "refs", "prepare")
        \/ line[l].at = "refs" /\ Leaves(l, "refused")
        \/ Go(l, "bind", "title")
        \/ Checked(l, "title", "save")
    BY <1>4 DEF PrepareTurn, BindSession
  <2> QED BY <1>1, <2>1, <2>2, <2>3, <2>4, <2>5
<1>5. CASE Named(l)
  <2>1. /\ line[l].at = "save" /\ line' = Placed(l, "prepare") /\ UNCHANGED <<turnQueue, gate, command, ran>>
        /\ session' = [session EXCEPT !.first = FALSE, !.fresh = FALSE]
        /\ upset' = [upset EXCEPT !.renamed = @ \/ ~session.fresh]
    BY <1>5 DEF Named, Go
  <2>2. /\ session'.gen = session.gen /\ session'.conv = session.conv
        /\ session' \in [gen : Nat, conv : Nat, paused : BOOLEAN, resuming : Nat, first : BOOLEAN, fresh : BOOLEAN]
    BY <1>1, <2>1
  <2>3. /\ upset'.stops = upset.stops /\ upset'.overlap = upset.overlap /\ upset'.failed = upset.failed
        /\ upset' \in [stops : Nat, overlap : BOOLEAN, failed : BOOLEAN, renamed : BOOLEAN]
    BY <1>1, <2>1
  <2> QED BY <2>1, <2>2, <2>3 DEF Goes
<1>6. CASE StartLine(l)
  <2>1. CASE Accepts(line[l])
    <3>1. /\ session'.gen = session.gen /\ session'.conv = session.conv
          /\ session' \in [gen : Nat, conv : Nat, paused : BOOLEAN, resuming : Nat, first : BOOLEAN, fresh : BOOLEAN]
      BY <1>1, <1>6, <2>1 DEF StartLine
    <3>2. /\ line[l].at = "prepare" /\ line' = Placed(l, "ran") /\ turnQueue' = [turnQueue EXCEPT !.current = 0]
          /\ ran' = Append(ran, [line |-> l, conv |-> session.conv, untitled |-> session.fresh])
          /\ UNCHANGED <<gate, command, upset>>
      BY <1>6, <2>1 DEF StartLine, Leaves
    <3> QED BY <1>1, <2>1, <3>1, <3>2 DEF Goes
  <2>2. CASE ~Accepts(line[l])
    BY <1>1, <1>6, <2>2 DEF StartLine, Leaves, Goes
  <2> QED BY <2>1, <2>2
<1> QED BY <1>2, <1>3, <1>4, <1>5, <1>6 DEF GoesOn

\* So does its turn in the queue.
LEMMA TakeLineGoes ==
  ASSUME GateTypeOK, TakeLine
  PROVE  \E l \in Line : /\ Goes(l, "gate") /\ l = Head(turnQueue.waiting) /\ line[l].at = "queued"
                         /\ UNCHANGED <<session, ran, upset>>
<1>1. turnQueue.waiting \in Seq(Line) /\ turnQueue.waiting # <<>>
  BY DEF GateTypeOK, TakeLine
<1>2. Head(turnQueue.waiting) \in Line
  BY <1>1
<1> QED BY <1>1, <1>2 DEF TakeLine, Goes

\* Every step of a line, of the pause, of a stop or of a command.
LEMMA StepsOfGate ==
  ASSUME GateTypeOK, GateCounts, [GateNext]_gateVars
  PROVE  \/ \E l \in Line : Enters(l)
         \/ TakeLine
         \/ \E l \in Line : GoesOn(l)
         \/ Resume \/ Resumed \/ StopLines \/ UNCHANGED gateVars
         \/ Ask
         \/ \E c \in Command : CommandStep(c)
<1>1. CASE UNCHANGED gateVars
  BY <1>1
<1>2. CASE GateNext
  BY <1>2, TypeLineEnters, AdmitEnters DEF GateNext, CommandStep, GoesOn
<1> QED BY <1>1, <1>2

\* Where each step of a command begins.
LEMMA CommandExclusive ==
  ASSUME NEW c \in Command
  PROVE  /\ Begin(c) => command[c].at = "asked"
         /\ Pick(c) => command[c].at = "list"
         /\ Discard(c) => command[c].at \in {"reset", "renew"}
         /\ Discarded(c) => command[c].at \in {"discard", "discard2"}
         /\ Restore(c) => command[c].at = "restore"
         /\ Install(c) => command[c].at = "bind"
         /\ Released(c) => command[c].at = "release"
         /\ Fails(c) => /\ command[c].at \in {"reset", "renew", "discard", "discard2", "restore", "bind"}
                        /\ command' = Over(c)
         /\ Discard(c) => command' = In(c, IF command[c].at = "reset" THEN "discard" ELSE "discard2")
         /\ Install(c) => command' = In(c, "release")
         /\ Discarded(c) => \/ command' = Over(c)
                            \/ command' = [command EXCEPT ![c].at = "list", ![c].gen = Now]
BY DEF Begin, Pick, Discard, Discarded, Restore, Install, Released, Fails, End

\* What a command does to the conversation.
LEMMA SessionMoves ==
  ASSUME GateTypeOK, NEW c \in Command, CommandStep(c)
  PROVE  /\ session' \in [gen : Nat, conv : Nat, paused : BOOLEAN, resuming : Nat, first : BOOLEAN, fresh : BOOLEAN]
         /\ Discard(c) => /\ session'.gen = session.gen + 1 /\ session'.conv = session.conv
                          /\ session'.first = session.first /\ session'.fresh = session.fresh
         /\ Discarded(c) => /\ session'.gen = session.gen /\ session'.fresh
                            /\ IF command[c].what = "cd" /\ command[c].at = "discard"
                               THEN session'.first = session.first ELSE session'.first
         /\ Install(c) => session'.gen = session.gen + 1 /\ ~session'.first /\ ~session'.fresh
         /\ ~(Discard(c) \/ Discarded(c) \/ Install(c)) =>
              session'.gen = session.gen /\ session'.conv = session.conv /\ session'.fresh = session.fresh
<1> DEFINE SessionRecord == [gen : Nat, conv : Nat, paused : BOOLEAN, resuming : Nat, first : BOOLEAN, fresh : BOOLEAN]
<1>1. session \in SessionRecord
  BY DEF GateTypeOK
<1>2. ASSUME NEW first, End(c, first)
      PROVE  /\ session' \in SessionRecord /\ session'.gen = session.gen /\ session'.conv = session.conv
             /\ session'.fresh = session.fresh
  BY <1>1, <1>2 DEF End
<1>3. CASE Begin(c) \/ Restore(c)
  BY <1>1, <1>3 DEF Begin, Restore, Discard, Discarded, Install
<1>4. CASE Pick(c) \/ Fails(c) \/ Released(c)
  <2>1. UNCHANGED session \/ \E first \in {"same", "first", "later"} : End(c, first)
    BY <1>4 DEF Pick, Fails, Released
  <2>2. /\ session' \in SessionRecord /\ session'.gen = session.gen /\ session'.conv = session.conv
        /\ session'.fresh = session.fresh
    BY <1>1, <1>2, <2>1
  <2>3. ~Discard(c) /\ ~Install(c)
    <3>1. /\ Discard(c) => session' = [session EXCEPT !.gen = @ + 1, !.paused = FALSE]
          /\ Install(c) => \E paused \in BOOLEAN :
               session' = [session EXCEPT !.gen = @ + 1, !.conv = @ + 1, !.paused = paused,
                                          !.first = FALSE, !.fresh = FALSE]
      BY DEF Discard, Install
    <3>2. /\ Discard(c) => session'.gen = session.gen + 1
          /\ Install(c) => session'.gen = session.gen + 1
      BY <1>1, <3>1
    <3> QED BY <1>1, <2>2, <3>2
  <2>4. ~Discarded(c)
    <3> DEFINE new == [session EXCEPT !.conv = @ + 1, !.fresh = TRUE]
    <3>1. Discarded(c) => session' \in {new, [new EXCEPT !.first = TRUE]}
      BY DEF Discarded
    <3>2. new.conv = session.conv + 1 /\ new \in SessionRecord
      <4>1. [session EXCEPT !.conv = @ + 1].conv = session.conv + 1 /\ [session EXCEPT !.conv = @ + 1] \in SessionRecord
        BY <1>1
      <4> QED BY <4>1
    <3> HIDE DEF new
    <3>3. Discarded(c) => session'.conv = session.conv + 1
      BY <3>1, <3>2
    <3> QED BY <1>1, <2>2, <3>3
  <2> QED BY <2>2, <2>3, <2>4
<1>5. CASE Discard(c)
  <2>1. session' = [session EXCEPT !.gen = @ + 1, !.paused = FALSE] /\ command[c].at \in {"reset", "renew"}
    BY <1>5 DEF Discard
  <2> DEFINE next == [session EXCEPT !.gen = @ + 1]
  <2>2. ~Discarded(c) /\ ~Install(c)
    BY <2>1 DEF Discarded, Install
  <2>3. /\ session' \in SessionRecord /\ session'.gen = session.gen + 1 /\ session'.conv = session.conv
        /\ session'.first = session.first /\ session'.fresh = session.fresh
    <3>1. /\ next \in SessionRecord /\ next.gen = session.gen + 1 /\ next.conv = session.conv
          /\ next.first = session.first /\ next.fresh = session.fresh
      BY <1>1
    <3>2. session' = [next EXCEPT !.paused = FALSE]
      BY <2>1
    <3> HIDE DEF next
    <3> QED BY <3>1, <3>2
  <2> QED BY <1>5, <2>2, <2>3
<1>6. CASE Discarded(c)
  <2> DEFINE new == [session EXCEPT !.conv = @ + 1, !.fresh = TRUE]
  <2>1. /\ command[c].at \in {"discard", "discard2"}
        /\ IF command[c].what = "cd" /\ ~(command[c].at = "discard2")
           THEN session' = new ELSE session' = [new EXCEPT !.first = TRUE]
    BY <1>6 DEF Discarded
  <2>2. ~Discard(c) /\ ~Install(c)
    BY <2>1 DEF Discard, Install
  <2>3. new \in SessionRecord /\ new.gen = session.gen /\ new.fresh /\ new.first = session.first
    <3> DEFINE next == [session EXCEPT !.conv = @ + 1]
    <3>1. next \in SessionRecord /\ next.gen = session.gen /\ next.first = session.first
      BY <1>1
    <3>2. new = [next EXCEPT !.fresh = TRUE]
      OBVIOUS
    <3> HIDE DEF next, new
    <3> QED BY <3>1, <3>2
  <2> HIDE DEF new
  <2>4. /\ session' \in SessionRecord /\ session'.gen = session.gen /\ session'.fresh
        /\ IF command[c].what = "cd" /\ command[c].at = "discard"
           THEN session'.first = session.first ELSE session'.first
    BY <2>1, <2>3
  <2> QED BY <1>6, <2>2, <2>4
<1>7. CASE Install(c)
  <2>1. /\ command[c].at = "bind"
        /\ \E paused \in BOOLEAN :
             session' = [session EXCEPT !.gen = @ + 1, !.conv = @ + 1, !.paused = paused,
                                        !.first = FALSE, !.fresh = FALSE]
    BY <1>7 DEF Install
  <2>2. ~Discard(c) /\ ~Discarded(c)
    BY <2>1 DEF Discard, Discarded
  <2>3. session' \in SessionRecord /\ session'.gen = session.gen + 1 /\ ~session'.first /\ ~session'.fresh
    <3>1. PICK paused \in BOOLEAN :
            session' = [session EXCEPT !.gen = @ + 1, !.conv = @ + 1, !.paused = paused,
                                       !.first = FALSE, !.fresh = FALSE]
      BY <2>1
    <3>2. session' = [gen |-> session.gen + 1, conv |-> session.conv + 1, paused |-> paused,
                      resuming |-> session.resuming, first |-> FALSE, fresh |-> FALSE]
      BY <1>1, <3>1
    <3> QED BY <1>1, <3>2
  <2> QED BY <1>7, <2>2, <2>3
<1> QED BY <1>3, <1>4, <1>5, <1>6, <1>7 DEF CommandStep

\* What a command does to the lines and to the queue.
LEMMA QueueMoves ==
  ASSUME GateTypeOK, NEW c \in Command, CommandStep(c)
  PROVE  /\ line' \in [Line -> LineRecord] /\ turnQueue' \in [waiting : Seq(Line), current : Line \cup {0}]
         /\ Discard(c) => line' = Dropped({"queued", "resolve"} \cup Working) /\ turnQueue' = [waiting |-> <<>>, current |-> 0]
         /\ Install(c) => line' = Dropped({"queued", "resolve"}) /\ turnQueue' = [turnQueue EXCEPT !.waiting = <<>>]
         /\ Discarded(c) => line' = line /\ turnQueue' = [turnQueue EXCEPT !.waiting = <<>>]
         /\ ~(Discard(c) \/ Discarded(c) \/ Install(c)) => line' = line /\ turnQueue' = turnQueue
<1>1. line \in [Line -> LineRecord] /\ turnQueue \in [waiting : Seq(Line), current : Line \cup {0}]
  BY DEF GateTypeOK
<1>2. /\ [turnQueue EXCEPT !.waiting = <<>>] \in [waiting : Seq(Line), current : Line \cup {0}]
      /\ [waiting |-> <<>>, current |-> 0] \in [waiting : Seq(Line), current : Line \cup {0}]
  <2>1. <<>> \in Seq(Line)
    BY EmptySeq
  <2> QED BY <1>1, <2>1
<1>3. {"queued", "resolve"} \in SUBSET LinePlace /\ ({"queued", "resolve"} \cup Working) \in SUBSET LinePlace
  BY DEF LinePlace
<1>4. Dropped({"queued", "resolve"}) \in [Line -> LineRecord] /\ Dropped({"queued", "resolve"} \cup Working) \in [Line -> LineRecord]
  BY <1>3, DroppedIs
<1>5. Discard(c) => line' = Dropped({"queued", "resolve"} \cup Working) /\ turnQueue' = [waiting |-> <<>>, current |-> 0]
  BY DEF Discard
<1>6. Install(c) => line' = Dropped({"queued", "resolve"}) /\ turnQueue' = [turnQueue EXCEPT !.waiting = <<>>]
  BY DEF Install
<1>7. Discarded(c) => line' = line /\ turnQueue' = [turnQueue EXCEPT !.waiting = <<>>]
  BY DEF Discarded
<1>8. ~(Discard(c) \/ Discarded(c) \/ Install(c)) => line' = line /\ turnQueue' = turnQueue
  BY DEF CommandStep, Begin, Pick, Fails, Restore, Released
<1> QED BY <1>1, <1>2, <1>4, <1>5, <1>6, <1>7, <1>8

\* What a command leaves of the user's reasons.
LEMMA UpsetMoves ==
  ASSUME GateTypeOK, NEW c \in Command, CommandStep(c)
  PROVE  /\ ran' = ran /\ upset' \in [stops : Nat, overlap : BOOLEAN, failed : BOOLEAN, renamed : BOOLEAN]
         /\ upset'.stops = upset.stops /\ upset'.renamed = upset.renamed
         /\ (upset.overlap => upset'.overlap) /\ (upset.failed => upset'.failed)
         /\ Begin(c) => (upset'.overlap <=> upset.overlap \/ Overlapping(c))
<1>1. upset \in [stops : Nat, overlap : BOOLEAN, failed : BOOLEAN, renamed : BOOLEAN]
  BY DEF GateTypeOK
<1>2. CASE Begin(c)
  <2>1. upset' = [upset EXCEPT !.overlap = @ \/ Overlapping(c)] /\ ran' = ran
    BY <1>2 DEF Begin
  <2>2. Overlapping(c) \in BOOLEAN
    BY DEF Overlapping
  <2> QED BY <1>1, <2>1, <2>2
<1>3. CASE ~Begin(c)
  <2>1. ran' = ran /\ (upset' = upset \/ \E b \in BOOLEAN : upset' = [upset EXCEPT !.failed = @ \/ b])
    BY <1>3 DEF CommandStep, Pick, Discard, Discarded, Fails, Restore, Install, Released
  <2> QED BY <1>1, <1>3, <2>1
<1> QED BY <1>2, <1>3

\* The queue after each of its changes.
LEMMA QueueIs ==
  ASSUME GateTypeOK, NEW l \in Line
  PROVE  /\ QueueInput(l) => /\ turnQueue' \in [waiting : Seq(Line), current : Line \cup {0}]
                             /\ turnQueue'.waiting \in Seq(Line) /\ turnQueue'.current = turnQueue.current
                             /\ Len(turnQueue'.waiting) = Len(turnQueue.waiting) + 1
                             /\ turnQueue'.waiting[Len(turnQueue.waiting) + 1] = l
                             /\ \A n \in 1..Len(turnQueue.waiting) : turnQueue'.waiting[n] = turnQueue.waiting[n]
         /\ turnQueue.waiting # <<>> => /\ Tail(turnQueue.waiting) \in Seq(Line)
                                        /\ Len(turnQueue.waiting) \in Nat \ {0}
                                        /\ Len(Tail(turnQueue.waiting)) = Len(turnQueue.waiting) - 1
                                        /\ Head(turnQueue.waiting) = turnQueue.waiting[1]
                                        /\ \A n \in 1..Len(turnQueue.waiting) - 1 :
                                             Tail(turnQueue.waiting)[n] = turnQueue.waiting[n + 1]
         /\ Len(turnQueue.waiting) \in Nat /\ DOMAIN turnQueue.waiting = 1..Len(turnQueue.waiting)
         /\ \A n \in DOMAIN turnQueue.waiting : turnQueue.waiting[n] \in Line
<1> DEFINE q == turnQueue.waiting
<1>1. q \in Seq(Line) /\ DOMAIN turnQueue = {"waiting", "current"}
  BY DEF GateTypeOK
<1>2. QueueInput(l) => turnQueue'.waiting = Append(q, l) /\ turnQueue'.current = turnQueue.current
  BY <1>1 DEF QueueInput, GateTypeOK
<1>6. QueueInput(l) => turnQueue' \in [waiting : Seq(Line), current : Line \cup {0}]
  <2>1. Append(q, l) \in Seq(Line)
    BY <1>1, AppendProperties
  <2>2. QueueInput(l) => turnQueue' = [turnQueue EXCEPT !.waiting = Append(q, l)]
    BY DEF QueueInput
  <2>3. turnQueue \in [waiting : Seq(Line), current : Line \cup {0}]
    BY DEF GateTypeOK
  <2> HIDE DEF q
  <2> QED BY <2>1, <2>2, <2>3
<1> HIDE DEF q
<1>3. /\ Append(q, l) \in Seq(Line) /\ Len(Append(q, l)) = Len(q) + 1
      /\ Append(q, l)[Len(q) + 1] = l /\ \A n \in 1..Len(q) : Append(q, l)[n] = q[n]
  BY <1>1, AppendProperties
<1>4. q # <<>> => /\ Tail(q) \in Seq(Line) /\ Len(q) \in Nat \ {0} /\ Len(Tail(q)) = Len(q) - 1 /\ Head(q) = q[1]
                  /\ \A n \in 1..Len(q) - 1 : Tail(q)[n] = q[n + 1]
  BY <1>1, HeadTailProperties
<1>5. Len(q) \in Nat /\ DOMAIN q = 1..Len(q) /\ \A n \in DOMAIN q : q[n] \in Line
  BY <1>1, LenProperties, ElementOfSeq
<1> QED BY <1>2, <1>3, <1>4, <1>5, <1>6 DEF q

\* TypeOK of the gate: every handler keeps lines lines and commands commands.
LEMMA GateTypeStep ==
  ASSUME GateTypeOK, GateCounts, [GateNext]_gateVars
  PROVE  GateTypeOK' /\ GateCounts'
<1>1. /\ gate \in [open : BOOLEAN, active : Nat, count : Nat]
      /\ session \in [gen : Nat, conv : Nat, paused : BOOLEAN, resuming : Nat, first : BOOLEAN, fresh : BOOLEAN]
      /\ line \in [Line -> LineRecord] /\ turnQueue \in [waiting : Seq(Line), current : Line \cup {0}]
      /\ command \in [Command -> CommandRecord] /\ ran \in Seq([line : Line, conv : Nat, untitled : BOOLEAN])
      /\ upset \in [stops : Nat, overlap : BOOLEAN, failed : BOOLEAN, renamed : BOOLEAN]
  BY DEF GateTypeOK
<1>2. UNCHANGED <<gate, command>> => GateCounts'
  BY DEF GateCounts, Holds, CommandOK, Weight
<1>3. ASSUME NEW l \in Line, QueueInput(l) PROVE turnQueue' \in [waiting : Seq(Line), current : Line \cup {0}]
  BY <1>3, QueueIs
<1>4. [turnQueue EXCEPT !.current = 0] \in [waiting : Seq(Line), current : Line \cup {0}]
  BY <1>1
<1>5. [turnQueue EXCEPT !.waiting = <<>>] \in [waiting : Seq(Line), current : Line \cup {0}]
  <2>1. <<>> \in Seq(Line)
    BY EmptySeq
  <2> QED BY <1>1, <2>1
<1>6. ASSUME NEW l \in Line, Enters(l) PROVE GateTypeOK' /\ GateCounts'
  <2>1. line' \in [Line -> LineRecord]
    BY <1>1, <1>6 DEF Enters
  <2>2. turnQueue' \in [waiting : Seq(Line), current : Line \cup {0}]
    BY <1>1, <1>3, <1>6 DEF Enters
  <2> QED BY <1>1, <1>2, <1>6, <2>1, <2>2 DEF Enters, GateTypeOK
<1>7. ASSUME NEW l \in Line, NEW p \in LinePlace, Goes(l, p)
      PROVE  /\ line' \in [Line -> LineRecord] /\ turnQueue' \in [waiting : Seq(Line), current : Line \cup {0}]
             /\ ran' \in Seq([line : Line, conv : Nat, untitled : BOOLEAN]) /\ GateCounts' /\ UNCHANGED <<gate, command>>
  <2>1. line' \in [Line -> LineRecord]
    BY <1>7, PlacedIs DEF Goes
  <2>2. turnQueue' \in [waiting : Seq(Line), current : Line \cup {0}]
    <3>1. ASSUME turnQueue.waiting # <<>>
          PROVE  [waiting |-> Tail(turnQueue.waiting), current |-> l] \in [waiting : Seq(Line), current : Line \cup {0}]
      BY <3>1, QueueIs
    <3>2. \/ UNCHANGED turnQueue \/ QueueInput(l) \/ turnQueue' = [turnQueue EXCEPT !.current = 0]
          \/ turnQueue.waiting # <<>> /\ turnQueue' = [waiting |-> Tail(turnQueue.waiting), current |-> l]
      BY <1>7 DEF Goes
    <3> QED BY <1>1, <1>3, <1>4, <3>1, <3>2
  <2>3. ran' \in Seq([line : Line, conv : Nat, untitled : BOOLEAN])
    <3>1. [line |-> l, conv |-> session.conv, untitled |-> session.fresh] \in [line : Line, conv : Nat, untitled : BOOLEAN]
      BY <1>1
    <3>2. Append(ran, [line |-> l, conv |-> session.conv, untitled |-> session.fresh])
            \in Seq([line : Line, conv : Nat, untitled : BOOLEAN])
      BY <1>1, <3>1, AppendProperties
    <3>3. ran' = ran \/ ran' = Append(ran, [line |-> l, conv |-> session.conv, untitled |-> session.fresh])
      BY <1>7 DEF Goes
    <3> QED BY <1>1, <3>2, <3>3
  <2> QED BY <1>2, <1>7, <2>1, <2>2, <2>3 DEF Goes
<1>8. CASE TakeLine
  BY <1>1, <1>7, <1>8, TakeLineGoes DEF GateTypeOK, LinePlace, Working
<1>9. ASSUME NEW l \in Line, GoesOn(l) PROVE GateTypeOK' /\ GateCounts'
  BY <1>1, <1>7, <1>9, GoesOnGoes DEF GateTypeOK
<1>10. CASE Resume
  <2>1. /\ session' = [session EXCEPT !.resuming = session.gen + 1] /\ UNCHANGED <<gate, line, turnQueue, command, ran, upset>>
    BY <1>10 DEF Resume
  <2>2. session' \in [gen : Nat, conv : Nat, paused : BOOLEAN, resuming : Nat, first : BOOLEAN, fresh : BOOLEAN]
    <3> DEFINE since == session.gen + 1
    <3>1. since \in Nat /\ session' = [session EXCEPT !.resuming = since]
      BY <1>1, <2>1
    <3> HIDE DEF since
    <3> QED BY <1>1, <3>1
  <2> QED BY <1>1, <1>2, <2>1, <2>2 DEF GateTypeOK
<1>11. CASE Resumed
  <2>1. /\ \E paused \in BOOLEAN : session' = [session EXCEPT !.resuming = 0, !.paused = paused]
        /\ UNCHANGED <<gate, line, turnQueue, command, ran, upset>>
    BY <1>1, <1>11 DEF Resumed
  <2>2. session' \in [gen : Nat, conv : Nat, paused : BOOLEAN, resuming : Nat, first : BOOLEAN, fresh : BOOLEAN]
    <3> DEFINE next == [session EXCEPT !.resuming = 0]
    <3>1. next \in [gen : Nat, conv : Nat, paused : BOOLEAN, resuming : Nat, first : BOOLEAN, fresh : BOOLEAN]
      BY <1>1
    <3>2. PICK paused \in BOOLEAN : session' = [next EXCEPT !.paused = paused]
      BY <2>1
    <3> HIDE DEF next
    <3> QED BY <3>1, <3>2
  <2> QED BY <1>1, <1>2, <2>1, <2>2 DEF GateTypeOK
<1>12. CASE StopLines
  <2>1. /\ upset' = [upset EXCEPT !.stops = @ + 1] /\ line' = Dropped({"resolve"} \cup Working)
        /\ turnQueue' = [turnQueue EXCEPT !.current = 0] /\ UNCHANGED <<gate, session, command, ran>>
    BY <1>12 DEF StopLines
  <2>2. line' \in [Line -> LineRecord]
    BY <2>1, DroppedIs DEF LinePlace
  <2>3. upset' \in [stops : Nat, overlap : BOOLEAN, failed : BOOLEAN, renamed : BOOLEAN]
    <3> DEFINE more == upset.stops + 1
    <3>1. more \in Nat /\ upset' = [upset EXCEPT !.stops = more]
      BY <1>1, <2>1
    <3> HIDE DEF more
    <3> QED BY <1>1, <3>1
  <2>4. turnQueue' \in [waiting : Seq(Line), current : Line \cup {0}]
    BY <1>4, <2>1
  <2> QED BY <1>1, <1>2, <2>1, <2>2, <2>3, <2>4 DEF GateTypeOK
<1>13. CASE UNCHANGED gateVars
  BY <1>1, <1>2, <1>13 DEF gateVars, GateTypeOK
<1>14. ASSUME NEW c \in Command, Moves(c)
       PROVE  command' \in [Command -> CommandRecord] /\ GateCounts' /\ gate' \in [open : BOOLEAN, active : Nat, count : Nat]
  BY <1>1, <1>14, GateCountsMove DEF Moves
<1>15. CASE Ask
  BY <1>1, <1>14, <1>15, AskMoves DEF Ask, GateTypeOK
<1>16. ASSUME NEW c \in Command, CommandStep(c) PROVE GateTypeOK' /\ GateCounts'
  <2>1. command' \in [Command -> CommandRecord] /\ GateCounts' /\ gate' \in [open : BOOLEAN, active : Nat, count : Nat]
    BY <1>14, <1>16, CommandMoves
  <2>2. session' \in [gen : Nat, conv : Nat, paused : BOOLEAN, resuming : Nat, first : BOOLEAN, fresh : BOOLEAN]
    BY <1>1, <1>16, SessionMoves DEF GateTypeOK
  <2>3. line' \in [Line -> LineRecord] /\ turnQueue' \in [waiting : Seq(Line), current : Line \cup {0}]
    BY <1>1, <1>16, QueueMoves DEF GateTypeOK
  <2>4. ran' = ran /\ upset' \in [stops : Nat, overlap : BOOLEAN, failed : BOOLEAN, renamed : BOOLEAN]
    BY <1>1, <1>16, UpsetMoves DEF GateTypeOK
  <2> QED BY <1>1, <2>1, <2>2, <2>3, <2>4 DEF GateTypeOK
<1> QED BY <1>6, <1>8, <1>9, <1>10, <1>11, <1>12, <1>13, <1>15, <1>16, StepsOfGate

\* The gate is open just when no command is at work.
LEMMA OpenWhenIdle ==
  ASSUME GateTypeOK, GateCounts
  PROVE  gate.open <=> \A c \in Command : command[c].at \in Idle
<1>1. IsFiniteSet(Holds) /\ Cardinality(Holds) \in Nat /\ (gate.open <=> Cardinality(Holds) = 0)
  <2>1. IsFiniteSet(Command)
    BY InputGateAssumption, FS_Interval DEF Command
  <2>2. IsFiniteSet(1..2) /\ 1..2 = {1, 2}
    <3>1. 1 \in Int /\ 2 \in Int /\ 1..2 = {1, 2}
      OBVIOUS
    <3> QED BY <3>1, FS_Interval
  <2>3. IsFiniteSet(Command \X {1, 2})
    BY <2>1, <2>2, FS_Product
  <2>4. Holds \in SUBSET (Command \X {1, 2})
    BY DEF Holds
  <2>5. IsFiniteSet(Holds)
    BY <2>3, <2>4, FS_Subset
  <2> QED BY <2>5, FS_CardinalityType DEF GateCounts
<1>2. gate.open <=> Holds = {}
  BY <1>1, FS_EmptySet
<1>3. ASSUME NEW c \in Command
      PROVE  /\ command[c].at \notin Idle => <<c, 1>> \in Holds
             /\ command[c].at \in Idle => Weight(command[c]) = 0
  BY DEF Holds, Weight
<1>4. ASSUME NEW s \in Holds
      PROVE  s[1] \in Command /\ command[s[1]].at \notin Idle
  <2>1. s[1] \in Command /\ s[2] \in {1, 2} /\ s[2] <= Weight(command[s[1]])
    BY DEF Holds
  <2>2. command[s[1]].at \in Idle => Weight(command[s[1]]) = 0
    BY <1>3, <2>1
  <2> QED BY <2>1, <2>2
<1> QED BY <1>2, <1>3, <1>4

\* Where a command goes from where, and whether the gate is counted.
LEMMA CommandGoes ==
  ASSUME GateTypeOK, GateCounts, NEW c \in Command, CommandStep(c)
  PROVE  /\ \A d \in Command \ {c} : command'[d] = command[d]
         /\ command'[c].what = command[c].what /\ command'[c].at \notin {"off", "asked"}
         /\ gate.count \in Nat /\ gate'.count \in Nat /\ gate.count <= gate'.count
         /\ Begin(c) => \/ command'[c].at = "over"
                        \/ command'[c].at = "list" /\ command[c].what = "load" /\ ~HasTurn
                        \/ command'[c].at = "reset" /\ gate'.count = gate.count + 1
         /\ Pick(c) => \/ command'[c].at = "over"
                       \/ command'[c].at \in {"restore", "renew"} /\ gate'.count = gate.count + 1
         /\ Discard(c) => \/ command[c].at = "reset" /\ command'[c].at = "discard"
                          \/ command[c].at = "renew" /\ command'[c].at = "discard2"
         /\ Discarded(c) => IF command[c].what = "cd" /\ command[c].at = "discard"
                            THEN command'[c].at = "list" ELSE command'[c].at = "over"
         /\ Fails(c) \/ Released(c) => command'[c].at = "over"
         /\ Restore(c) => command'[c].at = "bind"
         /\ Install(c) => command'[c].at = "release"
<1>1. Moves(c) /\ command'[c].what = command[c].what
  BY CommandMoves
<1>2. /\ \A d \in Command \ {c} : command'[d] = command[d]
      /\ gate.count \in Nat /\ gate'.count \in Nat /\ gate.count <= gate'.count
  BY <1>1 DEF Moves, GateTypeOK
<1>3. ASSUME NEW p \in CommandPlace, command' = In(c, p) PROVE command'[c].at = p
  <2>1. In(c, p)[c] = [what |-> command[c].what, at |-> p, gen |-> command[c].gen]
    BY CommandPlaces
  <2> QED BY <1>3, <2>1
<1>4. command' = Over(c) => command'[c].at = "over"
  <2>1. Over(c)[c] = [what |-> command[c].what, at |-> "over", gen |-> <<0, 0>>]
    BY CommandPlaces
  <2> QED BY <2>1
<1>5. ASSUME NEW p, command' = [command EXCEPT ![c].at = p, ![c].gen = Now] PROVE command'[c].at = p
  <2>1. command'[c] = [what |-> command[c].what, at |-> p, gen |-> Now]
    BY <1>5, PlacesNow
  <2> QED BY <2>1
<1>6. ASSUME NEW n \in {1, 2}, gate' = Counted(Shut(gate, n)) PROVE gate'.count = gate.count + 1
  <2>1. gate \in [open : BOOLEAN, active : Nat, count : Nat]
    BY DEF GateTypeOK
  <2>2. Shut(gate, n).count = gate.count /\ Shut(gate, n) \in [open : BOOLEAN, active : Nat, count : Nat]
    <3> DEFINE shut == [gate EXCEPT !.open = FALSE]
    <3>1. shut \in [open : BOOLEAN, active : Nat, count : Nat] /\ shut.count = gate.count
      BY <2>1
    <3>2. Shut(gate, n) = [shut EXCEPT !.active = @ + n]
      BY DEF Shut
    <3> HIDE DEF shut
    <3> QED BY <3>1, <3>2
  <2> QED BY <1>6, <2>2 DEF Counted
<1>7. Begin(c) => \/ command'[c].at = "over"
                  \/ command'[c].at = "list" /\ command[c].what = "load" /\ ~HasTurn
                  \/ command'[c].at = "reset" /\ gate'.count = gate.count + 1
  <2>1. "reset" \in CommandPlace
    BY DEF CommandPlace
  <2> QED BY <1>3, <1>4, <1>5, <1>6, <2>1 DEF Begin
<1>8. Pick(c) => \/ command'[c].at = "over"
                 \/ command'[c].at \in {"restore", "renew"} /\ gate'.count = gate.count + 1
  <2>1. "restore" \in CommandPlace /\ "renew" \in CommandPlace
    BY DEF CommandPlace
  <2> QED BY <1>3, <1>4, <1>6, <2>1 DEF Pick, End
<1>9. Discard(c) => \/ command[c].at = "reset" /\ command'[c].at = "discard"
                    \/ command[c].at = "renew" /\ command'[c].at = "discard2"
  <2>1. "discard" \in CommandPlace /\ "discard2" \in CommandPlace
    BY DEF CommandPlace
  <2> QED BY <1>3, <2>1 DEF Discard
<1>10. Discarded(c) => IF command[c].what = "cd" /\ command[c].at = "discard"
                       THEN command'[c].at = "list" ELSE command'[c].at = "over"
  BY <1>4, <1>5 DEF Discarded
<1>11. Fails(c) \/ Released(c) => command'[c].at = "over"
  BY <1>4 DEF Fails, Released, End
<1>12. Restore(c) => command'[c].at = "bind"
  BY <1>5 DEF Restore
<1>13. Install(c) => command'[c].at = "release"
  BY <1>3 DEF Install, CommandPlace
<1>14. command'[c].at \notin {"off", "asked"}
  BY <1>7, <1>8, <1>9, <1>10, <1>11, <1>12, <1>13 DEF CommandStep
<1> QED BY <1>1, <1>2, <1>7, <1>8, <1>9, <1>10, <1>11, <1>12, <1>13, <1>14

\* A command that is asked for is not at work yet.
LEMMA AskGoes ==
  ASSUME GateTypeOK, GateCounts, Ask
  PROVE  \E c \in Command : /\ command[c].at = "off" /\ command'[c].at = "asked"
                            /\ \A d \in Command \ {c} : command'[d] = command[d]
                            /\ UNCHANGED <<gate, session, line, turnQueue, ran, upset>>
<1>1. PICK c \in Command : Moves(c) /\ command[c].at = "off" /\ command'[c].at = "asked"
  BY AskMoves
<1>2. \A d \in Command \ {c} : command'[d] = command[d]
  BY <1>1 DEF Moves, GateTypeOK
<1> QED BY <1>1, <1>2 DEF Ask

\* What a command takes from the lines: whom it drops was admitted.
LEMMA CommandDrops ==
  ASSUME GateTypeOK, NEW c \in Command, CommandStep(c)
  PROVE  /\ ran' = ran /\ upset'.stops = upset.stops
         /\ \A l \in Line :
              /\ \/ line'[l] = line[l]
                 \/ /\ line'[l].at = "dropped" /\ l \in Admitted
                    /\ Discard(c) \/ Install(c)
              /\ line'[l].count = line[l].count /\ line'[l].gen = line[l].gen
              /\ line'[l].conv = line[l].conv /\ line'[l].stops = line[l].stops
         /\ turnQueue'.waiting = turnQueue.waiting \/ turnQueue'.waiting = <<>>
         /\ turnQueue'.waiting # turnQueue.waiting => Discard(c) \/ Discarded(c) \/ Install(c)
<1>1. {"queued", "resolve"} \in SUBSET LinePlace /\ ({"queued", "resolve"} \cup Working) \in SUBSET LinePlace
  BY DEF LinePlace
<1>2. ASSUME NEW D \in SUBSET LinePlace, D \subseteq {"queued", "resolve"} \cup Working, line' = Dropped(D), NEW l \in Line
      PROVE  /\ \/ line'[l] = line[l]
                \/ line'[l].at = "dropped" /\ l \in Admitted
             /\ line'[l].count = line[l].count /\ line'[l].gen = line[l].gen
             /\ line'[l].conv = line[l].conv /\ line'[l].stops = line[l].stops
  BY <1>2, DroppedIs DEF Admitted
<1>3. DOMAIN turnQueue = {"waiting", "current"}
  BY DEF GateTypeOK
<1>4. ran' = ran /\ upset'.stops = upset.stops
  BY UpsetMoves
<1>5. CASE Discard(c)
  <2>1. line' = Dropped({"queued", "resolve"} \cup Working) /\ turnQueue' = [waiting |-> <<>>, current |-> 0]
    BY <1>5, QueueMoves
  <2> QED BY <1>1, <1>2, <1>4, <1>5, <2>1
<1>6. CASE Install(c)
  <2>1. line' = Dropped({"queued", "resolve"}) /\ turnQueue'.waiting = <<>>
    BY <1>3, <1>6, QueueMoves
  <2> QED BY <1>1, <1>2, <1>4, <1>6, <2>1
<1>7. CASE Discarded(c)
  <2>1. line' = line /\ turnQueue'.waiting = <<>>
    BY <1>3, <1>7, QueueMoves
  <2> QED BY <1>4, <1>7, <2>1
<1>8. CASE ~(Discard(c) \/ Discarded(c) \/ Install(c))
  BY <1>4, <1>8, QueueMoves
<1> QED BY <1>5, <1>6, <1>7, <1>8

\* What a stop takes.
LEMMA StopDrops ==
  ASSUME GateTypeOK, StopLines
  PROVE  /\ upset'.stops = upset.stops + 1 /\ upset.stops \in Nat
         /\ upset'.overlap = upset.overlap /\ upset'.failed = upset.failed /\ upset'.renamed = upset.renamed
         /\ UNCHANGED <<gate, session, command, ran>>
         /\ turnQueue'.waiting = turnQueue.waiting /\ turnQueue'.current = 0
         /\ \A l \in Line :
              /\ IF line[l].at \in {"resolve"} \cup Working THEN line'[l].at = "dropped" ELSE line'[l] = line[l]
              /\ line'[l].count = line[l].count /\ line'[l].gen = line[l].gen
              /\ line'[l].conv = line[l].conv /\ line'[l].stops = line[l].stops
<1>1. ({"resolve"} \cup Working) \in SUBSET LinePlace
  BY DEF LinePlace
<1>2. /\ upset' = [upset EXCEPT !.stops = @ + 1] /\ line' = Dropped({"resolve"} \cup Working)
      /\ turnQueue' = [turnQueue EXCEPT !.current = 0] /\ UNCHANGED <<gate, session, command, ran>>
  BY DEF StopLines
<1>3. /\ upset'.stops = upset.stops + 1 /\ upset.stops \in Nat
      /\ upset'.overlap = upset.overlap /\ upset'.failed = upset.failed /\ upset'.renamed = upset.renamed
  BY <1>2 DEF GateTypeOK
<1>4. turnQueue'.waiting = turnQueue.waiting /\ turnQueue'.current = 0
  BY <1>2 DEF GateTypeOK
<1> QED BY <1>1, <1>2, <1>3, <1>4, DroppedIs

\* What a line that goes on takes along.
LEMMA GoesKeeps ==
  ASSUME GateTypeOK, NEW l \in Line, NEW p \in LinePlace, Goes(l, p)
  PROVE  /\ line'[l].at = p /\ \A m \in Line \ {l} : line'[m] = line[m]
         /\ \A m \in Line : /\ line'[m].count = line[m].count /\ line'[m].gen = line[m].gen
                            /\ line'[m].conv = line[m].conv /\ line'[m].stops = line[m].stops
         /\ l \in Admitted /\ p # "lock" /\ p # "off" /\ UNCHANGED <<gate, command>>
         /\ session'.gen = session.gen /\ session'.conv = session.conv /\ upset'.stops = upset.stops
<1>1. /\ line'[l].at = p /\ \A m \in Line \ {l} : line'[m] = line[m]
      /\ line'[l].count = line[l].count /\ line'[l].gen = line[l].gen
      /\ line'[l].conv = line[l].conv /\ line'[l].stops = line[l].stops
  BY PlacedIs DEF Goes
<1>2. l \in Admitted /\ p # "lock" /\ p # "off"
  BY DEF Goes, Admitted, PastGate, Working
<1> QED BY <1>1, <1>2 DEF Goes

\* A line that enters: what it remembers, and of which kind it was.
LEMMA EntersKeeps ==
  ASSUME GateTypeOK, NEW l \in Line, Enters(l)
  PROVE  /\ \A m \in Line \ {l} : line'[m] = line[m]
         /\ l \notin Admitted /\ (l \in Coming \/ l \in Locking)
         /\ line'[l].at \in {"refused", "dropped", "lock", "resolve", "queued"}
         /\ l \in Coming => line'[l].count = gate.count /\ line'[l].conv = session.conv /\ line'[l].stops = upset.stops
         /\ l \in Locking => /\ line'[l].count = line[l].count /\ line'[l].conv = line[l].conv
                             /\ line'[l].stops = line[l].stops
         /\ line'[l].at \in {"resolve", "queued"} => line'[l].gen = session.gen /\ gate.open /\ line'[l].count = gate.count
         /\ line'[l].at = "lock" => l \in Coming /\ gate.open
         /\ line'[l].at = "dropped" => l \in Locking /\ ~Unmoved(line[l])
         /\ line'[l].gen \in {0, session.gen, line[l].gen}
         /\ UNCHANGED <<gate, session, command, ran, upset>>
         /\ \/ UNCHANGED turnQueue
            \/ line'[l].at = "queued" /\ QueueInput(l)
<1>1. \A m \in Line \ {l} : line'[m] = line[m]
  BY DEF Enters, GateTypeOK
<1>2. l \in Coming \/ l \in Locking
  BY DEF Enters
<1>3. l \notin Admitted /\ ~(l \in Coming /\ l \in Locking)
  BY <1>2 DEF Admitted, Coming, Locking, Working
<1>4. /\ l \in Coming => line'[l].count = gate.count /\ line'[l].conv = session.conv /\ line'[l].stops = upset.stops
      /\ l \in Locking => /\ line'[l].count = line[l].count /\ line'[l].conv = line[l].conv
                          /\ line'[l].stops = line[l].stops
  BY <1>3 DEF Enters
<1>5. UNCHANGED <<gate, session, command, ran, upset>>
  BY DEF Enters
<1>6. \/ line'[l].at = "refused" /\ line'[l].gen \in {0, session.gen} /\ UNCHANGED turnQueue
      \/ line'[l].at = "dropped" /\ l \in Locking /\ ~Unmoved(line[l]) /\ line'[l].gen = line[l].gen /\ UNCHANGED turnQueue
      \/ line'[l].at = "lock" /\ l \in Coming /\ gate.open /\ line'[l].gen = 0 /\ UNCHANGED turnQueue
      \/ /\ line'[l].gen = session.gen /\ gate.open /\ line'[l].count = gate.count
         /\ \/ line'[l].at = "resolve" /\ UNCHANGED turnQueue
            \/ line'[l].at = "queued" /\ QueueInput(l)
  BY DEF Enters
<1> QED BY <1>1, <1>2, <1>3, <1>4, <1>5, <1>6

\* What a live line knows: a command shuts the gate before it does anything to
\* the conversation, and counts it unless it is the list of a /load.
LEMMA LinesKnowTheGateStep ==
  ASSUME GateTypeOK, GateCounts, LinesKnowTheGate, [GateNext]_gateVars
  PROVE  LinesKnowTheGate'
<1> DEFINE Known(l) == line[l].count <= gate.count /\ line[l].gen <= session.gen /\ line[l].stops <= upset.stops
           AtPeace == \A c \in Command : command[c].at \in Idle \/ (command[c].at = "list" /\ command[c].what = "load")
<1>1. \A l \in Line : Known(l)
  BY DEF LinesKnowTheGate
<1>2. \A l \in LiveLines : line[l].count = gate.count => line[l].conv = session.conv /\ AtPeace
  BY DEF LinesKnowTheGate
<1>3. /\ gate.count \in Nat /\ session.gen \in Nat /\ upset.stops \in Nat
      /\ \A l \in Line : line[l].count \in Nat /\ line[l].gen \in Nat /\ line[l].stops \in Nat
  BY DEF GateTypeOK, LineRecord
<1>4. gate.open => AtPeace
  BY OpenWhenIdle
<1> SUFFICES /\ \A l \in Line : Known(l)'
             /\ \A l \in Line : l \in LiveLines' /\ line'[l].count = gate'.count => line'[l].conv = session'.conv /\ AtPeace'
  BY DEF LinesKnowTheGate, LiveLines, Admitted
<1>5. ASSUME NEW l \in Line, Enters(l)
      PROVE  /\ \A m \in Line : Known(m)'
             /\ \A m \in Line : m \in LiveLines' /\ line'[m].count = gate'.count => line'[m].conv = session'.conv /\ AtPeace'
  <2>1. UNCHANGED <<gate, session, command, ran, upset>> /\ \A m \in Line \ {l} : line'[m] = line[m]
    BY <1>5, EntersKeeps
  <2>2. Known(l)'
    BY <1>1, <1>3, <1>5, <2>1, EntersKeeps
  <2>3. l \in LiveLines' /\ line'[l].count = gate'.count => line'[l].conv = session'.conv /\ AtPeace'
    <3>1. CASE l \in Locking
      <4>1. l \in LiveLines
        BY <3>1 DEF LiveLines, Locking
      <4> QED BY <1>2, <1>5, <2>1, <3>1, <4>1, EntersKeeps
    <3>2. CASE l \in Coming
      <4>1. l \in LiveLines' => gate.open
        BY <1>5, EntersKeeps DEF LiveLines, Admitted, Working
      <4> QED BY <1>4, <1>5, <2>1, <3>2, <4>1, EntersKeeps
    <3> QED BY <1>5, <3>1, <3>2, EntersKeeps
  <2>4. \A m \in Line \ {l} : m \in LiveLines' => m \in LiveLines
    BY <2>1 DEF LiveLines, Admitted
  <2> QED BY <1>1, <1>2, <2>1, <2>2, <2>3, <2>4
<1>6. ASSUME UNCHANGED <<gate, command>>, session'.gen = session.gen, session'.conv = session.conv,
             upset'.stops \in Nat, upset.stops <= upset'.stops,
             \A l \in Line : /\ l \in LiveLines' => l \in LiveLines
                             /\ line'[l].count = line[l].count /\ line'[l].gen = line[l].gen
                             /\ line'[l].conv = line[l].conv /\ line'[l].stops = line[l].stops
      PROVE  /\ \A m \in Line : Known(m)'
             /\ \A m \in Line : m \in LiveLines' /\ line'[m].count = gate'.count => line'[m].conv = session'.conv /\ AtPeace'
  <2>1. \A m \in Line : Known(m)'
    BY <1>1, <1>3, <1>6
  <2> QED BY <1>2, <1>6, <2>1
<1>7. ASSUME NEW l \in Line, NEW p \in LinePlace, Goes(l, p)
      PROVE  /\ \A m \in Line : Known(m)'
             /\ \A m \in Line : m \in LiveLines' /\ line'[m].count = gate'.count => line'[m].conv = session'.conv /\ AtPeace'
  <2>1. \A m \in Line : m \in LiveLines' => m \in LiveLines
    BY <1>7, GoesKeeps DEF LiveLines, Admitted
  <2>2. upset'.stops \in Nat /\ upset.stops <= upset'.stops
    BY <1>3, <1>7, GoesKeeps
  <2> QED BY <1>6, <1>7, <2>1, <2>2, GoesKeeps
<1>8. CASE TakeLine
  BY <1>7, <1>8, TakeLineGoes DEF LinePlace, Working
<1>9. ASSUME NEW l \in Line, GoesOn(l)
      PROVE  /\ \A m \in Line : Known(m)'
             /\ \A m \in Line : m \in LiveLines' /\ line'[m].count = gate'.count => line'[m].conv = session'.conv /\ AtPeace'
  BY <1>7, <1>9, GoesOnGoes
<1>10. CASE StopLines
  <2>1. \A m \in Line : m \in LiveLines' => m \in LiveLines
    BY <1>10, StopDrops DEF LiveLines, Admitted, Working
  <2>2. upset'.stops \in Nat /\ upset.stops <= upset'.stops
    BY <1>10, StopDrops
  <2> QED BY <1>6, <1>10, <2>1, <2>2, StopDrops
<1>11. CASE Resume \/ Resumed
  <2>1. UNCHANGED <<gate, line, turnQueue, command, ran, upset>> /\ session'.gen = session.gen /\ session'.conv = session.conv
    BY <1>11 DEF Resume, Resumed, GateTypeOK
  <2>2. \A m \in Line : m \in LiveLines' => m \in LiveLines
    BY <2>1 DEF LiveLines, Admitted
  <2> QED BY <1>3, <1>6, <2>1, <2>2
<1>12. CASE UNCHANGED gateVars
  <2>1. UNCHANGED <<gate, session, line, turnQueue, command, ran, upset>>
    BY <1>12 DEF gateVars
  <2>2. \A m \in Line : m \in LiveLines' => m \in LiveLines
    BY <2>1 DEF LiveLines, Admitted
  <2> QED BY <1>3, <1>6, <2>1, <2>2
<1>13. CASE Ask
  <2>1. PICK c \in Command : /\ command[c].at = "off" /\ command'[c].at = "asked"
                             /\ \A d \in Command \ {c} : command'[d] = command[d]
                             /\ UNCHANGED <<gate, session, line, turnQueue, ran, upset>>
    BY <1>13, AskGoes
  <2>2. AtPeace => AtPeace'
    BY <2>1 DEF Idle
  <2>3. \A m \in Line : m \in LiveLines' => m \in LiveLines
    BY <2>1 DEF LiveLines, Admitted
  <2> QED BY <1>1, <1>2, <2>1, <2>2, <2>3
<1>14. ASSUME NEW c \in Command, CommandStep(c)
       PROVE  /\ \A m \in Line : Known(m)'
              /\ \A m \in Line : m \in LiveLines' /\ line'[m].count = gate'.count => line'[m].conv = session'.conv /\ AtPeace'
  <2>1. /\ gate.count <= gate'.count /\ gate'.count \in Nat /\ upset'.stops = upset.stops
        /\ \A m \in Line : /\ m \in LiveLines' => m \in LiveLines
                           /\ line'[m].count = line[m].count /\ line'[m].gen = line[m].gen
                           /\ line'[m].conv = line[m].conv /\ line'[m].stops = line[m].stops
    BY <1>14, CommandGoes, CommandDrops DEF LiveLines, Admitted, Working
  <2>2. session'.gen \in {session.gen, session.gen + 1}
    BY <1>14, SessionMoves
  <2>3. \A m \in Line : Known(m)'
    BY <1>1, <1>3, <2>1, <2>2
  <2>4. ASSUME NEW m \in Line, m \in LiveLines', line'[m].count = gate'.count
        PROVE  line'[m].conv = session'.conv /\ AtPeace'
    <3>1. m \in LiveLines /\ line[m].count = gate.count /\ gate'.count = gate.count
      BY <1>1, <1>3, <2>1, <2>4
    <3>2. line[m].conv = session.conv /\ AtPeace
      BY <1>2, <3>1
    <3>3. Begin(c) \/ Pick(c)
      BY <1>14, <3>2, CommandExclusive DEF CommandStep, Idle
    <3>4. session'.conv = session.conv
      BY <1>14, <3>3, SessionMoves, CommandExclusive
    <3>5. command'[c].at \in Idle \/ (command'[c].at = "list" /\ command'[c].what = "load")
      BY <1>3, <1>14, <3>1, <3>3, CommandGoes DEF Idle
    <3>6. \A d \in Command \ {c} : command'[d] = command[d]
      BY <1>14, CommandGoes
    <3> QED BY <2>1, <3>2, <3>4, <3>5, <3>6
  <2> QED BY <2>3, <2>4
<1> QED BY <1>5, <1>8, <1>9, <1>10, <1>11, <1>12, <1>13, <1>14, StepsOfGate

\* A line that is accepted is one of the conversation there is.
LEMMA AcceptedAreOfNowStep ==
  ASSUME GateTypeOK, GateCounts, LinesKnowTheGate, AcceptedAreOfNow, [GateNext]_gateVars
  PROVE  AcceptedAreOfNow'
<1> DEFINE Quiet == \A c \in Command : command[c].at \notin {"discard", "discard2"}
<1>1. \A l \in Admitted : line[l].gen = session.gen => line[l].conv = session.conv /\ Quiet
  BY DEF AcceptedAreOfNow
<1>2. gate.open => Quiet
  BY OpenWhenIdle DEF Idle
<1> SUFFICES \A l \in Line : l \in Admitted' /\ line'[l].gen = session'.gen => line'[l].conv = session'.conv /\ Quiet'
  BY DEF AcceptedAreOfNow, Admitted
<1>5. ASSUME NEW l \in Line, Enters(l), NEW m \in Line, m \in Admitted', line'[m].gen = session'.gen
      PROVE  line'[m].conv = session'.conv /\ Quiet'
  <2>1. UNCHANGED <<gate, session, command, ran, upset>> /\ \A k \in Line \ {l} : line'[k] = line[k]
    BY <1>5, EntersKeeps
  <2>2. CASE m = l
    <3>1. line'[l].at \in {"resolve", "queued"}
      BY <1>5, <2>2, EntersKeeps DEF Admitted, Working
    <3>2. gate.open /\ line'[l].count = gate.count
      BY <1>5, <3>1, EntersKeeps
    <3>3. line'[l].conv = session.conv
      <4>1. CASE l \in Coming
        BY <1>5, <4>1, EntersKeeps
      <4>2. CASE l \in Locking
        <5>1. l \in LiveLines /\ line[l].count = gate.count
          BY <1>5, <3>2, <4>2, EntersKeeps DEF LiveLines, Locking
        <5>2. line'[l].conv = line[l].conv
          BY <1>5, <4>2, EntersKeeps
        <5> QED BY <5>1, <5>2 DEF LinesKnowTheGate
      <4> QED BY <1>5, <4>1, <4>2, EntersKeeps
    <3> QED BY <1>2, <2>1, <2>2, <3>2, <3>3
  <2>3. CASE m # l
    <3>1. m \in Admitted
      BY <1>5, <2>1, <2>3 DEF Admitted
    <3> QED BY <1>1, <1>5, <2>1, <2>3, <3>1
  <2> QED BY <2>2, <2>3
<1>6. ASSUME UNCHANGED command, session'.gen = session.gen, session'.conv = session.conv,
             \A l \in Line : /\ l \in Admitted' => l \in Admitted
                             /\ line'[l].gen = line[l].gen /\ line'[l].conv = line[l].conv,
             NEW m \in Line, m \in Admitted', line'[m].gen = session'.gen
      PROVE  line'[m].conv = session'.conv /\ Quiet'
  BY <1>1, <1>6
<1>7. ASSUME NEW l \in Line, NEW p \in LinePlace, Goes(l, p), NEW m \in Line, m \in Admitted', line'[m].gen = session'.gen
      PROVE  line'[m].conv = session'.conv /\ Quiet'
  <2>1. \A k \in Line : k \in Admitted' => k \in Admitted
    BY <1>7, GoesKeeps DEF Admitted
  <2> QED BY <1>6, <1>7, <2>1, GoesKeeps
<1>8. CASE TakeLine
  BY <1>7, <1>8, TakeLineGoes DEF LinePlace, Working
<1>9. ASSUME NEW l \in Line, GoesOn(l), NEW m \in Line, m \in Admitted', line'[m].gen = session'.gen
      PROVE  line'[m].conv = session'.conv /\ Quiet'
  BY <1>7, <1>9, GoesOnGoes
<1>10. CASE StopLines
  <2>1. \A m \in Line : m \in Admitted' => m \in Admitted
    BY <1>10, StopDrops DEF Admitted, Working
  <2> QED BY <1>6, <1>10, <2>1, StopDrops
<1>11. CASE Resume \/ Resumed
  <2>1. UNCHANGED <<gate, line, turnQueue, command, ran, upset>> /\ session'.gen = session.gen /\ session'.conv = session.conv
    BY <1>11 DEF Resume, Resumed, GateTypeOK
  <2>2. \A m \in Line : m \in Admitted' => m \in Admitted
    BY <2>1 DEF Admitted
  <2> QED BY <1>6, <2>1, <2>2
<1>12. CASE UNCHANGED gateVars
  <2>1. UNCHANGED <<gate, session, line, turnQueue, command, ran, upset>>
    BY <1>12 DEF gateVars
  <2>2. \A m \in Line : m \in Admitted' => m \in Admitted
    BY <2>1 DEF Admitted
  <2> QED BY <1>6, <2>1, <2>2
<1>13. CASE Ask
  <2>1. PICK c \in Command : /\ command[c].at = "off" /\ command'[c].at = "asked"
                             /\ \A d \in Command \ {c} : command'[d] = command[d]
                             /\ UNCHANGED <<gate, session, line, turnQueue, ran, upset>>
    BY <1>13, AskGoes
  <2>2. Quiet => Quiet'
    BY <2>1
  <2>3. \A m \in Line : m \in Admitted' => m \in Admitted
    BY <2>1 DEF Admitted
  <2> QED BY <1>1, <2>1, <2>2, <2>3
<1>14. ASSUME NEW c \in Command, CommandStep(c), NEW m \in Line, m \in Admitted', line'[m].gen = session'.gen
       PROVE  line'[m].conv = session'.conv /\ Quiet'
  <2>1. m \in Admitted /\ line'[m].gen = line[m].gen /\ line'[m].conv = line[m].conv
    BY <1>14, CommandDrops DEF Admitted, Working
  <2>2. line[m].gen <= session.gen /\ line[m].gen \in Nat /\ session.gen \in Nat
    BY DEF LinesKnowTheGate, GateTypeOK, LineRecord
  <2>3. ~Discard(c) /\ ~Install(c)
    BY <1>14, <2>1, <2>2, SessionMoves
  <2>4. session'.gen = session.gen
    BY <1>14, <2>3, SessionMoves
  <2>5. line[m].conv = session.conv /\ Quiet
    BY <1>1, <1>14, <2>1, <2>4
  <2>6. ~Discarded(c)
    BY <2>5, CommandExclusive
  <2>7. session'.conv = session.conv
    BY <1>14, <2>3, <2>6, SessionMoves
  <2>8. command'[c].at \notin {"discard", "discard2"} /\ \A d \in Command \ {c} : command'[d] = command[d]
    BY <1>14, <2>3, <2>6, CommandGoes DEF CommandStep
  <2> QED BY <2>1, <2>5, <2>7, <2>8
<1> QED BY <1>5, <1>8, <1>9, <1>10, <1>11, <1>12, <1>13, <1>14, StepsOfGate

\* A pause that is resumed, and nothing at all, leave the lines as they are.
LEMMA RestLeaves ==
  ASSUME GateTypeOK, Resume \/ Resumed \/ UNCHANGED gateVars
  PROVE  /\ UNCHANGED <<gate, line, turnQueue, command, ran, upset>>
         /\ session'.gen = session.gen /\ session'.conv = session.conv
         /\ session'.first = session.first /\ session'.fresh = session.fresh
BY DEF Resume, Resumed, GateTypeOK, gateVars

\* A reason to put a line aside stays one.
LEMMA PutAsideStays ==
  ASSUME GateTypeOK, LinesKnowTheGate, NEW l \in Line,
         gate'.count \in Nat, gate.count <= gate'.count, upset'.stops \in Nat, upset.stops <= upset'.stops,
         line'[l].count = line[l].count, line'[l].stops = line[l].stops,
         \A c \in Command : command[c].what = "load" /\ command[c].at \notin {"off", "asked"} =>
           command'[c].what = "load" /\ command'[c].at \notin {"off", "asked"},
         PutAside(l)
  PROVE  PutAside(l)'
<1>1. /\ gate.count \in Nat /\ upset.stops \in Nat /\ line[l].count \in Nat /\ line[l].stops \in Nat
      /\ line[l].count <= gate.count /\ line[l].stops <= upset.stops
  BY DEF GateTypeOK, LineRecord, LinesKnowTheGate
<1>2. CASE gate.count # line[l].count
  BY <1>1, <1>2 DEF PutAside
<1>3. CASE upset.stops # line[l].stops
  BY <1>1, <1>3 DEF PutAside
<1>4. CASE \E c \in Command : command[c].what = "load" /\ command[c].at \notin {"off", "asked"}
  BY <1>4 DEF PutAside
<1> QED BY <1>2, <1>3, <1>4 DEF PutAside

\* A live line that is not let in, or whose conversation is taken away, has a reason.
LEMMA LiveHaveAReason ==
  ASSUME GateTypeOK, GateCounts, LinesKnowTheGate, NEW l \in LiveLines,
         \/ ~Unmoved(line[l])
         \/ \E c \in Command : command[c].at \notin Idle \cup {"list"}
  PROVE  PutAside(l)
<1>1. CASE line[l].count # gate.count
  BY <1>1 DEF PutAside
<1>2. CASE line[l].count = gate.count
  <2>1. \A c \in Command : command[c].at \in Idle \/ (command[c].at = "list" /\ command[c].what = "load")
    BY <1>2 DEF LinesKnowTheGate
  <2>2. ~gate.open
    BY <1>2, <2>1 DEF Unmoved
  <2>3. PICK c \in Command : command[c].at \notin Idle
    BY <2>2, OpenWhenIdle
  <2>4. command[c].what = "load" /\ command[c].at \notin {"off", "asked"}
    BY <2>1, <2>3 DEF Idle
  <2> QED BY <2>4 DEF PutAside
<1> QED BY <1>1, <1>2

\* A line is dropped, or will be found to be of another conversation or gone
\* from the queue, only for a reason.
LEMMA AsideForAReasonStep ==
  ASSUME GateTypeOK, GateCounts, LinesKnowTheGate, AsideForAReason, [GateNext]_gateVars
  PROVE  AsideForAReason'
<1> DEFINE Aside(l) == \/ line[l].at = "dropped"
                       \/ l \in Admitted /\ line[l].gen # session.gen
                       \/ line[l].at = "keep" /\ ~InWaiting(l)
<1>1. \A l \in Line : Aside(l) => PutAside(l)
  BY DEF AsideForAReason
<1>2. /\ gate.count \in Nat /\ session.gen \in Nat /\ upset.stops \in Nat
      /\ \A l \in Line : line[l].count \in Nat /\ line[l].gen \in Nat /\ line[l].stops \in Nat
  BY DEF GateTypeOK, LineRecord
<1> SUFFICES ASSUME NEW m \in Line, Aside(m)' PROVE PutAside(m)'
  BY DEF AsideForAReason, Admitted
<1>3. Len(turnQueue.waiting) \in Nat /\ DOMAIN turnQueue.waiting = 1..Len(turnQueue.waiting)
  BY QueueIs
<1>4. ASSUME NEW l \in Line, QueueInput(l)
      PROVE  InWaiting(l)' /\ \A k \in Line : InWaiting(k) => InWaiting(k)'
  <2>1. /\ turnQueue'.waiting \in Seq(Line) /\ Len(turnQueue'.waiting) = Len(turnQueue.waiting) + 1
        /\ turnQueue'.waiting[Len(turnQueue.waiting) + 1] = l
        /\ \A n \in 1..Len(turnQueue.waiting) : turnQueue'.waiting[n] = turnQueue.waiting[n]
    BY <1>4, QueueIs
  <2>2. DOMAIN turnQueue'.waiting = 1..Len(turnQueue.waiting) + 1
    BY <2>1, LenProperties
  <2> QED BY <1>3, <2>1, <2>2 DEF InWaiting
<1>5. ASSUME NEW l \in Line, Enters(l) PROVE PutAside(m)'
  <2>1. UNCHANGED <<gate, session, command, ran, upset>> /\ \A k \in Line \ {l} : line'[k] = line[k]
    BY <1>5, EntersKeeps
  <2>2. CASE m = l
    <3>1. line'[l].at = "dropped"
      <4>1. line'[l].at \in {"resolve", "queued"} => line'[l].gen = session'.gen
        BY <1>5, <2>1, EntersKeeps
      <4>2. l \in Admitted' => line'[l].at \in {"resolve", "queued"}
        BY <1>5, EntersKeeps DEF Admitted, Working
      <4> QED BY <1>5, <2>2, <4>1, <4>2, EntersKeeps
    <3>2. l \in Locking /\ ~Unmoved(line[l])
      BY <1>5, <3>1, EntersKeeps
    <3>3. PutAside(l)
      BY <3>2, LiveHaveAReason DEF LiveLines, Locking
    <3> QED BY <1>5, <2>1, <2>2, <3>2, <3>3, EntersKeeps DEF PutAside
  <2>3. CASE m # l
    <3>1. InWaiting(m) => InWaiting(m)'
      BY <1>4, <1>5, EntersKeeps DEF InWaiting
    <3>2. Aside(m)
      BY <2>1, <2>3, <3>1 DEF Admitted
    <3> QED BY <1>1, <2>1, <2>3, <3>2 DEF PutAside
  <2> QED BY <2>2, <2>3
<1>6. ASSUME NEW l \in Line, NEW p \in LinePlace, Goes(l, p) PROVE PutAside(m)'
  <2>1. PutAside(m) => PutAside(m)'
    BY <1>2, <1>6, GoesKeeps, PutAsideStays
  <2>2. CASE m = l
    <3>1. l \in Admitted /\ line'[l].at = p /\ line'[l].gen = line[l].gen /\ session'.gen = session.gen
      BY <1>6, GoesKeeps
    <3>2. CASE line[l].gen # session.gen
      BY <1>1, <2>1, <2>2, <3>1, <3>2
    <3>3. CASE line[l].gen = session.gen
      <4>1. p = "dropped" \/ (p = "keep" /\ ~InWaiting(l)')
        BY <2>2, <3>1, <3>3
      <4>2. ~(p = "keep" /\ ~InWaiting(l)')
        BY <1>4, <1>6 DEF Goes, PastGate, Working
      <4>3. \/ line[l].at = "resolve" /\ ~(Unmoved(line[l]) /\ Accepts(line[l]))
            \/ line[l].at = "keep" /\ ~InWaiting(l)
            \/ ~Accepts(line[l])
        BY <1>6, <4>1, <4>2 DEF Goes, PastGate, Working
      <4>4. Accepts(line[l])
        BY <3>3 DEF Accepts
      <4>5. l \in LiveLines
        BY <3>1 DEF LiveLines
      <4> QED BY <1>1, <2>1, <2>2, <4>3, <4>4, <4>5, LiveHaveAReason
    <3> QED BY <3>2, <3>3
  <2>3. CASE m # l
    <3>1. line'[m] = line[m] /\ session'.gen = session.gen
      BY <1>6, <2>3, GoesKeeps
    <3>2. InWaiting(m) => InWaiting(m)'
      <4>1. \/ turnQueue'.waiting = turnQueue.waiting \/ QueueInput(l)
            \/ turnQueue.waiting # <<>> /\ l = Head(turnQueue.waiting) /\ turnQueue'.waiting = Tail(turnQueue.waiting)
        BY <1>6 DEF Goes, GateTypeOK
      <4>2. CASE turnQueue'.waiting = turnQueue.waiting
        BY <4>2 DEF InWaiting
      <4>3. CASE turnQueue.waiting # <<>> /\ l = Head(turnQueue.waiting) /\ turnQueue'.waiting = Tail(turnQueue.waiting)
        <5>1. ASSUME NEW n \in DOMAIN turnQueue.waiting, turnQueue.waiting[n] = m PROVE InWaiting(m)'
          <6>1. n \in 1..Len(turnQueue.waiting) /\ n # 1
            BY <1>3, <2>3, <4>3, <5>1, QueueIs
          <6>2. n - 1 \in 1..Len(turnQueue.waiting) - 1 /\ (n - 1) + 1 = n
            BY <1>3, <6>1
          <6>3. turnQueue'.waiting[n - 1] = m
            <7>1. Tail(turnQueue.waiting)[n - 1] = turnQueue.waiting[(n - 1) + 1]
              BY <4>3, <6>2, QueueIs
            <7> QED BY <4>3, <5>1, <6>2, <7>1
          <6>4. n - 1 \in DOMAIN turnQueue'.waiting
            <7>1. turnQueue'.waiting \in Seq(Line) /\ Len(turnQueue'.waiting) = Len(turnQueue.waiting) - 1
              BY <4>3, QueueIs
            <7> QED BY <6>2, <7>1, LenProperties
          <6> QED BY <6>3, <6>4 DEF InWaiting
        <5> QED BY <5>1 DEF InWaiting
      <4> QED BY <1>4, <4>1, <4>2, <4>3
    <3>3. Aside(m)
      BY <3>1, <3>2 DEF Admitted
    <3> QED BY <1>1, <2>1, <3>3
  <2> QED BY <2>2, <2>3
<1>7. CASE TakeLine
  BY <1>6, <1>7, TakeLineGoes DEF LinePlace, Working
<1>8. ASSUME NEW l \in Line, GoesOn(l) PROVE PutAside(m)'
  BY <1>6, <1>8, GoesOnGoes
<1>9. CASE StopLines
  <2>1. /\ upset'.stops = upset.stops + 1 /\ UNCHANGED <<gate, session, command>>
        /\ turnQueue'.waiting = turnQueue.waiting /\ line'[m].stops = line[m].stops
        /\ line[m].stops <= upset.stops
    BY <1>9, StopDrops DEF LinesKnowTheGate
  <2>2. upset'.stops # line'[m].stops
    BY <1>2, <2>1
  <2> QED BY <2>2 DEF PutAside
<1>10. CASE Resume \/ Resumed \/ UNCHANGED gateVars
  <2>1. UNCHANGED <<gate, line, turnQueue, command, ran, upset>> /\ session'.gen = session.gen
    BY <1>10, RestLeaves
  <2>2. Aside(m)
    BY <2>1 DEF Admitted, InWaiting
  <2> QED BY <1>1, <2>1, <2>2 DEF PutAside
<1>11. CASE Ask
  <2>1. PICK c \in Command : /\ command[c].at = "off" /\ command'[c].at = "asked"
                             /\ \A d \in Command \ {c} : command'[d] = command[d]
                             /\ UNCHANGED <<gate, session, line, turnQueue, ran, upset>>
    BY <1>11, AskGoes
  <2>2. Aside(m)
    BY <2>1 DEF Admitted, InWaiting
  <2>3. PutAside(m)
    BY <1>1, <2>2
  <2> QED BY <2>1, <2>3 DEF PutAside
<1>12. ASSUME NEW c \in Command, CommandStep(c) PROVE PutAside(m)'
  <2>1. PutAside(m) => PutAside(m)'
    <3>1. \A d \in Command : command[d].what = "load" /\ command[d].at \notin {"off", "asked"} =>
            command'[d].what = "load" /\ command'[d].at \notin {"off", "asked"}
      BY <1>12, CommandGoes
    <3>2. gate'.count \in Nat /\ gate.count <= gate'.count
      BY <1>12, CommandGoes
    <3>3. upset'.stops = upset.stops /\ line'[m].count = line[m].count /\ line'[m].stops = line[m].stops
      BY <1>12, CommandDrops
    <3> QED BY <1>2, <3>1, <3>2, <3>3, PutAsideStays
  <2>2. CASE Discard(c) \/ Discarded(c) \/ Install(c)
    <3>1. command[c].at \notin Idle \cup {"list"}
      BY <2>2, CommandExclusive DEF Idle
    <3>2. m \in LiveLines => PutAside(m)
      BY <3>1, LiveHaveAReason
    <3>3. m \in LiveLines \/ line[m].at = "dropped"
      BY <1>12, CommandDrops DEF LiveLines, Admitted
    <3> QED BY <1>1, <2>1, <3>2, <3>3
  <2>3. CASE ~(Discard(c) \/ Discarded(c) \/ Install(c))
    <3>1. line' = line /\ turnQueue' = turnQueue /\ session'.gen = session.gen
      BY <1>12, <2>3, QueueMoves, SessionMoves
    <3>2. Aside(m)
      BY <3>1 DEF Admitted, InWaiting
    <3> QED BY <1>1, <2>1, <3>2
  <2> QED BY <2>2, <2>3
<1> QED BY <1>5, <1>7, <1>8, <1>9, <1>10, <1>11, <1>12, StepsOfGate

\* A line runs in the conversation it was typed into: it is accepted when it
\* begins, and a line that has begun is not typed again.
LEMMA RanWhereTypedStep ==
  ASSUME GateTypeOK, GateCounts, AcceptedAreOfNow, LinesInOrder, RanWhereTyped, [GateNext]_gateVars
  PROVE  RanWhereTyped'
<1>1. ran \in Seq([line : Line, conv : Nat, untitled : BOOLEAN]) /\ DOMAIN ran = 1..Len(ran) /\ Len(ran) \in Nat
  BY LenProperties DEF GateTypeOK
<1>2. \A n \in DOMAIN ran : ran[n].line \in Line
  <2>1. \A n \in DOMAIN ran : ran[n] \in [line : Line, conv : Nat, untitled : BOOLEAN]
    BY <1>1, ElementOfSeq
  <2> QED BY <2>1
<1>3. ASSUME ran' = ran, \A n \in DOMAIN ran : line'[ran[n].line].conv = line[ran[n].line].conv
      PROVE  RanWhereTyped'
  BY <1>3 DEF RanWhereTyped
<1>4. ASSUME NEW l \in Line, Enters(l) PROVE RanWhereTyped'
  <2>1. UNCHANGED ran /\ \A m \in Line : m # l \/ l \notin Coming => line'[m].conv = line[m].conv
    BY <1>4, EntersKeeps
  <2>2. ASSUME NEW n \in DOMAIN ran, l \in Coming PROVE ran[n].line # l
    <3>1. ran[n].line \in Began
      BY DEF Began
    <3>2. ran[n].line < l
      BY <2>2, <3>1 DEF LinesInOrder, Precede
    <3> QED BY <1>2, <3>2 DEF Line
  <2> QED BY <1>2, <1>3, <2>1, <2>2
<1>5. ASSUME NEW l \in Line, NEW p \in LinePlace, Goes(l, p) PROVE RanWhereTyped'
  <2>1. \A m \in Line : line'[m].conv = line[m].conv
    BY <1>5, GoesKeeps
  <2>2. CASE ran' = ran
    BY <1>2, <1>3, <2>1, <2>2
  <2>3. CASE ran' # ran
    <3> DEFINE r == [line |-> l, conv |-> session.conv, untitled |-> session.fresh]
    <3>1. ran' = Append(ran, r) /\ line[l].at = "prepare" /\ Accepts(line[l])
      <4>1. p = "ran" /\ line[l].at = "prepare" /\ ran' = Append(ran, r)
        BY <1>5, <2>3 DEF Goes
      <4>2. "ran" \notin PastGate
        BY DEF PastGate, Working
      <4>3. Accepts(line[l])
        BY <1>5, <4>1, <4>2 DEF Goes
      <4> QED BY <4>1, <4>3
    <3>2. line[l].conv = session.conv
      <4>1. l \in Admitted /\ line[l].gen = session.gen
        BY <3>1 DEF Admitted, Working, Accepts
      <4> QED BY <4>1 DEF AcceptedAreOfNow
    <3>3. r \in [line : Line, conv : Nat, untitled : BOOLEAN] /\ r.line = l /\ r.conv = session.conv
      BY DEF GateTypeOK
    <3> HIDE DEF r
    <3>4. /\ DOMAIN ran' = 1..Len(ran) + 1 /\ ran'[Len(ran) + 1] = r
          /\ \A n \in 1..Len(ran) : ran'[n] = ran[n]
      <4>1. ran' \in Seq([line : Line, conv : Nat, untitled : BOOLEAN]) /\ Len(ran') = Len(ran) + 1
        BY <1>1, <3>1, <3>3, AppendProperties
      <4> QED BY <1>1, <3>1, <3>3, <4>1, AppendProperties, LenProperties
    <3>5. \A n \in DOMAIN ran' : ran'[n].conv = line'[ran'[n].line].conv
      <4>1. ASSUME NEW n \in 1..Len(ran) PROVE ran'[n].conv = line'[ran'[n].line].conv
        BY <1>1, <1>2, <2>1, <3>4 DEF RanWhereTyped
      <4>2. ran'[Len(ran) + 1].conv = line'[ran'[Len(ran) + 1].line].conv
        BY <2>1, <3>2, <3>3, <3>4
      <4> QED BY <1>1, <3>4, <4>1, <4>2
    <3> QED BY <3>5 DEF RanWhereTyped
  <2> QED BY <2>2, <2>3
<1>6. CASE TakeLine
  BY <1>5, <1>6, TakeLineGoes DEF LinePlace, Working
<1>7. ASSUME NEW l \in Line, GoesOn(l) PROVE RanWhereTyped'
  BY <1>5, <1>7, GoesOnGoes
<1>8. CASE StopLines
  BY <1>2, <1>3, <1>8, StopDrops
<1>9. CASE Resume \/ Resumed \/ UNCHANGED gateVars
  BY <1>2, <1>3, <1>9, RestLeaves
<1>10. CASE Ask
  BY <1>2, <1>3, <1>10, AskGoes
<1>11. ASSUME NEW c \in Command, CommandStep(c) PROVE RanWhereTyped'
  BY <1>2, <1>3, <1>11, CommandDrops
<1> QED BY <1>4, <1>6, <1>7, <1>8, <1>9, <1>10, <1>11, StepsOfGate

\* The order of the lines holds when lines only leave their places.
LEMMA OrderShrinks ==
  ASSUME LinesInOrder, ran' = ran, AtWork' \subseteq AtWork, Resolving' \subseteq Resolving,
         Locking' \subseteq Locking, Coming' \subseteq Coming,
         turnQueue'.waiting = turnQueue.waiting \/ turnQueue'.waiting = <<>>
  PROVE  LinesInOrder'
<1>1. Began' = Began /\ RanInOrder'
  BY DEF Began, RanInOrder, LinesInOrder
<1>2. Waiting' \subseteq Waiting
  BY DEF Waiting
<1>3. \A m, n \in DOMAIN turnQueue'.waiting : m < n => turnQueue'.waiting[m] < turnQueue'.waiting[n]
  BY DEF LinesInOrder
<1> QED BY <1>1, <1>2, <1>3 DEF LinesInOrder, Precede

\* A line that comes after all that wait is queued behind them.
LEMMA QueuedInOrder ==
  ASSUME GateTypeOK, NEW l \in Line, QueueInput(l), \A m \in Waiting : m < l,
         \A m, n \in DOMAIN turnQueue.waiting : m < n => turnQueue.waiting[m] < turnQueue.waiting[n]
  PROVE  /\ \A m \in Waiting' : m \in Waiting \/ m = l
         /\ \A m, n \in DOMAIN turnQueue'.waiting : m < n => turnQueue'.waiting[m] < turnQueue'.waiting[n]
<1>1. Len(turnQueue.waiting) \in Nat /\ DOMAIN turnQueue.waiting = 1..Len(turnQueue.waiting)
  BY QueueIs
<1>2. /\ DOMAIN turnQueue'.waiting = 1..Len(turnQueue.waiting) + 1
      /\ turnQueue'.waiting[Len(turnQueue.waiting) + 1] = l
      /\ \A n \in 1..Len(turnQueue.waiting) : turnQueue'.waiting[n] = turnQueue.waiting[n]
  <2>1. /\ turnQueue'.waiting \in Seq(Line) /\ Len(turnQueue'.waiting) = Len(turnQueue.waiting) + 1
        /\ turnQueue'.waiting[Len(turnQueue.waiting) + 1] = l
        /\ \A n \in 1..Len(turnQueue.waiting) : turnQueue'.waiting[n] = turnQueue.waiting[n]
    BY QueueIs
  <2> QED BY <2>1, LenProperties
<1>3. \A n \in 1..Len(turnQueue.waiting) : turnQueue.waiting[n] \in Waiting
  BY <1>1 DEF Waiting
<1>4. \A n \in DOMAIN turnQueue'.waiting : n \in 1..Len(turnQueue.waiting) \/ n = Len(turnQueue.waiting) + 1
  BY <1>1, <1>2
<1>5. \A m \in Waiting' : m \in Waiting \/ m = l
  BY <1>2, <1>3, <1>4 DEF Waiting
<1>6. ASSUME NEW m \in DOMAIN turnQueue'.waiting, NEW n \in DOMAIN turnQueue'.waiting, m < n
      PROVE  turnQueue'.waiting[m] < turnQueue'.waiting[n]
  <2>1. m \in 1..Len(turnQueue.waiting)
    BY <1>1, <1>2, <1>6
  <2>2. CASE n \in 1..Len(turnQueue.waiting)
    BY <1>1, <1>2, <1>6, <2>1, <2>2
  <2>3. CASE n = Len(turnQueue.waiting) + 1
    BY <1>2, <1>3, <2>1, <2>3
  <2> QED BY <1>4, <2>2, <2>3
<1> QED BY <1>5, <1>6

\* A line that enters comes after all that were there and before all that come.
LEMMA EntersInOrder ==
  ASSUME GateTypeOK, LinesInOrder, NEW l \in Line, Enters(l)
  PROVE  LinesInOrder'
<1>2. UNCHANGED <<gate, session, command, ran, upset>> /\ \A k \in Line \ {l} : line'[k] = line[k]
  BY EntersKeeps
<1>3. Began' = Began /\ RanInOrder'
  BY <1>2 DEF Began, RanInOrder, LinesInOrder
<1>4. AtWork' = AtWork
  BY <1>2, EntersKeeps DEF AtWork, Working, Admitted, Locking, Coming
<1>5. Coming' = Coming \ {l} /\ (l \in Coming => \A m \in Coming' : l < m)
  <2>1. Coming' = Coming \ {l}
    BY <1>2, EntersKeeps DEF Coming
  <2>2. l \in Coming => \A m \in Coming : l <= m
    BY DEF Enters, Coming, Locking
  <2> QED BY <2>1, <2>2 DEF Coming, Line
<1>6. l \in Coming \/ l \in Locking
  BY EntersKeeps
<1>7. \A m \in Began \cup AtWork \cup Waiting \cup Resolving : m < l
  BY <1>6 DEF LinesInOrder, Precede
<1>8. CASE line'[l].at \in {"refused", "dropped"}
  <2>1. Resolving' \subseteq Resolving /\ Locking' \subseteq Locking /\ Coming' \subseteq Coming
    BY <1>2, <1>8 DEF Resolving, Locking, Coming
  <2>2. turnQueue' = turnQueue
    BY <1>8, EntersKeeps
  <2> QED BY <1>2, <1>4, <2>1, <2>2, OrderShrinks
<1>9. CASE line'[l].at = "lock"
  <2>1. l \in Coming /\ turnQueue' = turnQueue
    BY <1>9, EntersKeeps
  <2>2. Resolving' \subseteq Resolving /\ Locking' = Locking \cup {l} /\ Waiting' = Waiting
    BY <1>2, <1>9, <2>1 DEF Resolving, Locking, Waiting
  <2> QED BY <1>3, <1>4, <1>5, <1>7, <2>1, <2>2 DEF LinesInOrder, Precede
<1>10. CASE line'[l].at \in {"resolve", "queued"}
  <2>1. /\ ~Locked /\ (l \in Coming => Locking = {}) /\ (l \in Locking => \A m \in Locking : l <= m)
    BY <1>10 DEF Enters, Coming, Locking
  <2>2. Resolving = {}
    BY <2>1 DEF Locked, Holder, Resolving
  <2>3. Locking' = Locking \ {l}
    BY <1>2, <1>10 DEF Locking
  <2>4. \A m \in Locking' \cup Coming' : l < m
    <3>1. ASSUME NEW m \in Locking' PROVE l < m
      BY <1>6, <2>1, <2>3 DEF Locking, Line
    <3>2. ASSUME NEW m \in Coming' PROVE l < m
      <4>1. CASE l \in Coming
        BY <1>5, <3>2, <4>1
      <4>2. CASE l \in Locking
        BY <1>5, <3>2, <4>2 DEF LinesInOrder, Precede
      <4> QED BY <1>6, <4>1, <4>2
    <3> QED BY <3>1, <3>2
  <2>5. CASE line'[l].at = "resolve"
    <3>1. Resolving' = {l}
      BY <1>2, <2>2, <2>5 DEF Resolving
    <3>2. turnQueue' = turnQueue
      BY <2>5, EntersKeeps
    <3>3. Waiting' = Waiting
      BY <3>2 DEF Waiting
    <3> QED BY <1>3, <1>4, <1>5, <1>7, <2>3, <2>4, <3>1, <3>2, <3>3 DEF LinesInOrder, Precede
  <2>6. CASE line'[l].at = "queued"
    <3>1. Resolving' = {}
      BY <1>2, <2>2, <2>6 DEF Resolving
    <3>2. QueueInput(l)
      BY <2>6 DEF Enters
    <3>3. /\ \A m \in Waiting' : m \in Waiting \/ m = l
          /\ \A m, n \in DOMAIN turnQueue'.waiting : m < n => turnQueue'.waiting[m] < turnQueue'.waiting[n]
      BY <1>7, <3>2, QueuedInOrder DEF LinesInOrder
    <3> QED BY <1>3, <1>4, <1>5, <1>7, <2>3, <2>4, <3>1, <3>3 DEF LinesInOrder, Precede
  <2> QED BY <1>10, <2>5, <2>6
<1> QED BY <1>8, <1>9, <1>10, EntersKeeps

\* A line that goes on steps over nobody.
LEMMA GoesInOrder ==
  ASSUME GateTypeOK, LinesInOrder, OneAtATime, NEW l \in Line, NEW p \in LinePlace, Goes(l, p)
  PROVE  LinesInOrder'
<1>1. line'[l].at = p /\ \A m \in Line \ {l} : line'[m] = line[m]
  BY GoesKeeps
<1>2. Locking' = Locking /\ Coming' = Coming
  <2>1. p # "lock" /\ p # "off" /\ line[l].at # "lock" /\ line[l].at # "off"
    BY GoesKeeps DEF Admitted, Working
  <2> QED BY <1>1, <2>1 DEF Locking, Coming
<1>3. ran' = ran \/ p = "ran"
  BY DEF Goes
<1>4. ran' = ran => Began' = Began /\ RanInOrder'
  BY DEF Began, RanInOrder, LinesInOrder
<1>5. p # "resolve" /\ Resolving' \subseteq Resolving
  <2>1. p # "resolve"
    BY DEF Goes, PastGate, Working
  <2> QED BY <1>1, <2>1 DEF Resolving
<1>6. CASE line[l].at = "resolve" /\ p \in {"queued", "keep"} /\ QueueInput(l)
  <2>1. AtWork' = AtWork
    BY <1>1, <1>6 DEF AtWork, Working
  <2>2. l \in Resolving /\ Resolving' = {}
    <3>1. l \in Holder /\ \A m \in Resolving : m \in Holder
      BY <1>6 DEF Holder, Resolving
    <3>2. Resolving = {l}
      BY <1>6, <3>1 DEF OneAtATime, Resolving
    <3> QED BY <1>1, <1>5, <3>2 DEF Resolving
  <2>3. /\ \A m \in Waiting' : m \in Waiting \/ m = l
        /\ \A m, n \in DOMAIN turnQueue'.waiting : m < n => turnQueue'.waiting[m] < turnQueue'.waiting[n]
    <3>1. \A m \in Waiting : m < l
      BY <2>2 DEF LinesInOrder, Precede
    <3> QED BY <1>6, <3>1, QueuedInOrder DEF LinesInOrder
  <2>4. ran' = ran
    BY <1>3, <1>6
  <2> QED BY <1>2, <1>4, <2>1, <2>2, <2>3, <2>4 DEF LinesInOrder, Precede
<1>7. CASE line[l].at = "queued" /\ p = "gate" /\ turnQueue.waiting # <<>> /\ turnQueue.current = 0
           /\ l = Head(turnQueue.waiting) /\ turnQueue' = [waiting |-> Tail(turnQueue.waiting), current |-> l]
  <2>1. AtWork' = {l}
    <3>1. \A m \in Line : line[m].at \notin Working
      BY <1>7 DEF OneAtATime, Line
    <3> QED BY <1>1, <1>7, <3>1 DEF AtWork, Working
  <2> DEFINE q == turnQueue.waiting
             t == Tail(turnQueue.waiting)
  <2>2. /\ Len(q) \in Nat \ {0} /\ DOMAIN q = 1..Len(q) /\ l = q[1] /\ DOMAIN t = 1..Len(q) - 1
        /\ \A n \in 1..Len(q) - 1 : t[n] = q[n + 1]
    <3>1. /\ t \in Seq(Line) /\ Len(t) = Len(q) - 1 /\ Len(q) \in Nat \ {0} /\ l = q[1]
          /\ \A n \in 1..Len(q) - 1 : t[n] = q[n + 1]
      BY <1>7, QueueIs
    <3>2. DOMAIN q = 1..Len(q) /\ DOMAIN t = 1..Len(t)
      BY <3>1, QueueIs, LenProperties
    <3> QED BY <3>1, <3>2
  <2>3. \A m, n \in DOMAIN q : m < n => q[m] < q[n]
    BY DEF LinesInOrder
  <2>4. turnQueue'.waiting = t /\ Waiting = {q[n] : n \in DOMAIN q} /\ Waiting' = {t[n] : n \in DOMAIN t}
    BY <1>7 DEF Waiting
  <2> HIDE DEF q, t
  <2>5. l \in Waiting /\ \A n \in DOMAIN t : n + 1 \in DOMAIN q /\ 1 \in DOMAIN q /\ 1 < n + 1
    BY <2>2, <2>4
  <2>6. \A m \in Waiting' : m \in Waiting /\ l < m
    <3>1. ASSUME NEW n \in DOMAIN t PROVE t[n] \in Waiting /\ l < t[n]
      BY <2>2, <2>3, <2>4, <2>5
    <3> QED BY <2>4, <3>1
  <2>7. \A m, n \in DOMAIN t : m < n => t[m] < t[n]
    <3>1. ASSUME NEW m \in DOMAIN t, NEW n \in DOMAIN t, m < n PROVE t[m] < t[n]
      <4>1. m + 1 < n + 1 /\ t[m] = q[m + 1] /\ t[n] = q[n + 1]
        BY <2>2, <3>1
      <4> QED BY <2>3, <2>5, <4>1
    <3> QED BY <3>1
  <2>8. ran' = ran
    BY <1>3, <1>7
  <2> QED BY <1>2, <1>4, <1>5, <2>1, <2>4, <2>5, <2>6, <2>7, <2>8 DEF LinesInOrder, Precede
<1>8. CASE p = "ran"
  <2> DEFINE r == [line |-> l, conv |-> session.conv, untitled |-> session.fresh]
  <2>1. ran' = Append(ran, r) /\ line[l].at = "prepare" /\ turnQueue'.waiting = turnQueue.waiting
    <3>1. "ran" \notin PastGate /\ DOMAIN turnQueue = {"waiting", "current"}
      BY DEF PastGate, Working, GateTypeOK
    <3> QED BY <1>8, <3>1 DEF Goes
  <2>2. r \in [line : Line, conv : Nat, untitled : BOOLEAN] /\ r.line = l
    BY DEF GateTypeOK
  <2> HIDE DEF r
  <2>3. /\ DOMAIN ran = 1..Len(ran) /\ Len(ran) \in Nat /\ DOMAIN ran' = 1..Len(ran) + 1 /\ Len(ran') = Len(ran) + 1
        /\ ran'[Len(ran) + 1] = r /\ \A n \in 1..Len(ran) : ran'[n] = ran[n]
    <3>1. ran \in Seq([line : Line, conv : Nat, untitled : BOOLEAN])
      BY DEF GateTypeOK
    <3>2. /\ ran' \in Seq([line : Line, conv : Nat, untitled : BOOLEAN]) /\ Len(ran') = Len(ran) + 1
          /\ ran'[Len(ran) + 1] = r /\ \A n \in 1..Len(ran) : ran'[n] = ran[n]
      BY <2>1, <2>2, <3>1, AppendProperties
    <3> QED BY <3>1, <3>2, LenProperties
  <2>4. l \in AtWork /\ AtWork' = {}
    <3>1. \A m \in Line : line[m].at \in Working => m = l
      BY <2>1 DEF OneAtATime, Working
    <3> QED BY <1>1, <1>8, <2>1, <3>1 DEF AtWork, Working
  <2>5. \A n \in 1..Len(ran) : ran[n].line < l /\ ran[n].line \in Began
    <3>1. \A n \in 1..Len(ran) : ran[n].line \in Began
      BY <2>3 DEF Began
    <3> QED BY <2>4, <3>1 DEF LinesInOrder, Precede
  <2>6. RanInOrder'
    <3>1. ASSUME NEW n \in 2..Len(ran') PROVE ran'[n - 1].line < ran'[n].line
      <4>1. CASE n \in 2..Len(ran)
        <5>1. n - 1 \in 1..Len(ran) /\ n \in 1..Len(ran)
          BY <2>3, <4>1
        <5>2. ran[n - 1].line < ran[n].line
          BY <4>1 DEF LinesInOrder, RanInOrder
        <5> QED BY <2>3, <5>1, <5>2
      <4>2. CASE n = Len(ran) + 1
        <5>1. n - 1 \in 1..Len(ran) /\ n - 1 = Len(ran)
          BY <2>3, <3>1, <4>2
        <5>2. ran'[n].line = l
          BY <2>2, <2>3, <4>2
        <5>3. ran'[n - 1] = ran[n - 1] /\ ran[n - 1].line < l
          BY <2>3, <2>5, <5>1
        <5> QED BY <5>2, <5>3
      <4> QED BY <2>3, <4>1, <4>2
    <3> QED BY <3>1 DEF RanInOrder
  <2>7. \A b \in Began' : b \in Began \/ b = l
    <3>1. \A n \in DOMAIN ran' : ran'[n].line \in Began \/ ran'[n].line = l
      <4>1. \A n \in DOMAIN ran' : n \in 1..Len(ran) \/ n = Len(ran) + 1
        BY <2>3
      <4> QED BY <2>2, <2>3, <2>5, <4>1
    <3> QED BY <3>1 DEF Began
  <2>8. Waiting' = Waiting
    BY <2>1 DEF Waiting
  <2> QED BY <1>2, <1>5, <2>1, <2>4, <2>6, <2>7, <2>8 DEF LinesInOrder, Precede
<1>9. CASE p \notin {"queued", "gate", "ran"} /\ turnQueue'.waiting = turnQueue.waiting
  <2>1. AtWork' \subseteq AtWork
    <3>1. line'[l].at \in Working => line[l].at \in Working
      BY <1>1, <1>9 DEF Goes, PastGate, Working
    <3> QED BY <1>1, <3>1 DEF AtWork
  <2>2. ran' = ran
    BY <1>3, <1>9
  <2> QED BY <1>2, <1>5, <1>9, <2>1, <2>2, OrderShrinks
<1>10. CASE line[l].at = "keep" /\ p = "queued" /\ UNCHANGED turnQueue
  <2>1. AtWork' \subseteq AtWork
    BY <1>1, <1>10 DEF AtWork, Working
  <2>2. ran' = ran
    BY <1>3, <1>10
  <2> QED BY <1>2, <1>5, <1>10, <2>1, <2>2, OrderShrinks
<1>11. "gate" \notin PastGate /\ "queued" \notin PastGate /\ DOMAIN turnQueue = {"waiting", "current"}
  BY DEF PastGate, Working, GateTypeOK
<1> QED BY <1>6, <1>7, <1>8, <1>9, <1>10, <1>11 DEF Goes

\* Lines go through the queue in the order in which they were typed.
LEMMA LinesInOrderStep ==
  ASSUME GateTypeOK, GateCounts, LinesInOrder, OneAtATime, [GateNext]_gateVars
  PROVE  LinesInOrder'
<1>1. CASE TakeLine
  BY <1>1, TakeLineGoes, GoesInOrder DEF LinePlace, Working
<1>2. ASSUME NEW l \in Line, GoesOn(l) PROVE LinesInOrder'
  BY <1>2, GoesOnGoes, GoesInOrder
<1>3. CASE StopLines
  <2>1. AtWork' \subseteq AtWork /\ Resolving' \subseteq Resolving /\ Locking' \subseteq Locking /\ Coming' \subseteq Coming
    BY <1>3, StopDrops DEF AtWork, Resolving, Locking, Coming, Working
  <2> QED BY <1>3, <2>1, StopDrops, OrderShrinks
<1>4. ASSUME UNCHANGED <<line, turnQueue, ran>> PROVE LinesInOrder'
  <2>1. AtWork' \subseteq AtWork /\ Resolving' \subseteq Resolving /\ Locking' \subseteq Locking /\ Coming' \subseteq Coming
    BY <1>4 DEF AtWork, Resolving, Locking, Coming
  <2> QED BY <1>4, <2>1, OrderShrinks
<1>5. CASE Resume \/ Resumed \/ UNCHANGED gateVars
  BY <1>4, <1>5, RestLeaves
<1>6. CASE Ask
  BY <1>4, <1>6, AskGoes
<1>7. ASSUME NEW c \in Command, CommandStep(c) PROVE LinesInOrder'
  <2>1. AtWork' \subseteq AtWork /\ Resolving' \subseteq Resolving /\ Locking' \subseteq Locking /\ Coming' \subseteq Coming
    BY <1>7, CommandDrops DEF AtWork, Resolving, Locking, Coming, Working
  <2> QED BY <1>7, <2>1, CommandDrops, OrderShrinks
<1> QED BY <1>1, <1>2, <1>3, <1>5, <1>6, <1>7, StepsOfGate, EntersInOrder

\* One line is prepared at a time, one is resolved beside a pause, and what
\* waits is queued or being kept.
LEMMA OneAtATimeStep ==
  ASSUME GateTypeOK, GateCounts, LinesInOrder, OneAtATime, [GateNext]_gateVars
  PROVE  OneAtATime'
<1> DEFINE q == turnQueue.waiting
           Queued(s, f) == \A n \in DOMAIN s : f[s[n]].at \in {"queued", "keep"}
           Current(k, f) == \A l \in Line : f[l].at \in Working <=> l = k
<1>1. Queued(q, line) /\ Current(turnQueue.current, line) /\ \A l, m \in Holder : l = m
  BY DEF OneAtATime
<1>2. /\ Len(q) \in Nat /\ DOMAIN q = 1..Len(q) /\ \A n \in DOMAIN q : q[n] \in Line
      /\ DOMAIN turnQueue = {"waiting", "current"} /\ turnQueue.current \in Line \cup {0}
  BY QueueIs DEF GateTypeOK
<1>3. ASSUME NEW l \in Line, QueueInput(l)
      PROVE  /\ turnQueue'.current = turnQueue.current
             /\ DOMAIN turnQueue'.waiting = 1..Len(q) + 1 /\ turnQueue'.waiting[Len(q) + 1] = l
             /\ \A n \in 1..Len(q) : turnQueue'.waiting[n] = q[n]
  <2>1. /\ turnQueue'.waiting \in Seq(Line) /\ turnQueue'.current = turnQueue.current
        /\ Len(turnQueue'.waiting) = Len(q) + 1 /\ turnQueue'.waiting[Len(q) + 1] = l
        /\ \A n \in 1..Len(q) : turnQueue'.waiting[n] = q[n]
    BY <1>3, QueueIs
  <2> QED BY <2>1, LenProperties
<1> SUFFICES Queued(turnQueue'.waiting, line') /\ Current(turnQueue'.current, line') /\ \A l, m \in Holder' : l = m
  BY DEF OneAtATime
<1> HIDE DEF q
\* A line that is elsewhere than the queue moves to where it is neither prepared nor resolved.
<1>4. ASSUME NEW l \in Line, \A m \in Line \ {l} : line'[m] = line[m],
             turnQueue'.waiting = q \/ QueueInput(l),
             (\E n \in DOMAIN turnQueue'.waiting : turnQueue'.waiting[n] = l) => line'[l].at \in {"queued", "keep"}
      PROVE  Queued(turnQueue'.waiting, line')
  <2>1. CASE turnQueue'.waiting = q
    BY <1>1, <1>2, <1>4, <2>1
  <2>2. CASE QueueInput(l)
    <3>1. ASSUME NEW n \in DOMAIN turnQueue'.waiting PROVE line'[turnQueue'.waiting[n]].at \in {"queued", "keep"}
      <4>1. n \in 1..Len(q) \/ n = Len(q) + 1
        BY <1>2, <1>3, <2>2
      <4>2. CASE turnQueue'.waiting[n] = l
        BY <1>4, <4>2
      <4>3. CASE turnQueue'.waiting[n] # l
        <5>1. n \in DOMAIN q /\ turnQueue'.waiting[n] = q[n] /\ q[n] \in Line
          BY <1>2, <1>3, <2>2, <4>1, <4>3
        <5> QED BY <1>1, <1>4, <4>3, <5>1
      <4> QED BY <4>2, <4>3
    <3> QED BY <3>1
  <2> QED BY <1>4, <2>1, <2>2
<1>5. ASSUME NEW l \in Line, line[l].at \notin {"queued", "keep"} PROVE \A n \in DOMAIN q : q[n] # l
  BY <1>1, <1>5
<1>6. ASSUME NEW l \in Line, Enters(l)
      PROVE  Queued(turnQueue'.waiting, line') /\ Current(turnQueue'.current, line') /\ \A k, m \in Holder' : k = m
  <2>1. /\ \A m \in Line \ {l} : line'[m] = line[m]
        /\ line'[l].at \in {"refused", "dropped", "lock", "resolve", "queued"} /\ line[l].at \in {"off", "lock"}
        /\ UNCHANGED turnQueue \/ (line'[l].at = "queued" /\ QueueInput(l))
    BY <1>6, EntersKeeps DEF Coming, Locking
  <2>2. Queued(turnQueue'.waiting, line')
    <3>1. UNCHANGED turnQueue => \A n \in DOMAIN turnQueue'.waiting : turnQueue'.waiting[n] # l
      BY <1>5, <2>1 DEF q
    <3>2. turnQueue'.waiting = q \/ QueueInput(l)
      BY <2>1 DEF q
    <3> QED BY <1>4, <2>1, <3>1, <3>2
  <2>3. turnQueue'.current = turnQueue.current
    BY <1>3, <2>1
  <2>4. Current(turnQueue'.current, line')
    <3>1. line[l].at \notin Working /\ line'[l].at \notin Working
      BY <2>1 DEF Working
    <3> QED BY <1>1, <2>1, <2>3, <3>1
  <2>5. \A k, m \in Holder' : k = m
    <3>1. line'[l].at = "resolve" => Holder = {}
      BY <1>6 DEF Enters, Locked
    <3>2. l \notin Holder /\ (l \in Holder' => line'[l].at = "resolve")
      BY <2>1 DEF Holder
    <3>3. \A m \in Line \ {l} : m \in Holder' => m \in Holder
      BY <2>1 DEF Holder
    <3> QED BY <1>1, <3>1, <3>2, <3>3 DEF Holder
  <2> QED BY <2>2, <2>4, <2>5
<1>7. ASSUME NEW l \in Line, NEW p \in LinePlace, Goes(l, p)
      PROVE  Queued(turnQueue'.waiting, line') /\ Current(turnQueue'.current, line') /\ \A k, m \in Holder' : k = m
  <2>1. line'[l].at = p /\ \A m \in Line \ {l} : line'[m] = line[m]
    BY <1>7, GoesKeeps
  <2>2. \A k, m \in Holder' : k = m
    <3>1. p \in {"resolve", "keep"} => line[l].at = "resolve"
      BY <1>7 DEF Goes, PastGate, Working
    <3>2. \A m \in Line : m \in Holder' => m \in Holder
      BY <2>1, <3>1 DEF Holder
    <3> QED BY <1>1, <3>2 DEF Holder
  <2>3. CASE line[l].at \in {"resolve", "keep"}
    <3>1. /\ p \in {"queued", "keep", "dropped", "refused"}
          /\ turnQueue' = turnQueue \/ QueueInput(l)
          /\ p \in {"dropped", "refused"} => turnQueue' = turnQueue /\ \A n \in DOMAIN q : q[n] # l
      <4>1. InWaiting(l) <=> \E n \in DOMAIN q : q[n] = l
        BY DEF InWaiting, q
      <4> QED BY <1>5, <1>7, <2>3, <4>1 DEF Goes, Working
    <3>2. Queued(turnQueue'.waiting, line')
      <4>1. turnQueue'.waiting = q \/ QueueInput(l)
        BY <3>1 DEF q
      <4>2. p \in {"dropped", "refused"} => turnQueue'.waiting = q
        BY <3>1 DEF q
      <4> QED BY <1>4, <2>1, <3>1, <4>1, <4>2
    <3>3. turnQueue'.current = turnQueue.current /\ line[l].at \notin Working /\ line'[l].at \notin Working
      BY <1>3, <2>1, <2>3, <3>1 DEF Working
    <3>4. Current(turnQueue'.current, line')
      BY <1>1, <2>1, <3>3
    <3> QED BY <2>2, <3>2, <3>4
  <2>4. CASE line[l].at = "queued"
    <3>1. /\ p = "gate" /\ q # <<>> /\ turnQueue.current = 0 /\ l = Head(q)
          /\ turnQueue'.waiting = Tail(q) /\ turnQueue'.current = l
      BY <1>7, <2>4 DEF Goes, Working, q
    <3>2. Current(turnQueue'.current, line')
      <4>1. \A m \in Line : line[m].at \notin Working
        BY <1>1, <3>1 DEF Line
      <4> QED BY <2>1, <3>1, <4>1 DEF Working
    <3>3. /\ l = q[1] /\ DOMAIN Tail(q) = 1..Len(q) - 1
          /\ \A n \in 1..Len(q) - 1 : Tail(q)[n] = q[n + 1]
      <4>1. /\ Tail(q) \in Seq(Line) /\ Len(Tail(q)) = Len(q) - 1 /\ l = q[1]
            /\ \A n \in 1..Len(q) - 1 : Tail(q)[n] = q[n + 1]
        BY <3>1, QueueIs DEF q
      <4> QED BY <4>1, LenProperties
    <3>4. \A m, n \in DOMAIN q : m < n => q[m] < q[n]
      BY DEF LinesInOrder, q
    <3>5. ASSUME NEW n \in DOMAIN Tail(q) PROVE line'[Tail(q)[n]].at \in {"queued", "keep"}
      <4>1. n + 1 \in DOMAIN q /\ 1 \in DOMAIN q /\ 1 < n + 1 /\ Tail(q)[n] = q[n + 1]
        BY <1>2, <3>3, <3>5
      <4>2. q[1] < q[n + 1]
        BY <3>4, <4>1
      <4>3. q[n + 1] \in Line /\ q[n + 1] # l
        BY <1>2, <3>3, <4>1, <4>2 DEF Line
      <4> QED BY <1>1, <2>1, <4>1, <4>3
    <3> QED BY <2>2, <3>1, <3>2, <3>5
  <2>5. CASE line[l].at \in Working
    <3>1. /\ turnQueue'.waiting = q
          /\ \/ p \in Working /\ turnQueue'.current = turnQueue.current
             \/ p \notin Working /\ turnQueue'.current = 0
      <4>1. "resolve" \notin Working /\ "keep" \notin Working /\ "queued" \notin Working
        BY DEF Working
      <4>2. \/ p \in PastGate /\ UNCHANGED turnQueue
            \/ p \in {"dropped", "refused", "ran"} /\ turnQueue' = [turnQueue EXCEPT !.current = 0]
        BY <1>7, <2>5, <4>1 DEF Goes
      <4>3. \A r \in {"dropped", "refused", "ran"} : r \notin Working
        BY DEF Working
      <4> QED BY <1>2, <4>2, <4>3 DEF PastGate, q
    <3>2. \A n \in DOMAIN q : q[n] # l
      BY <1>5, <2>5 DEF Working
    <3>3. Queued(turnQueue'.waiting, line')
      BY <1>4, <2>1, <3>1, <3>2
    <3>4. Current(turnQueue'.current, line')
      <4>1. l = turnQueue.current /\ \A m \in Line \ {l} : line'[m].at \notin Working
        BY <1>1, <2>1, <2>5
      <4>2. 0 \notin Line
        BY DEF Line
      <4> QED BY <2>1, <3>1, <4>1, <4>2
    <3> QED BY <2>2, <3>3, <3>4
  <2> QED BY <1>7, <2>3, <2>4, <2>5, GoesKeeps DEF Admitted
<1>8. CASE TakeLine
  BY <1>7, <1>8, TakeLineGoes DEF LinePlace, Working
<1>9. ASSUME NEW l \in Line, GoesOn(l)
      PROVE  Queued(turnQueue'.waiting, line') /\ Current(turnQueue'.current, line') /\ \A k, m \in Holder' : k = m
  BY <1>7, <1>9, GoesOnGoes
<1>10. CASE StopLines
  <2>1. /\ turnQueue'.waiting = q /\ turnQueue'.current = 0
        /\ \A m \in Line : IF line[m].at \in {"resolve"} \cup Working THEN line'[m].at = "dropped" ELSE line'[m] = line[m]
    BY <1>10, StopDrops DEF q
  <2>2. Queued(turnQueue'.waiting, line')
    BY <1>1, <1>2, <2>1 DEF Working
  <2>3. Current(turnQueue'.current, line')
    BY <2>1 DEF Working, Line
  <2>4. \A m \in Line : m \in Holder' => m \in Holder
    BY <2>1 DEF Holder
  <2> QED BY <1>1, <2>2, <2>3, <2>4 DEF Holder
<1>11. ASSUME UNCHANGED <<line, turnQueue>>
       PROVE  Queued(turnQueue'.waiting, line') /\ Current(turnQueue'.current, line') /\ \A k, m \in Holder' : k = m
  BY <1>1, <1>11 DEF Holder, q
<1>12. CASE Resume \/ Resumed \/ UNCHANGED gateVars
  BY <1>11, <1>12, RestLeaves
<1>13. CASE Ask
  BY <1>11, <1>13, AskGoes
<1>14. ASSUME NEW c \in Command, CommandStep(c)
       PROVE  Queued(turnQueue'.waiting, line') /\ Current(turnQueue'.current, line') /\ \A k, m \in Holder' : k = m
  <2>1. \A m \in Line : m \in Holder' => m \in Holder
    BY <1>14, CommandDrops DEF Holder
  <2>2. Queued(turnQueue'.waiting, line')
    <3>1. CASE turnQueue'.waiting = <<>>
      BY <3>1
    <3>2. CASE turnQueue'.waiting # <<>>
      <4>1. turnQueue'.waiting = q /\ ~(Discard(c) \/ Install(c))
        <5>1. Discard(c) => turnQueue' = [waiting |-> <<>>, current |-> 0]
          BY <1>14, QueueMoves
        <5>2. Install(c) => turnQueue' = [turnQueue EXCEPT !.waiting = <<>>]
          BY <1>14, QueueMoves
        <5> QED BY <1>2, <1>14, <3>2, <5>1, <5>2, CommandDrops DEF q
      <4>2. line' = line
        BY <1>14, <4>1, QueueMoves
      <4> QED BY <1>1, <4>1, <4>2
    <3> QED BY <3>1, <3>2
  <2>3. Current(turnQueue'.current, line')
    <3>1. CASE Discard(c)
      <4>1. line' = Dropped({"queued", "resolve"} \cup Working) /\ turnQueue' = [waiting |-> <<>>, current |-> 0]
        BY <1>14, <3>1, QueueMoves
      <4>2. turnQueue'.current = 0 /\ \A m \in Line : line'[m].at \notin Working
        <5>1. ({"queued", "resolve"} \cup Working) \in SUBSET LinePlace
          BY DEF LinePlace
        <5> QED BY <4>1, <5>1, DroppedIs DEF Working
      <4> QED BY <4>2 DEF Line
    <3>2. CASE Install(c)
      <4>1. line' = Dropped({"queued", "resolve"}) /\ turnQueue' = [turnQueue EXCEPT !.waiting = <<>>]
        BY <1>14, <3>2, QueueMoves
      <4>2. turnQueue'.current = turnQueue.current /\ \A m \in Line : line'[m].at \in Working <=> line[m].at \in Working
        <5>1. {"queued", "resolve"} \in SUBSET LinePlace
          BY DEF LinePlace
        <5> QED BY <1>2, <4>1, <5>1, DroppedIs DEF Working
      <4> QED BY <1>1, <4>2
    <3>3. CASE ~(Discard(c) \/ Install(c))
      <4>1. line' = line /\ turnQueue'.current = turnQueue.current
        BY <1>2, <1>14, <3>3, QueueMoves
      <4> QED BY <1>1, <4>1
    <3> QED BY <3>1, <3>2, <3>3
  <2> QED BY <1>1, <2>1, <2>2, <2>3 DEF Holder
<1> QED BY <1>6, <1>8, <1>9, <1>10, <1>12, <1>13, <1>14, StepsOfGate

\* Nobody is past the gate while a conversation is discarded, chosen or installed.
LEMMA NonePastTheGateStep ==
  ASSUME GateTypeOK, GateCounts, OneAtATime, NonePastTheGate, [GateNext]_gateVars
  PROVE  NonePastTheGate'
<1> DEFINE Switching == \E c \in Command : command[c].at \notin Idle \cup {"reset"}
           Past(l) == line[l].at \in PastGate
<1>1. Switching => \A l \in Line : ~Past(l)
  BY DEF NonePastTheGate
<1>2. gate.open => ~Switching
  BY OpenWhenIdle
<1> SUFFICES Switching' => \A l \in Line : ~Past(l)'
  BY DEF NonePastTheGate
<1>3. ASSUME NEW l \in Line, Enters(l) PROVE Switching' => \A m \in Line : ~Past(m)'
  <2>1. UNCHANGED command /\ ~Past(l)' /\ \A m \in Line \ {l} : line'[m] = line[m]
    BY <1>3, EntersKeeps DEF PastGate, Working
  <2> QED BY <1>1, <2>1
<1>4. ASSUME NEW l \in Line, NEW p \in LinePlace, Goes(l, p) PROVE Switching' => \A m \in Line : ~Past(m)'
  <2>1. line'[l].at = p /\ UNCHANGED command /\ \A m \in Line \ {l} : line'[m] = line[m]
    BY <1>4, GoesKeeps
  <2>2. Past(l)' => Past(l) \/ gate.open
    BY <1>4, <2>1 DEF Goes, PastGate, Working
  <2> QED BY <1>1, <1>2, <2>1, <2>2
<1>5. CASE TakeLine
  BY <1>4, <1>5, TakeLineGoes DEF LinePlace, Working
<1>6. ASSUME NEW l \in Line, GoesOn(l) PROVE Switching' => \A m \in Line : ~Past(m)'
  BY <1>4, <1>6, GoesOnGoes
<1>7. CASE StopLines
  <2>1. UNCHANGED command /\ \A m \in Line : ~Past(m)'
    BY <1>7, StopDrops DEF PastGate, Working
  <2> QED BY <2>1
<1>8. CASE Resume \/ Resumed \/ UNCHANGED gateVars
  BY <1>1, <1>8, RestLeaves
<1>9. CASE Ask
  <2>1. UNCHANGED line /\ (Switching' => Switching)
    BY <1>9, AskGoes DEF Idle
  <2> QED BY <1>1, <2>1
<1>10. ASSUME NEW c \in Command, CommandStep(c) PROVE Switching' => \A m \in Line : ~Past(m)'
  <2>1. \A m \in Line : Past(m)' => Past(m)
    BY <1>10, CommandDrops DEF PastGate, Working
  <2>2. CASE Switching
    BY <1>1, <2>1, <2>2
  <2>3. CASE ~Switching /\ Switching'
    <3>1. command'[c].at \notin Idle \cup {"reset"} /\ command[c].at \in Idle \cup {"reset"}
      BY <1>10, <2>3, CommandGoes
    <3>2. \/ Discard(c) \/ (Begin(c) /\ ~HasTurn)
      BY <1>10, <3>1, CommandGoes, CommandExclusive DEF CommandStep, Idle
    <3>3. CASE Discard(c)
      <4>1. line' = Dropped({"queued", "resolve"} \cup Working)
        BY <1>10, <3>3, QueueMoves
      <4>2. ({"queued", "resolve"} \cup Working) \in SUBSET LinePlace
        BY DEF LinePlace
      <4> QED BY <4>1, <4>2, DroppedIs DEF PastGate, Working
    <3>4. CASE Begin(c) /\ ~HasTurn
      <4>1. \A m \in Line : line[m].at \notin Working
        BY <3>4 DEF HasTurn, OneAtATime, Line
      <4> QED BY <2>1, <4>1 DEF PastGate
    <3> QED BY <3>2, <3>3, <3>4
  <2> QED BY <2>2, <2>3
<1> QED BY <1>3, <1>5, <1>6, <1>7, <1>8, <1>9, <1>10, StepsOfGate

\* Unless two commands overlap, at most one is at work.
LEMMA OneCommandStep ==
  ASSUME GateTypeOK, GateCounts, OneCommand, [GateNext]_gateVars
  PROVE  OneCommand'
<1>1. ASSUME UNCHANGED command, upset.overlap => upset'.overlap PROVE OneCommand'
  BY <1>1 DEF OneCommand
<1>2. ASSUME NEW l \in Line, Enters(l) PROVE OneCommand'
  BY <1>1, <1>2, EntersKeeps
<1>3. ASSUME NEW l \in Line, NEW p \in LinePlace, Goes(l, p) PROVE OneCommand'
  BY <1>1, <1>3 DEF Goes
<1>4. CASE TakeLine
  BY <1>3, <1>4, TakeLineGoes DEF LinePlace, Working
<1>5. ASSUME NEW l \in Line, GoesOn(l) PROVE OneCommand'
  BY <1>3, <1>5, GoesOnGoes
<1>6. CASE StopLines
  BY <1>1, <1>6, StopDrops
<1>7. CASE Resume \/ Resumed \/ UNCHANGED gateVars
  BY <1>1, <1>7, RestLeaves
<1>8. CASE Ask
  <2>1. UNCHANGED upset /\ \A c \in Command : command'[c].at \notin Idle => command[c].at \notin Idle
    BY <1>8, AskGoes DEF Idle
  <2> QED BY <2>1 DEF OneCommand
<1>9. ASSUME NEW c \in Command, CommandStep(c) PROVE OneCommand'
  <2>1. \A d \in Command \ {c} : command'[d] = command[d]
    BY <1>9, CommandGoes
  <2>2. upset.overlap => upset'.overlap
    BY <1>9, UpsetMoves
  <2>3. CASE Begin(c)
    <3>1. ~upset'.overlap => \A d \in Command \ {c} : command[d].at \in Idle
      BY <1>9, <2>3, UpsetMoves DEF Overlapping, Idle
    <3> QED BY <2>1, <3>1 DEF OneCommand
  <2>4. CASE ~Begin(c)
    <3>1. command[c].at \notin Idle
      BY <1>9, <2>4, CommandExclusive DEF CommandStep, Idle
    <3> QED BY <2>1, <2>2, <3>1 DEF OneCommand
  <2> QED BY <2>3, <2>4
<1> QED BY <1>2, <1>4, <1>5, <1>6, <1>7, <1>8, <1>9, StepsOfGate

\* What a command that is over says of the next input.
LEMMA FirstMoves ==
  ASSUME GateTypeOK, NEW c \in Command, CommandStep(c)
  PROVE  /\ Begin(c) \/ Restore(c) => session' = session
         /\ Pick(c) => IF command[c].what = "cd"
                       THEN session'.first \/ upset'.failed \/ (session' = session /\ command'[c].at \in {"restore", "renew"})
                       ELSE session'.first = session.first
         /\ Fails(c) => IF command[c].what = "cd" /\ command[c].at \in {"restore", "bind"} THEN session'.first
                        ELSE session'.first = session.first
         /\ Fails(c) /\ command[c].what = "cd" /\ command[c].at \in {"renew", "discard2"} => upset'.failed
         /\ Released(c) => ~session'.first
<1>1. /\ session \in [gen : Nat, conv : Nat, paused : BOOLEAN, resuming : Nat, first : BOOLEAN, fresh : BOOLEAN]
      /\ upset \in [stops : Nat, overlap : BOOLEAN, failed : BOOLEAN, renamed : BOOLEAN]
  BY DEF GateTypeOK
<1>2. ASSUME NEW f \in {"same", "first", "later"}, End(c, f)
      PROVE  session'.first = IF f = "same" THEN session.first ELSE f = "first"
  BY <1>1, <1>2 DEF End
<1>3. Pick(c) => IF command[c].what = "cd"
                 THEN session'.first \/ upset'.failed \/ (session' = session /\ command'[c].at \in {"restore", "renew"})
                 ELSE session'.first = session.first
  <2>1. SUFFICES ASSUME Pick(c) PROVE IF command[c].what = "cd"
                 THEN session'.first \/ upset'.failed \/ (session' = session /\ command'[c].at \in {"restore", "renew"})
                 ELSE session'.first = session.first
    OBVIOUS
  <2>2. \/ End(c, IF command[c].what = "cd" THEN "first" ELSE "same")
        \/ End(c, "same") /\ upset' = [upset EXCEPT !.failed = @ \/ command[c].what = "cd"]
        \/ session' = session /\ \E next \in {"restore", "renew"} : command' = In(c, next)
    BY <2>1 DEF Pick
  <2>3. CASE End(c, IF command[c].what = "cd" THEN "first" ELSE "same")
    BY <1>2, <2>3
  <2>4. CASE End(c, "same") /\ upset' = [upset EXCEPT !.failed = @ \/ command[c].what = "cd"]
    BY <1>1, <1>2, <2>4
  <2>5. CASE session' = session /\ \E next \in {"restore", "renew"} : command' = In(c, next)
    <3>1. ASSUME NEW p \in {"restore", "renew"}, command' = In(c, p) PROVE command'[c].at = p
      <4>1. In(c, p)[c] = [what |-> command[c].what, at |-> p, gen |-> command[c].gen]
        BY CommandPlaces DEF CommandPlace
      <4> QED BY <3>1, <4>1
    <3> QED BY <2>5, <3>1
  <2> QED BY <2>2, <2>3, <2>4, <2>5
<1>4. Fails(c) => IF command[c].what = "cd" /\ command[c].at \in {"restore", "bind"} THEN session'.first
                  ELSE session'.first = session.first
  BY <1>2 DEF Fails
<1>5. Fails(c) /\ command[c].what = "cd" /\ command[c].at \in {"renew", "discard2"} => upset'.failed
  BY <1>1 DEF Fails
<1>6. Released(c) => ~session'.first
  BY <1>2 DEF Released
<1>7. Begin(c) \/ Restore(c) => session' = session
  BY DEF Begin, Restore
<1> QED BY <1>3, <1>4, <1>5, <1>6, <1>7

\* The title of a conversation is made by its first input, and by no other.
LEMMA FirstIsFreshStep ==
  ASSUME GateTypeOK, GateCounts, OneAtATime, NonePastTheGate, OneCommand, FirstIsFresh, [GateNext]_gateVars
  PROVE  FirstIsFresh'
<1> DEFINE Naming == \E c \in Command : Choosing(command[c])
           Loaded == \E c \in Command : command[c].at = "release"
           Titles(f, x) == \A l \in Line : /\ f[l].at \in {"bind", "title", "save"} => x
                                           /\ f[l].at = "prepare" => ~x
           Told(r) == \A n \in DOMAIN r : ~r[n].untitled
<1> SUFFICES ASSUME ~upset'.overlap, ~upset'.failed
             PROVE  /\ (Naming => session.fresh)' /\ (~Naming => session.first = session.fresh)'
                    /\ (Loaded => ~session.fresh)' /\ Titles(line', session'.fresh)
                    /\ Told(ran') /\ ~upset'.renamed
  BY DEF FirstIsFresh
<1>1. ASSUME ~upset.overlap, ~upset.failed
      PROVE  /\ Naming => session.fresh
             /\ ~Naming => session.first = session.fresh
             /\ Loaded => ~session.fresh
             /\ Titles(line, session.fresh) /\ Told(ran) /\ ~upset.renamed
             /\ \A c, d \in Command : command[c].at \notin Idle /\ command[d].at \notin Idle => c = d
  BY <1>1 DEF FirstIsFresh, OneCommand
<1>2. ASSUME NEW l \in Line, line[l].at \in PastGate PROVE ~Naming /\ ~Loaded
  BY <1>2 DEF NonePastTheGate, Choosing, Idle
<1>3. /\ session \in [gen : Nat, conv : Nat, paused : BOOLEAN, resuming : Nat, first : BOOLEAN, fresh : BOOLEAN]
      /\ upset \in [stops : Nat, overlap : BOOLEAN, failed : BOOLEAN, renamed : BOOLEAN]
  BY DEF GateTypeOK
<1>4. ASSUME UNCHANGED <<command, ran>>, session'.first = session.first, session'.fresh = session.fresh,
             upset'.overlap = upset.overlap, upset'.failed = upset.failed, upset'.renamed = upset.renamed,
             \A l \in Line : line'[l].at \in {"bind", "title", "save", "prepare"} => line'[l] = line[l]
      PROVE  /\ (Naming => session.fresh)' /\ (~Naming => session.first = session.fresh)'
             /\ (Loaded => ~session.fresh)' /\ Titles(line', session'.fresh)
             /\ Told(ran') /\ ~upset'.renamed
  <2>1. ~upset.overlap /\ ~upset.failed
    BY <1>4
  <2> QED BY <1>1, <1>4, <2>1
<1>5. ASSUME NEW l \in Line, Enters(l)
      PROVE  /\ (Naming => session.fresh)' /\ (~Naming => session.first = session.fresh)'
             /\ (Loaded => ~session.fresh)' /\ Titles(line', session'.fresh)
             /\ Told(ran') /\ ~upset'.renamed
  <2>1. \A m \in Line : line'[m].at \in {"bind", "title", "save", "prepare"} => line'[m] = line[m]
    BY <1>5, EntersKeeps
  <2> QED BY <1>4, <1>5, <2>1, EntersKeeps
<1>6. CASE TakeLine
  <2>1. PICK l \in Line : Goes(l, "gate") /\ UNCHANGED <<session, ran, upset>>
    BY <1>6, TakeLineGoes
  <2>2. UNCHANGED command /\ \A m \in Line : line'[m].at \in {"bind", "title", "save", "prepare"} => line'[m] = line[m]
    BY <2>1, GoesKeeps DEF LinePlace, Working
  <2> QED BY <1>4, <2>1, <2>2
<1>7. ASSUME NEW l \in Line, GoesOn(l)
      PROVE  /\ (Naming => session.fresh)' /\ (~Naming => session.first = session.fresh)'
             /\ (Loaded => ~session.fresh)' /\ Titles(line', session'.fresh)
             /\ Told(ran') /\ ~upset'.renamed
  <2>1. PICK p \in LinePlace : Goes(l, p)
    BY <1>7, GoesOnGoes
  <2>2. /\ line'[l].at = p /\ (\A m \in Line \ {l} : line'[m] = line[m]) /\ UNCHANGED command
        /\ ~upset.overlap /\ ~upset.failed
    BY <2>1, GoesKeeps DEF Goes
  <2>3. CASE p \notin {"bind", "title", "save", "prepare", "ran"}
    <3>1. \A m \in Line : line'[m].at \in {"bind", "title", "save", "prepare"} => line'[m] = line[m]
      BY <2>2, <2>3
    <3>2. ~Named(l) /\ (StartLine(l) => ~Accepts(line[l]))
      <4>1. \A to \in {"prepare", "ran"} : line' = Placed(l, to) => line'[l].at = to
        BY PlacedIs DEF LinePlace, Working
      <4> QED BY <2>2, <2>3, <4>1 DEF Named, StartLine, Go, Leaves
    <3>3. UNCHANGED <<session, ran, upset>>
      BY <1>7, <3>2 DEF GoesOn, Resolved, Kept, PrepareTurn, StartLine
    <3> QED BY <1>4, <2>2, <3>1, <3>3
  <2>4. CASE p \in {"bind", "title", "save", "prepare"} /\ ~Named(l)
    <3>1. line[l].at \in Working /\ turnQueue' = turnQueue
      BY <2>1, <2>4 DEF Goes, PastGate, Working
    <3>2. PrepareTurn(l)
      <4>1. ~Resolved(l) /\ ~Kept(l)
        BY <3>1 DEF Resolved, Kept, Working
      <4>2. ~StartLine(l)
        <5>1. \A to \in {"dropped", "ran"} : line' = Placed(l, to) => line'[l].at = to
          BY PlacedIs DEF LinePlace, Working
        <5> QED BY <2>2, <2>4, <5>1 DEF StartLine, Leaves
      <4> QED BY <1>7, <2>4, <4>1, <4>2 DEF GoesOn
    <3>3. UNCHANGED <<session, ran, upset>>
      BY <3>2 DEF PrepareTurn
    <3>4. /\ p \in {"bind", "prepare"} => line[l].at = "refs" /\ p = IF session.first THEN "bind" ELSE "prepare"
          /\ p \in {"title", "save"} => line[l].at \in {"bind", "title"}
      <4>1. ASSUME NEW to \in LinePlace, line' = Placed(l, to) PROVE p = to
        BY <2>2, <4>1, PlacedIs
      <4>2. /\ "usage" \in LinePlace /\ "refs" \in LinePlace /\ "bind" \in LinePlace /\ "prepare" \in LinePlace
            /\ "title" \in LinePlace /\ "save" \in LinePlace /\ "dropped" \in LinePlace /\ "refused" \in LinePlace
        BY DEF LinePlace, Working
      <4>3. \/ line[l].at = "gate" /\ p \in {"usage", "dropped"}
            \/ line[l].at = "usage" /\ p = "refs"
            \/ line[l].at = "refs" /\ p \in {IF session.first THEN "bind" ELSE "prepare", "dropped", "refused"}
            \/ line[l].at = "bind" /\ p = "title"
            \/ line[l].at = "title" /\ p \in {"save", "dropped"}
        BY <3>2, <4>1, <4>2 DEF PrepareTurn, BindSession, Checked, Go, Leaves
      <4> QED BY <2>4, <4>3
    <3>5. line[l].at \in PastGate
      BY <2>4, <3>4 DEF PastGate, Working
    <3>6. ~Naming /\ ~Loaded /\ session.first = session.fresh /\ Titles(line, session.fresh)
      BY <1>1, <1>2, <2>2, <3>5
    <3>7. Titles(line', session.fresh)
      <4>1. /\ p \in {"bind", "title", "save"} => session.fresh
            /\ p = "prepare" => ~session.fresh
        BY <1>3, <3>4, <3>6
      <4> QED BY <2>2, <3>6, <4>1
    <3> QED BY <1>1, <2>2, <3>3, <3>6, <3>7
  <2>5. CASE Named(l)
    <3>1. /\ line[l].at = "save" /\ line' = Placed(l, "prepare") /\ ran' = ran
          /\ session' = [session EXCEPT !.first = FALSE, !.fresh = FALSE]
          /\ upset' = [upset EXCEPT !.renamed = @ \/ ~session.fresh]
      BY <2>5 DEF Named, Go
    <3>2. session.fresh /\ ~upset.renamed /\ Told(ran)
      BY <1>1, <2>2, <3>1
    <3>3. ~session'.first /\ ~session'.fresh /\ session'.first = session'.fresh /\ ~upset'.renamed
      BY <1>3, <3>1, <3>2
    <3>4. ~Naming /\ ~Loaded
      BY <1>2, <3>1 DEF PastGate, Working
    <3>5. \A m \in Line : line'[m].at \notin {"bind", "title", "save"}
      <4>1. \A m \in Line \ {l} : line[m].at \notin Working
        BY <3>1 DEF OneAtATime, Working
      <4>2. line'[l].at = "prepare"
        BY <3>1, PlacedIs DEF LinePlace, Working
      <4> QED BY <2>2, <4>1, <4>2 DEF Working
    <3> QED BY <2>2, <3>1, <3>2, <3>3, <3>4, <3>5
  <2>6. CASE p = "ran"
    <3>1. /\ line[l].at = "prepare"
          /\ ran' = Append(ran, [line |-> l, conv |-> session.conv, untitled |-> session.fresh])
      BY <2>1, <2>6 DEF Goes
    <3>2. ~session.fresh /\ Told(ran) /\ ~upset.renamed /\ ~Naming /\ ~Loaded /\ session.first = session.fresh
      BY <1>1, <1>2, <2>2, <3>1 DEF PastGate, Working
    <3>3. StartLine(l) /\ Accepts(line[l])
      <4>1. StartLine(l)
        BY <1>7, <3>1 DEF GoesOn, Resolved, Kept, PrepareTurn, BindSession, Named, Checked, Go
      <4>2. Accepts(line[l])
        <5>1. line' = Placed(l, "dropped") => line'[l].at = "dropped"
          BY PlacedIs DEF LinePlace
        <5> QED BY <2>2, <2>6, <4>1, <5>1 DEF StartLine, Leaves
      <4> QED BY <4>1, <4>2
    <3>4. session' = [session EXCEPT !.fresh = FALSE] /\ upset' = upset
      BY <3>3 DEF StartLine
    <3>5. session'.first = session.first /\ session'.fresh = session.fresh
      BY <1>3, <3>2, <3>4
    <3>6. Told(ran')
      <4> DEFINE r == [line |-> l, conv |-> session.conv, untitled |-> session.fresh]
      <4>1. ran \in Seq([line : Line, conv : Nat, untitled : BOOLEAN]) /\ ~r.untitled
            /\ r \in [line : Line, conv : Nat, untitled : BOOLEAN] /\ ran' = Append(ran, r)
        BY <3>1, <3>2 DEF GateTypeOK
      <4> HIDE DEF r
      <4>2. /\ ran' \in Seq([line : Line, conv : Nat, untitled : BOOLEAN]) /\ Len(ran') = Len(ran) + 1
            /\ ran'[Len(ran) + 1] = r /\ \A n \in 1..Len(ran) : ran'[n] = ran[n]
        BY <4>1, AppendProperties
      <4>3. DOMAIN ran = 1..Len(ran) /\ Len(ran) \in Nat /\ DOMAIN ran' = 1..Len(ran) + 1
        BY <4>1, <4>2, LenProperties
      <4>4. \A n \in DOMAIN ran' : n \in 1..Len(ran) \/ n = Len(ran) + 1
        BY <4>3
      <4> QED BY <3>2, <4>1, <4>2, <4>3, <4>4
    <3>7. Titles(line', session.fresh)
      <4>1. Titles(line, session.fresh)
        BY <1>1, <2>2
      <4> QED BY <2>2, <2>6, <4>1
    <3> QED BY <2>2, <3>2, <3>4, <3>5, <3>6, <3>7
  <2> QED BY <2>3, <2>4, <2>5, <2>6
<1>8. CASE StopLines
  <2>1. \A m \in Line : line'[m].at \in {"bind", "title", "save", "prepare"} => line'[m] = line[m]
    BY <1>8, StopDrops
  <2> QED BY <1>4, <1>8, <2>1, StopDrops
<1>9. CASE Resume \/ Resumed \/ UNCHANGED gateVars
  BY <1>4, <1>9, RestLeaves
<1>10. CASE Ask
  <2>1. PICK c \in Command : /\ command[c].at = "off" /\ command'[c].at = "asked"
                             /\ \A d \in Command \ {c} : command'[d] = command[d]
                             /\ UNCHANGED <<gate, session, line, turnQueue, ran, upset>>
    BY <1>10, AskGoes
  <2>2. (Naming' <=> Naming) /\ (Loaded' <=> Loaded)
    BY <2>1 DEF Choosing
  <2> QED BY <1>1, <2>1, <2>2
<1>11. ASSUME NEW c \in Command, CommandStep(c)
       PROVE  /\ (Naming => session.fresh)' /\ (~Naming => session.first = session.fresh)'
              /\ (Loaded => ~session.fresh)' /\ Titles(line', session'.fresh)
              /\ Told(ran') /\ ~upset'.renamed
  <2>1. /\ ~upset.overlap /\ ~upset.failed /\ ran' = ran /\ upset'.renamed = upset.renamed
        /\ \A d \in Command \ {c} : command'[d] = command[d]
        /\ command'[c].what = command[c].what
    BY <1>11, UpsetMoves, CommandGoes
  <2>2. Told(ran') /\ ~upset'.renamed
    BY <1>1, <2>1
  <2>3. ASSUME ~Begin(c) PROVE command[c].at \notin Idle /\ \A d \in Command \ {c} : command[d].at \in Idle
    <3>1. command[c].at \notin Idle
      BY <1>11, <2>3, CommandExclusive DEF CommandStep, Idle
    <3> QED BY <1>1, <2>1, <3>1
  <2>4. ASSUME ~Begin(c)
        PROVE  /\ Naming <=> Choosing(command[c])
               /\ Naming' <=> Choosing(command'[c])
               /\ Loaded <=> command[c].at = "release"
               /\ Loaded' <=> command'[c].at = "release"
    BY <2>1, <2>3, <2>4 DEF Choosing, Idle
  <2>5. \A m \in Line : line'[m].at \in {"bind", "title", "save", "prepare"} => line'[m] = line[m]
    BY <1>11, CommandDrops
  <2>6. ASSUME session'.fresh = session.fresh PROVE Titles(line', session'.fresh)
    BY <1>1, <2>1, <2>5, <2>6
  <2>7. CASE Begin(c)
    <3>1. session' = session /\ (Naming' <=> Naming) /\ (Loaded' <=> Loaded)
      <4>1. ~Choosing(command[c]) /\ ~Choosing(command'[c]) /\ command[c].at # "release" /\ command'[c].at # "release"
        BY <1>11, <2>7, CommandExclusive, CommandGoes DEF Choosing
      <4>2. session' = session
        BY <1>11, <2>7, FirstMoves
      <4> QED BY <2>1, <4>1, <4>2
    <3> QED BY <1>1, <2>1, <2>2, <2>6, <3>1
  <2>8. CASE Pick(c)
    <3>1. /\ command[c].at = "list" /\ ~Begin(c) /\ session'.fresh = session.fresh
          /\ command'[c].at \in {"over", "restore", "renew"}
      BY <1>11, <2>8, CommandExclusive, CommandGoes, SessionMoves
    <3>2. ~Loaded' /\ (Naming' => Naming)
      BY <2>1, <2>4, <3>1 DEF Choosing
    <3>3. CASE command[c].what = "cd"
      <4>1. Naming /\ session.fresh
        BY <1>1, <2>1, <2>4, <3>1, <3>3 DEF Choosing
      <4>2. session'.first \/ Naming'
        BY <1>11, <2>1, <2>4, <2>8, <3>1, <3>3, FirstMoves DEF Choosing
      <4>3. session'.first \in BOOLEAN /\ session'.fresh \in BOOLEAN
        BY <1>11, SessionMoves
      <4> QED BY <2>2, <2>6, <3>1, <3>2, <4>1, <4>2, <4>3
    <3>4. CASE command[c].what # "cd"
      <4>1. ~Naming /\ ~Naming' /\ session'.first = session.first
        BY <1>11, <2>1, <2>4, <2>8, <3>1, <3>4, FirstMoves DEF Choosing
      <4> QED BY <1>1, <2>1, <2>2, <2>6, <3>1, <3>2, <4>1
    <3> QED BY <3>3, <3>4
  <2>9. CASE Discard(c)
    <3>1. /\ ~Begin(c) /\ session'.fresh = session.fresh /\ session'.first = session.first
          /\ \/ command[c].at = "reset" /\ command'[c].at = "discard"
             \/ command[c].at = "renew" /\ command'[c].at = "discard2"
      BY <1>11, <2>9, CommandExclusive, CommandGoes, SessionMoves
    <3>2. ~Loaded' /\ (Naming' <=> Naming)
      BY <2>1, <2>4, <3>1 DEF Choosing
    <3> QED BY <1>1, <2>1, <2>2, <2>6, <3>1, <3>2
  <2>10. CASE Discarded(c)
    <3>1. /\ ~Begin(c) /\ session'.fresh /\ command[c].at \in {"discard", "discard2"}
          /\ IF command[c].what = "cd" /\ command[c].at = "discard"
             THEN command'[c].at = "list" ELSE command'[c].at = "over" /\ session'.first
      BY <1>11, <2>10, CommandExclusive, CommandGoes, SessionMoves
    <3>2. ~Loaded' /\ (Naming' \/ session'.first)
      BY <2>1, <2>4, <3>1 DEF Choosing
    <3>3. session'.first \in BOOLEAN /\ session'.fresh \in BOOLEAN
      BY <1>11, SessionMoves
    <3>4. \A m \in Line : line'[m].at # "prepare"
      <4>1. \A m \in Line : line[m].at \notin PastGate
        BY <3>1 DEF NonePastTheGate, Idle
      <4> QED BY <2>5, <4>1 DEF PastGate, Working
    <3> QED BY <2>2, <3>1, <3>2, <3>3, <3>4
  <2>11. CASE Fails(c)
    <3>1. /\ ~Begin(c) /\ session'.fresh = session.fresh /\ command'[c].at = "over"
          /\ command[c].at \in {"reset", "renew", "discard", "discard2", "restore", "bind"}
      <4>1. command[c].at \in {"reset", "renew", "discard", "discard2", "restore", "bind"} /\ ~Begin(c)
        BY <1>11, <2>11, CommandExclusive
      <4>2. session'.fresh = session.fresh
        BY <1>3, <2>11 DEF Fails, End
      <4> QED BY <1>11, <2>11, <4>1, <4>2, CommandGoes
    <3>2. ~Loaded' /\ ~Naming'
      BY <2>4, <3>1 DEF Choosing
    <3>3. CASE command[c].what = "cd" /\ command[c].at \in {"restore", "bind"}
      <4>1. session.fresh /\ session'.first
        BY <1>1, <1>11, <2>1, <2>4, <2>11, <3>1, <3>3, FirstMoves DEF Choosing
      <4>2. session'.first \in BOOLEAN /\ session'.fresh \in BOOLEAN
        BY <1>11, SessionMoves
      <4> QED BY <2>2, <2>6, <3>1, <3>2, <4>1, <4>2
    <3>4. CASE ~(command[c].what = "cd" /\ command[c].at \in {"restore", "bind"})
      <4>1. session'.first = session.first /\ ~(command[c].what = "cd" /\ command[c].at \in {"renew", "discard2"})
        BY <1>11, <2>11, <3>4, FirstMoves
      <4>2. ~Naming
        BY <2>4, <3>1, <3>4, <4>1 DEF Choosing
      <4> QED BY <1>1, <2>1, <2>2, <2>6, <3>1, <3>2, <4>1, <4>2
    <3> QED BY <3>3, <3>4
  <2>12. CASE Restore(c)
    <3>1. ~Begin(c) /\ session' = session /\ command[c].at = "restore" /\ command'[c].at = "bind"
      BY <1>11, <2>12, CommandExclusive, CommandGoes, FirstMoves
    <3>2. ~Loaded' /\ (Naming' <=> Naming)
      BY <2>1, <2>4, <3>1 DEF Choosing
    <3> QED BY <1>1, <2>1, <2>2, <2>6, <3>1, <3>2
  <2>13. CASE Install(c)
    <3>1. /\ ~Begin(c) /\ ~session'.first /\ ~session'.fresh /\ command[c].at = "bind" /\ command'[c].at = "release"
          /\ session'.first \in BOOLEAN /\ session'.fresh \in BOOLEAN
      BY <1>11, <2>13, CommandExclusive, CommandGoes, SessionMoves
    <3>2. ~Naming'
      BY <2>4, <3>1 DEF Choosing
    <3>3. \A m \in Line : line'[m].at \notin {"bind", "title", "save", "prepare"}
      <4>1. \A m \in Line : line[m].at \notin PastGate
        BY <3>1 DEF NonePastTheGate, Idle
      <4> QED BY <2>5, <4>1 DEF PastGate, Working
    <3> QED BY <2>2, <3>1, <3>2, <3>3
  <2>14. CASE Released(c)
    <3>1. /\ ~Begin(c) /\ ~session'.first /\ session'.fresh = session.fresh /\ command[c].at = "release"
          /\ command'[c].at = "over" /\ session'.first \in BOOLEAN /\ session'.fresh \in BOOLEAN
      <4>1. ~Begin(c) /\ command[c].at = "release"
        BY <1>11, <2>14, CommandExclusive
      <4>2. ~(Discard(c) \/ Discarded(c) \/ Install(c))
        BY <4>1, CommandExclusive
      <4> QED BY <1>11, <2>14, <4>1, <4>2, CommandGoes, FirstMoves, SessionMoves
    <3>2. ~session.fresh /\ ~Naming' /\ ~Loaded'
      BY <1>1, <2>1, <2>4, <3>1 DEF Choosing
    <3> QED BY <2>2, <2>6, <3>1, <3>2
  <2> QED BY <1>11, <2>7, <2>8, <2>9, <2>10, <2>11, <2>12, <2>13, <2>14 DEF CommandStep
<1> QED BY <1>5, <1>6, <1>7, <1>8, <1>9, <1>10, <1>11, StepsOfGate

\* Nothing has been typed or asked for yet.
LEMMA GateInitHolds == GateInit => GateTypeOK /\ GateInv
<1> SUFFICES ASSUME GateInit PROVE GateTypeOK /\ GateInv
  OBVIOUS
<1>1. /\ gate = [open |-> TRUE, active |-> 0, count |-> 0]
      /\ \E paused, first \in BOOLEAN :
           session = [gen |-> 0, conv |-> 0, paused |-> paused, resuming |-> 0, first |-> first, fresh |-> first]
      /\ line = [l \in Line |-> [at |-> "off", count |-> 0, gen |-> 0, conv |-> 0, stops |-> 0]]
      /\ turnQueue = [waiting |-> <<>>, current |-> 0]
      /\ command = [c \in Command |-> [what |-> "none", at |-> "off", gen |-> <<0, 0>>]]
      /\ ran = <<>>
      /\ upset = [stops |-> 0, overlap |-> FALSE, failed |-> FALSE, renamed |-> FALSE]
  BY DEF GateInit
<1>2. GateTypeOK
  <2>1. line \in [Line -> LineRecord] /\ command \in [Command -> CommandRecord]
    BY <1>1 DEF LineRecord, LinePlace, CommandRecord, CommandPlace, Idle
  <2>2. session \in [gen : Nat, conv : Nat, paused : BOOLEAN, resuming : Nat, first : BOOLEAN, fresh : BOOLEAN]
    BY <1>1
  <2>3. <<>> \in Seq(Line) /\ <<>> \in Seq([line : Line, conv : Nat, untitled : BOOLEAN])
    BY EmptySeq
  <2> QED BY <1>1, <2>1, <2>2, <2>3 DEF GateTypeOK
<1>3. \A l \in Line : line[l] = [at |-> "off", count |-> 0, gen |-> 0, conv |-> 0, stops |-> 0]
  BY <1>1
<1>4. \A c \in Command : command[c] = [what |-> "none", at |-> "off", gen |-> <<0, 0>>]
  BY <1>1
<1>5. DOMAIN ran = {} /\ DOMAIN turnQueue.waiting = {} /\ turnQueue.current = 0
  BY <1>1
<1>6. GateCounts
  <2>1. \A c \in Command : CommandOK(command[c]) /\ Weight(command[c]) = 0
    BY <1>4 DEF CommandOK, Weight, Idle
  <2>2. Holds = {}
    BY <2>1 DEF Holds
  <2>3. Cardinality(Holds) = 0
    BY <2>2, FS_EmptySet
  <2> QED BY <1>1, <2>1, <2>3 DEF GateCounts
<1>7. /\ Admitted = {} /\ LiveLines = {} /\ Began = {} /\ AtWork = {} /\ Waiting = {} /\ Resolving = {}
      /\ Locking = {} /\ Holder = {}
  BY <1>3, <1>5 DEF Admitted, LiveLines, Began, AtWork, Waiting, Resolving, Locking, Holder, Working
<1>8. LinesKnowTheGate /\ AcceptedAreOfNow
  BY <1>1, <1>3, <1>7 DEF LinesKnowTheGate, AcceptedAreOfNow
<1>9. AsideForAReason
  BY <1>3, <1>7 DEF AsideForAReason
<1>10. RanWhereTyped /\ RanInOrder
  BY <1>1, <1>5 DEF RanWhereTyped, RanInOrder
<1>11. LinesInOrder
  BY <1>5, <1>7, <1>10 DEF LinesInOrder, Precede
<1>12. OneAtATime
  BY <1>3, <1>5, <1>7 DEF OneAtATime, Working, Line
<1>13. NonePastTheGate /\ OneCommand
  BY <1>3, <1>4 DEF NonePastTheGate, OneCommand, PastGate, Working, Idle
<1>14. FirstIsFresh
  <2>1. session.first = session.fresh /\ ~upset.renamed
    BY <1>1
  <2> QED BY <1>3, <1>4, <1>5, <2>1 DEF FirstIsFresh, Choosing
<1> QED BY <1>2, <1>6, <1>8, <1>9, <1>10, <1>11, <1>12, <1>13, <1>14 DEF GateInv

\* Every step keeps all of it.
LEMMA GateInvStep == GateTypeOK /\ GateInv /\ [GateNext]_gateVars => (GateTypeOK /\ GateInv)'
<1> SUFFICES ASSUME GateTypeOK, GateInv, [GateNext]_gateVars PROVE (GateTypeOK /\ GateInv)'
  OBVIOUS
<1>1. /\ GateCounts /\ LinesKnowTheGate /\ AcceptedAreOfNow /\ AsideForAReason /\ RanWhereTyped
      /\ LinesInOrder /\ OneAtATime /\ NonePastTheGate /\ OneCommand /\ FirstIsFresh
  BY DEF GateInv
<1>2. GateTypeOK' /\ GateCounts'
  BY <1>1, GateTypeStep
<1>3. LinesKnowTheGate' /\ AcceptedAreOfNow' /\ AsideForAReason'
  BY <1>1, LinesKnowTheGateStep, AcceptedAreOfNowStep, AsideForAReasonStep
<1>4. RanWhereTyped' /\ LinesInOrder' /\ OneAtATime'
  BY <1>1, RanWhereTypedStep, LinesInOrderStep, OneAtATimeStep
<1>5. NonePastTheGate' /\ OneCommand' /\ FirstIsFresh'
  BY <1>1, NonePastTheGateStep, OneCommandStep, FirstIsFreshStep
<1> QED BY <1>2, <1>3, <1>4, <1>5 DEF GateInv

\* TypeOK of the gate: lines, commands, the queue and the generations stay what
\* they are, and the gate counts the commands that have shut it
\* (_active_transitions never falls below zero).
THEOREM GateTypeCorrect == GateSpec => [](GateTypeOK /\ GateCounts)
<1>1. GateSpec => [](GateTypeOK /\ GateInv)
  BY GateInitHolds, GateInvStep, PTL DEF GateSpec
<1>2. GateTypeOK /\ GateInv => GateTypeOK /\ GateCounts
  BY DEF GateInv
<1> QED BY <1>1, <1>2, PTL

\* An input runs in the conversation it was typed into and in the order of
\* typing, the first of a conversation under a title of its own; none is put
\* aside without a reason the user gave, and the gate is open whenever no
\* command is at work (process_line, reset_session, enter_current_workspace).
THEOREM InputsStayInTheirConversationCorrect == GateSpec => []InputsStayInTheirConversation
<1>1. GateTypeOK /\ GateInv => InputsStayInTheirConversation
  <2> SUFFICES ASSUME GateTypeOK, GateInv PROVE InputsStayInTheirConversation
    OBVIOUS
  <2>1. /\ GateCounts /\ LinesKnowTheGate /\ AcceptedAreOfNow /\ AsideForAReason /\ RanWhereTyped
        /\ LinesInOrder /\ OneAtATime /\ NonePastTheGate /\ OneCommand /\ FirstIsFresh
    BY DEF GateInv
  <2>2. GateIsOpenAgain
    BY <2>1, OpenWhenIdle DEF GateIsOpenAgain, GateCounts, Idle
  <2>3. NamedByItsFirst
    BY <2>1 DEF NamedByItsFirst, FirstIsFresh
  <2>4. RanInOrder
    BY <2>1 DEF LinesInOrder
  <2>5. \A l \in Line : line[l].at = "dropped" => PutAside(l)
    BY <2>1 DEF AsideForAReason
  <2> QED BY <2>1, <2>2, <2>3, <2>4, <2>5 DEF InputsStayInTheirConversation
<1>2. GateSpec => [](GateTypeOK /\ GateInv)
  BY GateInitHolds, GateInvStep, PTL DEF GateSpec
<1> QED BY <1>1, <1>2, PTL
=============================================================================
