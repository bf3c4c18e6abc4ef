-------------------------- MODULE TurnControlProofs --------------------------
(***************************************************************************)
(* Proofs about TurnControl for every set of requests and supplements and  *)
(* any number of pauses, stops, clears and crashes: no turn runs beside    *)
(* the children of a cancelled one, requests keep their order, and what    *)
(* was cleared or saved with a pause stays so.                             *)
(*                                                                         *)
(* Supplements play no part here.  Where a record carries a sequence of    *)
(* them the types below leave it open: {r.sup} is whatever r has.          *)
(***************************************************************************)
EXTENDS TurnControl, SequenceTheorems, TLAPS

-----------------------------------------------------------------------------
(* The inductive invariant.                                                *)

IsSeq(s) == s \in Seq({s[i] : i \in DOMAIN s})

\* In the order s of submission a comes before b, or is b.
Before(s, a, b) == \E i, j \in DOMAIN s : i <= j /\ s[i] = a /\ s[j] = b

\* An item of the queue or its current one, in generation g.
IsItem(i, g) == i \in [req : Request, resumed : BOOLEAN, turn : BOOLEAN, sent : BOOLEAN,
                       sup : {i.sup}, gen : 0..g, tgen : Nat]

IsPause(p) == p \in [req : Request, turn : BOOLEAN, sent : BOOLEAN,
                     sup : {p.sup}, queued : Seq(Request)]

Steps == {"idle", "lock", "task", "children", "settle", "save", "clean"}

IsOps(f) == f \in [Ops -> [step : Steps, target : {f[o].target : o \in Ops}]]

Shape ==
  /\ order \in Seq(Request)
  /\ \A i, j \in DOMAIN order : order[i] = order[j] => i = j
  /\ gen \in Nat /\ tgen \in Nat
  /\ grip \in Nat \X Nat /\ grip[1] <= gen /\ grip[2] <= tgen
  /\ IsSeq(pending) /\ \A i \in DOMAIN pending : IsItem(pending[i], gen)
  /\ item # NoItem => IsItem(item, gen)
  /\ paused # NoPause => IsPause(paused)
  /\ saved # NoPause => IsPause(saved)
  /\ at = "none" <=> item = NoItem
  /\ IsOps(op)
  /\ born \in [Request -> Nat]

\* The cancel lock: one holder, who has it while children wind down; with the
\* lock taken or asked for, a turn is only there to be cancelled.
LockKept ==
  /\ \A o, p \in Ops : op[o].step \in {"task", "children"}
                       /\ op[p].step \in {"task", "children"} => o = p
  /\ kids => \E o \in Ops : op[o].step = "children"
  /\ CancelLocked /\ HasTurn => Cancelled
  /\ op["clear"].step # "idle" => moving
  /\ op["pause"].step # "idle" => lock = "pause"

\* While the conversation is being replaced, nothing of it can start again.
NothingOfTheOld ==
  moving => /\ up /\ pending = <<>> /\ ~IsPaused /\ grip[1] # gen
            /\ item # NoItem => item.gen # gen
            /\ HasTurn => Cancelled

DownIsEmpty ==
  ~up => /\ item = NoItem /\ pending = <<>> /\ ~IsPaused /\ lock = "none"
         /\ \A o \in Ops : op[o].step = "idle"

\* Who is about to complete a pause or a resume finds it, unless he finds too
\* that the conversation was replaced or the turn stopped.
PauseHeld ==
  /\ lock = "pause" /\ grip[1] = gen => IsPaused
  /\ lock \in {"resume", "resumeSave"} /\ ~Expired => IsPaused
  /\ at = "tpause" /\ item.gen = gen => IsPaused
  /\ at \in {"tpause", "tsave"} => lock \notin {"pause", "resume", "resumeSave"}
  /\ IsPaused => ~ready /\ (item # NoItem => item.req = paused.req)

PauseOrdered(s, p) ==
  \A i \in DOMAIN p.queued :
    /\ Before(s, p.req, p.queued[i])
    /\ \A j \in DOMAIN p.queued : i <= j => Before(s, p.queued[i], p.queued[j])

Ordered ==
  /\ \A i, j \in DOMAIN pending : i <= j => Before(order, pending[i].req, pending[j].req)
  /\ item # NoItem => /\ Before(order, item.req, item.req)
                      /\ \A i \in DOMAIN pending : Before(order, item.req, pending[i].req)
  /\ IsPaused => /\ Before(order, paused.req, paused.req) /\ PauseOrdered(order, paused)
                 /\ \A i \in DOMAIN pending : Before(order, paused.req, pending[i].req)
  /\ saved # NoPause => Before(order, saved.req, saved.req) /\ PauseOrdered(order, saved)

TurnInv == Shape /\ LockKept /\ NothingOfTheOld /\ DownIsEmpty /\ PauseHeld /\ Ordered

\* The requests of a pause are of generation g.
PauseIsNew(p, b, g) == b[p.req] = g /\ \A i \in DOMAIN p.queued : b[p.queued[i]] = g

\* What is in the queue or in a pause was given since the last clear.
OfThisConversation ==
  /\ ~moving /\ item # NoItem => born[item.req] = gen
  /\ \A i \in DOMAIN pending : born[pending[i].req] = gen
  /\ IsPaused => PauseIsNew(paused, born, gen)
  /\ ~moving /\ saved # NoPause => PauseIsNew(saved, born, gen)

\* The queue holds what was saved with the pause, or the pause is at rest.
QueueHoldsSaved ==
  IsPaused => \/ pending = <<>> /\ item = NoItem /\ op["pause"].step = "idle"
              \/ \A i \in DOMAIN paused.queued :
                   \E j \in DOMAIN pending : pending[j].req = paused.queued[i]

-----------------------------------------------------------------------------
(* Sequences.                                                              *)

\* A sequence over any set is one over its elements.
LEMMA SelfSeq ==
  ASSUME NEW S, NEW t \in Seq(S)
  PROVE  IsSeq(t)
<1> DEFINE T == {t[i] : i \in DOMAIN t}
<1>1. Len(t) \in Nat /\ DOMAIN t = 1..Len(t) /\ t = [i \in 1..Len(t) |-> t[i]]
  OBVIOUS
<1>2. \A i \in 1..Len(t) : t[i] \in T
  BY <1>1
<1> HIDE DEF T
<1>3. t \in Seq(T)
  BY <1>1, <1>2
<1> QED BY <1>3 DEF IsSeq, T

LEMMA AppendSeq ==
  ASSUME NEW s, IsSeq(s), NEW x
  PROVE  /\ IsSeq(Append(s, x)) /\ DOMAIN Append(s, x) = 1..(Len(s) + 1)
         /\ Len(s) \in Nat /\ DOMAIN s = 1..Len(s)
         /\ \A i \in 1..Len(s) : Append(s, x)[i] = s[i]
         /\ Append(s, x)[Len(s) + 1] = x
<1> DEFINE S == {s[i] : i \in DOMAIN s}
           T == S \cup {x}
           t == Append(s, x)
<1>1. s \in Seq(S)
  BY DEF IsSeq
<1>2. Len(s) \in Nat /\ DOMAIN s = 1..Len(s) /\ \A i \in 1..Len(s) : s[i] \in S
  BY <1>1
<1>3. s \in Seq(T)
  BY <1>1
<1> HIDE DEF S, T
<1>4. x \in T
  BY DEF T
<1>5. /\ t \in Seq(T) /\ Len(t) = Len(s) + 1 /\ DOMAIN t = 1..(Len(s) + 1)
      /\ \A i \in 1..Len(s) : t[i] = s[i]
      /\ t[Len(s) + 1] = x
  BY <1>3, <1>4
<1> QED BY <1>2, <1>5, SelfSeq DEF t

LEMMA TailSeq ==
  ASSUME NEW s, IsSeq(s), s # <<>>
  PROVE  /\ IsSeq(Tail(s)) /\ DOMAIN Tail(s) = 1..(Len(s) - 1)
         /\ Len(s) \in Nat /\ DOMAIN s = 1..Len(s) /\ Len(s) >= 1
         /\ \A i \in 1..(Len(s) - 1) : Tail(s)[i] = s[i + 1]
         /\ Head(s) = s[1]
<1> DEFINE S == {s[i] : i \in DOMAIN s}
           t == Tail(s)
<1>1. s \in Seq(S)
  BY DEF IsSeq
<1> HIDE DEF S
<1>2. /\ Len(s) \in Nat /\ DOMAIN s = 1..Len(s) /\ Len(s) >= 1
      /\ t \in Seq(S) /\ Len(t) = Len(s) - 1 /\ DOMAIN t = 1..(Len(s) - 1)
      /\ \A i \in 1..(Len(s) - 1) : t[i] = s[i + 1]
      /\ Head(s) = s[1]
  BY <1>1
<1> QED BY <1>2, SelfSeq DEF t

LEMMA ConsSeq ==
  ASSUME NEW s, IsSeq(s), NEW x
  PROVE  /\ IsSeq(<<x>> \o s) /\ DOMAIN (<<x>> \o s) = 1..(Len(s) + 1)
         /\ Len(s) \in Nat /\ DOMAIN s = 1..Len(s)
         /\ (<<x>> \o s)[1] = x
         /\ \A i \in 1..Len(s) : (<<x>> \o s)[i + 1] = s[i]
<1> DEFINE S == {s[i] : i \in DOMAIN s}
           T == S \cup {x}
           u == <<x>>
           t == u \o s
<1>1. s \in Seq(S)
  BY DEF IsSeq
<1>2. Len(s) \in Nat /\ DOMAIN s = 1..Len(s)
  BY <1>1
<1>3. s \in Seq(T) /\ u \in Seq(T) /\ Len(u) = 1 /\ u[1] = x
  BY <1>1
<1> HIDE DEF S, T, u
<1>4. /\ t \in Seq(T) /\ Len(t) = Len(u) + Len(s)
      /\ \A j \in 1..(Len(u) + Len(s)) :
           t[j] = IF j <= Len(u) THEN u[j] ELSE s[j - Len(u)]
  BY <1>3, ConcatProperties, Zenon
<1> HIDE DEF t
<1>5. DOMAIN t = 1..(Len(s) + 1) /\ t[1] = x
  BY <1>2, <1>3, <1>4
<1>6. ASSUME NEW i \in 1..Len(s)
      PROVE  t[i + 1] = s[i]
  <2>1. i + 1 \in 1..(Len(u) + Len(s)) /\ i + 1 > Len(u) /\ (i + 1) - Len(u) = i
    BY <1>2, <1>3
  <2> QED BY <1>2, <1>3, <1>4, <2>1
<1> QED BY <1>2, <1>4, <1>5, <1>6, SelfSeq DEF t, u

LEMMA EmptyIsSeq == IsSeq(<<>>) /\ Len(<<>>) = 0 /\ DOMAIN <<>> = {}
<1>1. <<>> \in Seq({}) /\ Len(<<>>) = 0
  BY EmptySeq, Zenon
<1>2. IsSeq(<<>>)
  BY <1>1, SelfSeq, Zenon
<1>3. DOMAIN <<>> = 1..0
  BY <1>1, LenProperties, Zenon
<1> QED BY <1>1, <1>2, <1>3

LEMMA EnumSeq ==
  ASSUME NEW s, NEW n \in Nat, s = [i \in 1..n |-> s[i]]
  PROVE  IsSeq(s) /\ Len(s) = n /\ DOMAIN s = 1..n
BY DEF IsSeq

-----------------------------------------------------------------------------
(* What the actions do to what the invariant speaks of.                    *)

\* Supply, Prepared and stuttering: nothing.
Elsewhere ==
  UNCHANGED <<pending, ready, item, at, gen, tgen, paused, saved, lock, grip, op,
              kids, moving, up, order, born>>

\* A turn goes on.
TurnGoesOn ==
  /\ HasTurn /\ ~Cancelled
  /\ at' \notin {"none", "prepare", "clear", "tpause", "tsave"}
  /\ UNCHANGED <<pending, ready, item, gen, tgen, paused, saved, lock, grip, op,
                 kids, moving, up, order, born>>

\* The current item ends, or has only its pause to clear.
ItemEnds ==
  /\ item # NoItem /\ ~Cancelled
  /\ \/ item' = NoItem /\ at' = "none"
     \/ item' = item /\ at' = "clear"
  /\ saved' \in {saved, NoPause} \/ (IsPaused /\ saved' = paused)
  /\ UNCHANGED <<pending, ready, gen, tgen, paused, lock, grip, op, kids, moving,
                 up, order, born>>

PausesItself ==
  /\ item # NoItem /\ ~Cancelled /\ HasTurn /\ ~IsPaused /\ ~ControlBusy
  /\ paused' = Pausing /\ ready' = FALSE /\ at' = "tpause" /\ tgen' = tgen + 1
  /\ UNCHANGED <<pending, item, gen, saved, lock, grip, op, kids, moving, up,
                 order, born>>

SettlesItself ==
  /\ at = "tpause" /\ ~Cancelled /\ item.gen = gen
  /\ paused' = Settled(item) /\ at' = "tsave"
  /\ UNCHANGED <<pending, ready, item, gen, tgen, saved, lock, grip, op, kids,
                 moving, up, order, born>>

CancelStep ==
  \/ Stop \/ KidsEnd
  \/ \E o \in Ops : CancelEntered(o) \/ TurnCancelled(o) \/ CancelDone(o)

PauseStep == PauseBegin \/ PauseSettle \/ PauseSave \/ ResumeBegin \/ ResumeQueue \/ ResumeSave

OtherStep ==
  \/ \E r \in Request : Submit(r)
  \/ SubmitSaved \/ TakeItem \/ StartTurn \/ Clear \/ ClearDone \/ Crash \/ Load

\* What a step can be.
LEMMA StepCases ==
  ASSUME [Next]_vars, at = "none" <=> item = NoItem
  PROVE  \/ Elsewhere \/ TurnGoesOn \/ ItemEnds \/ PausesItself \/ SettlesItself
         \/ CancelStep \/ PauseStep \/ OtherStep
<1>1. CASE UNCHANGED vars
  BY <1>1 DEF vars, queue, work, inbox, supp, pause, ctrl, life, hist, Elsewhere
<1>2. CASE User
  <2>1. CASE \E s \in Supplement : Supply(s)
    BY <2>1 DEF Supply, Elsewhere, queue, work, pause, ctrl, life, hist
  <2> QED BY <1>2, <2>1 DEF User, OtherStep, CancelStep, PauseStep
<1>3. CASE Consumer
  <2>1. CASE DropStale
    BY <2>1 DEF DropStale, Runs, Leave, ItemEnds, queue, pause, ctrl, life
  <2>2. CASE LoseTurn
    BY <2>2 DEF LoseTurn, MayStart, Runs, Leave, ItemEnds, queue, pause, ctrl, life
  <2>3. CASE ClearPause
    BY <2>3 DEF ClearPause, Runs, Leave, ItemEnds, queue, pause, ctrl, life, hist
  <2> QED BY <1>3, <2>1, <2>2, <2>3 DEF Consumer, OtherStep
<1>4. CASE OpenTurn \/ Freeze \/ Taken \/ NoneLeft \/ Checkpoint \/ ToolsDone
           \/ ToolCall \/ FinalAnswer
  BY <1>4 DEF OpenTurn, Freeze, Taken, NoneLeft, Checkpoint, ToolsDone, ToolCall,
     FinalAnswer, Runs, HasTurn, InnerStep, TurnGoesOn, queue, pause, ctrl, life, hist
<1>5. CASE EndTurn \/ Fail
  BY <1>5 DEF EndTurn, Fail, EndItem, Runs, Leave, ItemEnds, queue, pause, ctrl, life, hist
<1>6. CASE TransportError
  BY <1>6 DEF TransportError, Runs, HasTurn, TurnGoesOn, queue, pause, ctrl, life, hist
<1>7. CASE Transport
  <2>1. CASE TransportPause
    BY <2>1 DEF TransportPause, EndItem, Runs, Leave, HasTurn, ItemEnds, PausesItself,
       Reset, queue, pause, ctrl, life, hist
  <2>2. CASE TransportSettle
    BY <2>2 DEF TransportSettle, EndItem, Runs, Leave, ItemEnds, SettlesItself,
       queue, pause, ctrl, life, hist
  <2>3. CASE TransportSave
    BY <2>3 DEF TransportSave, EndItem, Runs, Leave, ItemEnds, queue, pause, ctrl, life, hist
  <2> QED BY <1>7, <2>1, <2>2, <2>3 DEF Transport
<1>8. CASE Control
  BY <1>8 DEF Control, OtherStep, CancelStep, PauseStep
<1>9. CASE \E s \in Supplement : Prepared(s)
  BY <1>9 DEF Prepared, Elsewhere, queue, work, pause, ctrl, life, hist
<1>10. CASE Crash \/ Load
  BY <1>10 DEF OtherStep
<1> QED BY <1>1, <1>2, <1>3, <1>4, <1>5, <1>6, <1>7, <1>8, <1>9, <1>10
        DEF Next, Turn

-----------------------------------------------------------------------------
(* The operations that cancel.                                             *)

\* g is f, but o has come to step s.
Moved(f, o, s, g) ==
  /\ IsOps(g) /\ g[o].step = s
  /\ \A p \in Ops : p # o => g[p].step = f[p].step

LEMMA OpSet ==
  ASSUME NEW f, IsOps(f), NEW o \in Ops, NEW s \in Steps, NEW t, NEW g,
         g = [f EXCEPT ![o] = [step |-> s, target |-> t]]
  PROVE  Moved(f, o, s, g)
<1> DEFINE F == {f[p].target : p \in Ops}
           G == {g[p].target : p \in Ops}
<1>1. f \in [Ops -> [step : Steps, target : F]]
  BY DEF IsOps
<1>2. \A p \in Ops : f[p].target \in F
  OBVIOUS
<1> HIDE DEF F
<1>3. g \in [Ops -> [step : Steps, target : F \cup {t}]] /\ g[o].step = s
  BY <1>1
<1>4. \A p \in Ops : p # o => g[p] = f[p]
  BY <1>1
<1>5. \A p \in Ops : g[p].target \in G
  OBVIOUS
<1> HIDE DEF G
<1>6. g \in [Ops -> [step : Steps, target : G]]
  BY <1>3, <1>5
<1> QED BY <1>3, <1>4, <1>6 DEF Moved, IsOps, G

LEMMA OpStep ==
  ASSUME NEW f, IsOps(f), NEW o \in Ops, NEW s \in Steps, NEW g,
         g = [f EXCEPT ![o].step = s]
  PROVE  Moved(f, o, s, g)
<1>1. f \in [Ops -> [step : Steps, target : {f[p].target : p \in Ops}]]
  BY DEF IsOps
<1>2. [f[o] EXCEPT !.step = s] = [step |-> s, target |-> f[o].target]
  BY <1>1
<1>3. g = [f EXCEPT ![o] = [step |-> s, target |-> f[o].target]]
  BY <1>1, <1>2
<1> QED BY <1>3, OpSet

LEMMA AfterFacts ==
  ASSUME NEW o \in Ops
  PROVE  After(o) \in Steps /\ After(o) \in {"idle", "settle", "clean"}
BY DEF After, Ops, Steps

LEMMA EnterEffect ==
  ASSUME IsOps(op), tgen \in Nat, NEW o \in Ops, Enter(o)
  PROVE  /\ tgen' \in {tgen, tgen + 1}
         /\ CancelLocked => Moved(op, o, "lock", op')
         /\ ~CancelLocked => Moved(op, o, IF item # NoItem THEN "task" ELSE After(o), op')
<1>1. CASE CancelLocked
  <2>1. op' = [op EXCEPT ![o] = [step |-> "lock", target |-> item]] /\ tgen' = tgen
    BY <1>1 DEF Enter
  <2>2. "lock" \in Steps
    BY DEF Steps
  <2> QED BY <1>1, <2>1, <2>2, OpSet
<1>2. CASE ~CancelLocked
  <2> DEFINE s == IF item # NoItem THEN "task" ELSE After(o)
  <2>1. op' = [op EXCEPT ![o] = [step |-> s, target |-> item]] /\ tgen' = tgen + 1
    BY <1>2 DEF Enter, HoldLock, Reset
  <2>2. s \in Steps
    BY AfterFacts DEF Steps
  <2> HIDE DEF s
  <2>3. Moved(op, o, s, op')
    BY <2>1, <2>2, OpSet
  <2> QED BY <1>2, <2>1, <2>3 DEF s
<1> QED BY <1>1, <1>2

LEMMA EnteredEffect ==
  ASSUME IsOps(op), NEW o \in Ops, CancelEntered(o)
  PROVE  /\ tgen' = tgen + 1 /\ op[o].step = "lock" /\ ~CancelHeld
         /\ Moved(op, o, "task", op') \/ Moved(op, o, After(o), op')
         /\ UNCHANGED <<pending, ready, item, at, gen, paused, saved, lock, grip,
                        kids, moving, up, order, born>>
<1> DEFINE s == IF op[o].target # NoItem /\ op[o].target = item THEN "task" ELSE After(o)
<1>1. op' = [op EXCEPT ![o] = [step |-> s, target |-> op[o].target]] /\ tgen' = tgen + 1
  BY DEF CancelEntered, HoldLock, Reset
<1>2. s \in Steps /\ s \in {"task", After(o)}
  BY AfterFacts DEF Steps
<1> HIDE DEF s
<1>3. Moved(op, o, s, op')
  BY <1>1, <1>2, OpSet
<1> QED BY <1>1, <1>2, <1>3
        DEF CancelEntered, queue, work, pause, life, hist

LEMMA CancelledEffect ==
  ASSUME IsOps(op), NEW o \in Ops, TurnCancelled(o)
  PROVE  /\ op[o].step = "task" /\ Moved(op, o, IF kids' THEN "children" ELSE After(o), op')
         /\ item' = NoItem /\ at' = "none" /\ kids' \in BOOLEAN
         /\ saved' \in {saved, NoPause} \/ saved' = paused
         /\ UNCHANGED <<pending, ready, gen, tgen, paused, lock, grip, moving, up,
                        order, born>>
<1> DEFINE s == IF kids' THEN "children" ELSE After(o)
<1>1. op' = [op EXCEPT ![o].step = s]
  BY DEF TurnCancelled
<1>2. s \in Steps
  BY AfterFacts DEF Steps
<1> HIDE DEF s
<1>3. Moved(op, o, s, op')
  BY <1>1, <1>2, OpStep
<1>4. saved' \in {saved, NoPause} \/ saved' = paused
  BY DEF TurnCancelled
<1>5. kids' \in BOOLEAN
  BY DEF TurnCancelled
<1> QED BY <1>3, <1>4, <1>5 DEF TurnCancelled, Leave, queue, life, s

LEMMA DoneEffect ==
  ASSUME IsOps(op), NEW o \in Ops, CancelDone(o)
  PROVE  /\ op[o].step = "children" /\ ~kids /\ Moved(op, o, After(o), op')
         /\ UNCHANGED <<pending, ready, item, at, gen, tgen, paused, saved, lock,
                        grip, kids, moving, up, order, born>>
<1>1. op' = [op EXCEPT ![o].step = After(o)]
  BY DEF CancelDone
<1>2. Moved(op, o, After(o), op')
  BY <1>1, AfterFacts, OpStep
<1> QED BY <1>2 DEF CancelDone, queue, work, pause, life, hist

LEMMA IdleEffect ==
  ASSUME IsOps(op), NEW o \in Ops, op' = [op EXCEPT ![o] = IdleOp]
  PROVE  Moved(op, o, "idle", op')
<1>1. op' = [op EXCEPT ![o] = [step |-> "idle", target |-> NoItem]] /\ "idle" \in Steps
  BY DEF IdleOp, Steps
<1> QED BY <1>1, OpSet

LEMMA CrashEffect ==
  ASSUME op' = [o \in Ops |-> IdleOp]
  PROVE  IsOps(op') /\ \A o \in Ops : op'[o].step = "idle"
BY DEF IsOps, IdleOp, Steps

-----------------------------------------------------------------------------
(* The cancel lock.                                                        *)

LEMMA LockStep ==
  ASSUME TurnInv, [Next]_vars
  PROVE  LockKept'
<1> USE DEF LockKept, CancelLocked, CancelHeld, Cancelled, HasTurn
<1>0. IsOps(op) /\ (at = "none" <=> item = NoItem) /\ tgen \in Nat /\ LockKept
  BY DEF TurnInv, Shape
<1>ops. Ops = {"stop", "pause", "clear"}
  BY DEF Ops
<1>1. CASE Elsewhere
  BY <1>0, <1>1 DEF Elsewhere
<1>2. CASE TurnGoesOn
  BY <1>0, <1>2 DEF TurnGoesOn
<1>3. CASE ItemEnds
  BY <1>0, <1>3 DEF ItemEnds
<1>4. CASE PausesItself \/ SettlesItself
  BY <1>0, <1>4 DEF PausesItself, SettlesItself
<1>5. CASE CancelStep
  <2>1. CASE Stop
    <3>1. /\ op["stop"].step = "idle" /\ Enter("stop")
          /\ UNCHANGED <<item, at, lock, kids, moving>>
      BY <2>1 DEF Stop, work
    <3> QED BY <1>0, <1>ops, <3>1, EnterEffect, AfterFacts DEF Moved
  <2>2. CASE KidsEnd
    BY <1>0, <2>2 DEF KidsEnd, work
  <2>3. ASSUME NEW o \in Ops, CancelEntered(o)
        PROVE  LockKept'
    <3>1. /\ op[o].step = "lock" /\ ~CancelHeld
          /\ Moved(op, o, "task", op') \/ Moved(op, o, After(o), op')
          /\ UNCHANGED <<item, at, lock, kids, moving>>
      BY <1>0, <2>3, EnteredEffect
    <3> QED BY <1>0, <1>ops, <3>1, AfterFacts DEF Moved
  <2>4. ASSUME NEW o \in Ops, TurnCancelled(o)
        PROVE  LockKept'
    <3>1. /\ op[o].step = "task" /\ Moved(op, o, IF kids' THEN "children" ELSE After(o), op')
          /\ at' = "none" /\ kids' \in BOOLEAN /\ UNCHANGED <<lock, moving>>
      BY <1>0, <2>4, CancelledEffect
    <3> QED BY <1>0, <1>ops, <3>1, AfterFacts DEF Moved
  <2>5. ASSUME NEW o \in Ops, CancelDone(o)
        PROVE  LockKept'
    <3>1. /\ op[o].step = "children" /\ ~kids /\ Moved(op, o, After(o), op')
          /\ UNCHANGED <<item, at, lock, kids, moving>>
      BY <1>0, <2>5, DoneEffect
    <3> QED BY <1>0, <1>ops, <3>1, AfterFacts DEF Moved
  <2> QED BY <1>5, <2>1, <2>2, <2>3, <2>4, <2>5 DEF CancelStep
<1>6. CASE PauseStep
  <2>1. CASE PauseBegin
    <3>1. /\ lock = "none" /\ lock' = "pause" /\ Enter("pause") /\ "pause" \in Ops
          /\ UNCHANGED <<item, at, kids, moving>>
      BY <1>ops, <2>1 DEF PauseBegin, work
    <3> QED BY <1>0, <1>ops, <3>1, EnterEffect, AfterFacts DEF Moved
  <2>2. CASE PauseSettle
    <3>1. /\ op["pause"].step = "settle" /\ UNCHANGED <<item, at, kids, moving>>
          /\ "pause" \in Ops /\ "save" \in Steps
      BY <1>ops, <2>2 DEF PauseSettle, work, Steps
    <3>2. CASE grip[1] # gen
      <4>1. op' = [op EXCEPT !["pause"] = IdleOp]
        BY <2>2, <3>2 DEF PauseSettle
      <4>2. Moved(op, "pause", "idle", op')
        BY <1>0, <3>1, <4>1, IdleEffect
      <4> QED BY <1>0, <1>ops, <3>1, <4>2 DEF Moved
    <3>3. CASE grip[1] = gen
      <4>1. op' = [op EXCEPT !["pause"].step = "save"] /\ lock' = lock
        BY <2>2, <3>3 DEF PauseSettle
      <4>2. Moved(op, "pause", "save", op')
        BY <1>0, <3>1, <4>1, OpStep
      <4> QED BY <1>0, <1>ops, <3>1, <4>1, <4>2 DEF Moved
    <3> QED BY <3>2, <3>3
  <2>3. CASE PauseSave
    <3>1. /\ op["pause"].step = "save" /\ UNCHANGED <<item, at, kids, moving>>
          /\ "pause" \in Ops /\ op' = [op EXCEPT !["pause"] = IdleOp]
      BY <1>ops, <2>3 DEF PauseSave, work
    <3>2. Moved(op, "pause", "idle", op')
      BY <1>0, <3>1, IdleEffect
    <3> QED BY <1>0, <1>ops, <3>1, <3>2 DEF Moved
  <2>4. CASE ResumeBegin \/ ResumeQueue \/ ResumeSave
    <3>1. lock # "pause" /\ UNCHANGED <<op, item, at, kids, moving>>
      BY <2>4 DEF ResumeBegin, ResumeQueue, ResumeSave, work
    <3> QED BY <1>0, <3>1
  <2> QED BY <1>6, <2>1, <2>2, <2>3, <2>4 DEF PauseStep
<1>7. CASE OtherStep
  <2>1. ASSUME NEW r \in Request, Submit(r)
        PROVE  LockKept'
    BY <1>0, <2>1 DEF Submit, work
  <2>2. CASE SubmitSaved
    BY <1>0, <2>2 DEF SubmitSaved, work
  <2>3. CASE TakeItem
    BY <1>0, <2>3 DEF TakeItem, ctrl
  <2>4. CASE StartTurn
    BY <1>0, <2>4 DEF StartTurn, ctrl
  <2>5. CASE Clear
    <3>1. /\ ~moving /\ moving' = TRUE /\ Enter("clear") /\ "clear" \in Ops
          /\ UNCHANGED <<item, at, kids, lock>>
      BY <1>ops, <2>5 DEF Clear, work
    <3> QED BY <1>0, <1>ops, <3>1, EnterEffect, AfterFacts DEF Moved
  <2>6. CASE ClearDone
    <3>1. /\ op["clear"].step = "clean" /\ UNCHANGED <<item, at, kids, lock>>
          /\ "clear" \in Ops /\ op' = [op EXCEPT !["clear"] = IdleOp]
      BY <1>ops, <2>6 DEF ClearDone, work
    <3>2. Moved(op, "clear", "idle", op')
      BY <1>0, <3>1, IdleEffect
    <3> QED BY <1>0, <1>ops, <3>1, <3>2 DEF Moved
  <2>7. CASE Crash
    BY <1>0, <1>ops, <2>7, CrashEffect DEF Crash, Leave
  <2>8. CASE Load
    BY <1>0, <2>8 DEF Load, ctrl, work
  <2> QED BY <1>7, <2>1, <2>2, <2>3, <2>4, <2>5, <2>6, <2>7, <2>8 DEF OtherStep
<1> QED BY <1>0, <1>1, <1>2, <1>3, <1>4, <1>5, <1>6, <1>7, StepCases

-----------------------------------------------------------------------------
(* Items and pauses.                                                       *)

LEMMA PauseFacts ==
  ASSUME NEW p, IsPause(p)
  PROVE  /\ p # NoPause /\ p.req \in Request /\ p.turn \in BOOLEAN /\ p.sent \in BOOLEAN
         /\ p.queued \in Seq(Request) /\ DOMAIN p.queued = 1..Len(p.queued)
         /\ Len(p.queued) \in Nat
BY TurnControlAssumption DEF IsPause, NoPause

LEMMA ItemFacts ==
  ASSUME NEW i, NEW g \in Nat, IsItem(i, g)
  PROVE  /\ i # NoItem /\ i.req \in Request /\ i.resumed \in BOOLEAN /\ i.turn \in BOOLEAN
         /\ i.sent \in BOOLEAN /\ i.gen \in 0..g /\ i.tgen \in Nat
BY TurnControlAssumption DEF IsItem, NoItem

\* A later generation only widens the type.
LEMMA ItemLater ==
  ASSUME NEW i, NEW g \in Nat, IsItem(i, g)
  PROVE  IsItem(i, g + 1)
<1>1. i \in [req : Request, resumed : BOOLEAN, turn : BOOLEAN, sent : BOOLEAN,
             sup : {i.sup}, gen : 0..g, tgen : Nat]
  BY DEF IsItem
<1>2. 0..g \subseteq 0..(g + 1)
  OBVIOUS
<1> QED BY <1>1, <1>2 DEF IsItem

\* The items a paused queue is restored as.
LEMMA FreshFacts ==
  ASSUME NEW r \in Request, gen \in Nat
  PROVE  IsItem(Fresh(r), gen) /\ Fresh(r).req = r /\ Fresh(r).gen = gen /\ ~Fresh(r).resumed
BY DEF Fresh, IsItem

LEMMA SnapshotFacts ==
  ASSUME NEW p, IsPause(p), NEW q, IsSeq(q), \A i \in DOMAIN q : q[i].req \in Request
  PROVE  /\ IsPause(Snapshot(p, q)) /\ Snapshot(p, q).req = p.req
         /\ DOMAIN Snapshot(p, q).queued = DOMAIN q
         /\ \A i \in DOMAIN q : Snapshot(p, q).queued[i] = q[i].req
<1> DEFINE rs == [i \in DOMAIN q |-> q[i].req]
           n == Snapshot(p, q)
<1>1. Len(q) \in Nat /\ DOMAIN q = 1..Len(q)
  BY DEF IsSeq
<1>2. rs \in Seq(Request) /\ DOMAIN rs = DOMAIN q /\ \A i \in DOMAIN q : rs[i] = q[i].req
  BY <1>1
<1>3. n = [p EXCEPT !.queued = rs]
  BY DEF Snapshot
<1> HIDE DEF rs, n
<1>4. p \in [req : Request, turn : BOOLEAN, sent : BOOLEAN, sup : {p.sup}, queued : Seq(Request)]
  BY DEF IsPause
<1>5. n \in [req : Request, turn : BOOLEAN, sent : BOOLEAN, sup : {p.sup}, queued : Seq(Request)]
      /\ n.req = p.req /\ n.queued = rs /\ n.sup = p.sup
  BY <1>2, <1>3, <1>4
<1> QED BY <1>2, <1>5 DEF IsPause, n

LEMMA PausingFacts ==
  ASSUME IsItem(item, gen), gen \in Nat
  PROVE  IsPause(Pausing) /\ Pausing.req = item.req /\ DOMAIN Pausing.queued = {}
<1> DEFINE none == <<>>
           more == (IF HasTurn THEN item.sup ELSE <<>>) \o rows
           n == Pausing
<1>1. none \in Seq(Request) /\ DOMAIN none = {}
  BY EmptyIsSeq, EmptySeq
<1>2. n = [req |-> item.req, turn |-> HasTurn, sent |-> TRUE, sup |-> more, queued |-> none]
  BY DEF Pausing
<1>3. HasTurn \in BOOLEAN
  BY DEF HasTurn
<1> HIDE DEF none, more, n
<1>4. n.req = item.req /\ n.queued = none /\ n.sup = more /\ item.req \in Request
  BY <1>2, ItemFacts
<1>5. n \in [req : Request, turn : BOOLEAN, sent : BOOLEAN, sup : {n.sup}, queued : Seq(Request)]
  BY <1>1, <1>2, <1>3, <1>4
<1> QED BY <1>1, <1>4, <1>5 DEF IsPause, n

LEMMA SettledFacts ==
  ASSUME IsPause(paused), IsSeq(pending), NEW it,
         \A i \in DOMAIN pending : pending[i].req \in Request
  PROVE  /\ IsPause(Settled(it)) /\ Settled(it).req = paused.req
         /\ DOMAIN Settled(it).queued = DOMAIN pending
         /\ \A i \in DOMAIN pending : Settled(it).queued[i] = pending[i].req
<1> DEFINE told == paused.req \in sent
           left == Undelivered(paused.sup)
           kept == IF told THEN Without(left, ToSet(it.sup)) ELSE left
           p == IF paused.turn THEN [paused EXCEPT !.sent = told, !.sup = kept]
                               ELSE [paused EXCEPT !.sup = left]
<1>1. Settled(it) = Snapshot(p, pending)
  BY DEF Settled
<1>2. told \in BOOLEAN
  OBVIOUS
<1> HIDE DEF told, left, kept
<1>3. paused \in [req : Request, turn : BOOLEAN, sent : BOOLEAN, sup : {paused.sup},
                  queued : Seq(Request)]
  BY DEF IsPause
<1>4. /\ p \in [req : Request, turn : BOOLEAN, sent : BOOLEAN, sup : {p.sup},
                queued : Seq(Request)]
      /\ p.req = paused.req
  <2>1. CASE paused.turn
    <3>1. p = [paused EXCEPT !.sent = told, !.sup = kept]
      BY <2>1
    <3> HIDE DEF p
    <3>2. p.sup = kept /\ p.req = paused.req
      BY <1>3, <3>1
    <3>3. p \in [req : Request, turn : BOOLEAN, sent : BOOLEAN, sup : {kept}, queued : Seq(Request)]
      BY <1>2, <1>3, <3>1
    <3> QED BY <3>2, <3>3
  <2>2. CASE ~paused.turn
    <3>1. p = [paused EXCEPT !.sup = left]
      BY <2>2
    <3> HIDE DEF p
    <3>2. p.sup = left /\ p.req = paused.req
      BY <1>3, <3>1
    <3>3. p \in [req : Request, turn : BOOLEAN, sent : BOOLEAN, sup : {left}, queued : Seq(Request)]
      BY <1>3, <3>1
    <3> QED BY <3>2, <3>3
  <2> QED BY <1>3, <2>1, <2>2
<1> HIDE DEF p
<1> QED BY <1>1, <1>4, SnapshotFacts DEF IsPause

\* The queue as the next to use it finds it: in order, behind the pause and
\* the current item, and what the pause kept is in it.
LEMMA WithRestoredFacts ==
  ASSUME TurnInv
  PROVE  /\ IsSeq(WithRestored)
         /\ \A i \in DOMAIN WithRestored :
              /\ IsItem(WithRestored[i], gen) /\ WithRestored[i].req \in Request
              /\ item # NoItem => Before(order, item.req, WithRestored[i].req)
              /\ IsPaused => Before(order, paused.req, WithRestored[i].req)
              /\ \A j \in DOMAIN WithRestored :
                   i <= j => Before(order, WithRestored[i].req, WithRestored[j].req)
<1>0. /\ gen \in Nat /\ IsSeq(pending) /\ \A i \in DOMAIN pending : IsItem(pending[i], gen)
      /\ paused # NoPause => IsPause(paused)
  BY DEF TurnInv, Shape
<1>1. CASE IsPaused /\ pending = <<>>
  <2> DEFINE n == Len(paused.queued)
             w == WithRestored
  <2>1. IsPause(paused)
    BY <1>0, <1>1 DEF IsPaused
  <2>2. n \in Nat /\ DOMAIN paused.queued = 1..n /\ \A i \in 1..n : paused.queued[i] \in Request
    BY <2>1, PauseFacts
  <2>3. w = [i \in 1..n |-> Fresh(paused.queued[i])]
    BY <1>1, <2>2 DEF WithRestored, Restored
  <2> HIDE DEF n, w
  <2>4. IsSeq(w) /\ DOMAIN w = 1..n
    BY <2>2, <2>3, EnumSeq
  <2>5. \A i \in 1..n : IsItem(w[i], gen) /\ w[i].req = paused.queued[i]
    BY <1>0, <2>2, <2>3, FreshFacts
  <2>6. /\ PauseOrdered(order, paused)
        /\ item # NoItem => item.req = paused.req
    BY <1>1 DEF TurnInv, Ordered, PauseHeld
  <2>7. w = WithRestored
    BY DEF w
  <2> QED BY <2>2, <2>4, <2>5, <2>6, <2>7 DEF PauseOrdered
<1>2. CASE ~(IsPaused /\ pending = <<>>)
  <2>1. WithRestored = pending
    BY <1>2 DEF WithRestored
  <2>2. \A i \in DOMAIN pending : pending[i].req \in Request
    BY <1>0, ItemFacts
  <2>3. Ordered
    BY DEF TurnInv
  <2> QED BY <1>0, <2>1, <2>2, <2>3 DEF Ordered
<1> QED BY <1>1, <1>2

LEMMA ResumptionFacts ==
  ASSUME IsPause(paused), gen \in Nat, tgen \in Nat
  PROVE  IsItem(Resumption, gen) /\ Resumption.req = paused.req
<1> DEFINE n == Resumption
           more == paused.sup
<1>1. n = [req |-> paused.req, resumed |-> TRUE, turn |-> paused.turn, sent |-> paused.sent,
           sup |-> more, gen |-> gen, tgen |-> tgen]
  BY DEF Resumption
<1>2. paused.req \in Request /\ paused.turn \in BOOLEAN /\ paused.sent \in BOOLEAN
  BY PauseFacts
<1>3. gen \in 0..gen
  OBVIOUS
<1> HIDE DEF n, more
<1> QED BY <1>1, <1>2, <1>3 DEF IsItem, n

-----------------------------------------------------------------------------
(* Replacing the conversation, and the death of the process.               *)

LEMMA OldStep ==
  ASSUME TurnInv, [Next]_vars
  PROVE  NothingOfTheOld'
<1> USE DEF NothingOfTheOld, CancelLocked, CancelHeld, Cancelled, HasTurn, IsPaused
<1>0. /\ IsOps(op) /\ (at = "none" <=> item = NoItem) /\ tgen \in Nat /\ gen \in Nat
      /\ grip \in Nat \X Nat /\ grip[1] <= gen /\ (item # NoItem => IsItem(item, gen))
      /\ NothingOfTheOld
  BY DEF TurnInv, Shape
<1>ops. Ops = {"stop", "pause", "clear"}
  BY DEF Ops
<1>1. CASE Elsewhere
  BY <1>0, <1>1 DEF Elsewhere
<1>2. CASE TurnGoesOn
  BY <1>0, <1>2 DEF TurnGoesOn
<1>3. CASE ItemEnds
  BY <1>0, <1>3 DEF ItemEnds
<1>4. CASE PausesItself \/ SettlesItself
  BY <1>0, <1>4 DEF PausesItself, SettlesItself
<1>5. CASE CancelStep
  <2>1. CASE Stop
    <3>1. /\ op["stop"].step = "idle" /\ Enter("stop")
          /\ UNCHANGED <<item, at, pending, paused, grip, gen, up, moving>>
      BY <2>1 DEF Stop, work, queue, pause
    <3> QED BY <1>0, <1>ops, <3>1, EnterEffect DEF Moved
  <2>2. CASE KidsEnd
    BY <1>0, <2>2 DEF KidsEnd, work, queue, pause, life
  <2>3. ASSUME NEW o \in Ops, CancelEntered(o)
        PROVE  NothingOfTheOld'
    <3>1. /\ op[o].step = "lock" /\ ~CancelHeld
          /\ UNCHANGED <<item, at, pending, paused, grip, gen, up, moving>>
      BY <1>0, <2>3, EnteredEffect
    <3> QED BY <1>0, <3>1
  <2>4. ASSUME NEW o \in Ops, TurnCancelled(o)
        PROVE  NothingOfTheOld'
    <3>1. /\ at' = "none" /\ item' = NoItem
          /\ UNCHANGED <<pending, paused, grip, gen, up, moving>>
      BY <1>0, <2>4, CancelledEffect
    <3> QED BY <1>0, <3>1
  <2>5. ASSUME NEW o \in Ops, CancelDone(o)
        PROVE  NothingOfTheOld'
    <3>1. /\ op[o].step = "children" /\ Moved(op, o, After(o), op')
          /\ UNCHANGED <<item, at, pending, paused, grip, gen, up, moving>>
      BY <1>0, <2>5, DoneEffect
    <3> QED BY <1>0, <1>ops, <3>1 DEF Moved
  <2> QED BY <1>5, <2>1, <2>2, <2>3, <2>4, <2>5 DEF CancelStep
<1>6. CASE PauseStep
  <2>1. CASE PauseBegin
    BY <2>1 DEF PauseBegin
  <2>2. CASE PauseSettle
    <3>1. SUFFICES ASSUME moving
                   PROVE  NothingOfTheOld'
      BY <2>2 DEF PauseSettle
    <3>2. op["pause"].step = "settle" /\ op' = [op EXCEPT !["pause"] = IdleOp]
          /\ UNCHANGED <<item, at, pending, paused, grip, gen, up, moving>>
      BY <1>0, <2>2, <3>1 DEF PauseSettle, work, queue, life
    <3>3. Moved(op, "pause", "idle", op')
      BY <1>0, <1>ops, <3>2, IdleEffect
    <3> QED BY <1>0, <1>ops, <3>2, <3>3 DEF Moved
  <2>3. CASE PauseSave
    <3>1. op["pause"].step = "save" /\ op' = [op EXCEPT !["pause"] = IdleOp]
          /\ UNCHANGED <<item, at, pending, paused, grip, gen, up, moving>>
      BY <2>3 DEF PauseSave, work, queue, life
    <3>2. Moved(op, "pause", "idle", op')
      BY <1>0, <1>ops, <3>1, IdleEffect
    <3> QED BY <1>0, <1>ops, <3>1, <3>2 DEF Moved
  <2>4. CASE ResumeBegin
    BY <2>4 DEF ResumeBegin
  <2>5. CASE ResumeQueue \/ ResumeSave
    <3>1. SUFFICES ASSUME moving
                   PROVE  NothingOfTheOld'
      BY <2>5 DEF ResumeQueue, ResumeSave
    <3>2. Expired
      BY <1>0, <3>1 DEF Expired
    <3> QED BY <1>0, <2>5, <3>1, <3>2 DEF ResumeQueue, ResumeSave, work, queue, life
  <2> QED BY <1>6, <2>1, <2>2, <2>3, <2>4, <2>5 DEF PauseStep
<1>7. CASE OtherStep
  <2>1. ASSUME NEW r \in Request, Submit(r)
        PROVE  NothingOfTheOld'
    BY <2>1 DEF Submit
  <2>2. CASE SubmitSaved
    BY <1>0, <2>2 DEF SubmitSaved, work, queue, life
  <2>3. CASE TakeItem
    BY <1>0, <2>3 DEF TakeItem, ctrl
  <2>4. CASE StartTurn
    BY <1>0, <2>4 DEF StartTurn, MayStart, Runs, ctrl
  <2>5. CASE Clear
    <3>1. /\ ~moving /\ up /\ up' = up /\ gen' = gen + 1 /\ paused' = NoPause
          /\ pending' = <<>> /\ Enter("clear") /\ UNCHANGED <<item, at, grip>>
      BY <2>5 DEF Clear, work
    <3>2. item # NoItem => item.gen # gen'
      BY <1>0, <3>1, ItemFacts
    <3>3. op["clear"].step = "idle" /\ (CancelLocked /\ HasTurn => Cancelled)
      BY <3>1 DEF TurnInv, LockKept
    <3>4. HasTurn' => Cancelled'
      BY <1>0, <1>ops, <3>1, <3>3, EnterEffect DEF Moved
    <3> QED BY <1>0, <3>1, <3>2, <3>4
  <2>6. CASE ClearDone
    BY <2>6 DEF ClearDone
  <2>7. CASE Crash
    BY <2>7 DEF Crash
  <2>8. CASE Load
    BY <1>0, <2>8 DEF Load, ctrl, work
  <2> QED BY <1>7, <2>1, <2>2, <2>3, <2>4, <2>5, <2>6, <2>7, <2>8 DEF OtherStep
<1> QED BY <1>0, <1>1, <1>2, <1>3, <1>4, <1>5, <1>6, <1>7, StepCases

LEMMA DownStep ==
  ASSUME TurnInv, [Next]_vars
  PROVE  DownIsEmpty'
<1> USE DEF DownIsEmpty, IsPaused
<1>0. /\ IsOps(op) /\ (at = "none" <=> item = NoItem) /\ DownIsEmpty /\ NothingOfTheOld
  BY DEF TurnInv, Shape
<1>ops. Ops = {"stop", "pause", "clear"}
  BY DEF Ops
<1>1. CASE Crash
  BY <1>1, CrashEffect DEF Crash, Leave
<1>2. CASE up' /\ ~Crash
  BY <1>2
<1>3. CASE ~up /\ ~up'
  <2>1. /\ item = NoItem /\ at = "none" /\ pending = <<>> /\ ~IsPaused /\ lock = "none"
        /\ \A o \in Ops : op[o].step = "idle"
    BY <1>0, <1>3
  <2>2. CASE Elsewhere
    BY <1>3, <2>1, <2>2 DEF Elsewhere
  <2>3. ~(TurnGoesOn \/ ItemEnds \/ PausesItself \/ SettlesItself)
    BY <2>1 DEF TurnGoesOn, ItemEnds, PausesItself, SettlesItself, HasTurn
  <2>4. CASE CancelStep
    BY <1>3, <2>1, <2>4 DEF CancelStep, Stop, KidsEnd, CancelEntered, TurnCancelled,
       CancelDone, work, queue, pause
  <2>5. ~PauseStep
    BY <1>3, <1>ops, <2>1 DEF PauseStep, PauseBegin, PauseSettle, PauseSave, ResumeBegin,
       ResumeQueue, ResumeSave
  <2>6. ~OtherStep
    BY <1>3, <1>ops, <2>1 DEF OtherStep, Submit, SubmitSaved, TakeItem, StartTurn,
       MayStart, Runs, Clear, ClearDone, Crash, Load
  <2> QED BY <1>0, <2>2, <2>3, <2>4, <2>5, <2>6, StepCases
<1>4. up /\ ~up' => Crash
  <2>1. SUFFICES ASSUME up, ~up', ~Crash
                 PROVE  FALSE
    OBVIOUS
  <2>2. ~(Elsewhere \/ TurnGoesOn \/ ItemEnds \/ PausesItself \/ SettlesItself)
    BY <2>1 DEF Elsewhere, TurnGoesOn, ItemEnds, PausesItself, SettlesItself
  <2>3. ~(CancelStep \/ PauseStep)
    BY <2>1 DEF CancelStep, Stop, KidsEnd, CancelEntered, TurnCancelled, CancelDone,
       PauseStep, PauseBegin, PauseSettle, PauseSave, ResumeBegin, ResumeQueue,
       ResumeSave, life
  <2>4. ~OtherStep
    BY <2>1 DEF OtherStep, Submit, SubmitSaved, TakeItem, StartTurn, Clear, ClearDone,
       Load, life
  <2> QED BY <1>0, <2>2, <2>3, <2>4, StepCases
<1> QED BY <1>1, <1>2, <1>3, <1>4

-----------------------------------------------------------------------------
(* Pauses and resumes in progress.                                         *)

\* While the generations only grow, a resume that was not overtaken is one
\* that was not before.
LEMMA StillExpired ==
  ASSUME grip \in Nat \X Nat, grip[1] <= gen, grip[2] <= tgen, gen \in Nat, tgen \in Nat,
         grip' = grip, gen' \in {gen, gen + 1}, tgen' \in {tgen, tgen + 1}
  PROVE  Expired => Expired'
<1>1. grip = <<grip[1], grip[2]>> /\ grip[1] \in Nat /\ grip[2] \in Nat
  OBVIOUS
<1> DEFINE a == grip[1]
           b == grip[2]
<1>2. grip = <<a, b>> /\ a \in Nat /\ b \in Nat /\ a <= gen /\ b <= tgen
  BY <1>1
<1> HIDE DEF a, b
<1>3. Expired => a # gen \/ b # tgen
  BY <1>2 DEF Expired
<1>4. a # gen \/ b # tgen => <<a, b>> # <<gen', tgen'>>
  BY <1>2
<1> QED BY <1>2, <1>3, <1>4 DEF Expired

LEMMA HeldStep ==
  ASSUME TurnInv, [Next]_vars
  PROVE  PauseHeld'
<1> USE DEF PauseHeld, IsPaused
<1>0. /\ IsOps(op) /\ (at = "none" <=> item = NoItem) /\ tgen \in Nat /\ gen \in Nat
      /\ grip \in Nat \X Nat /\ grip[1] <= gen /\ grip[2] <= tgen
      /\ (item # NoItem => IsItem(item, gen))
      /\ IsSeq(pending) /\ PauseHeld
  BY DEF TurnInv, Shape
<1>p. IsPaused => IsPause(paused)
  BY DEF TurnInv, Shape
<1>q. \A i \in DOMAIN pending : pending[i].req \in Request
  BY <1>0, ItemFacts DEF TurnInv, Shape
<1>ops. Ops = {"stop", "pause", "clear"}
  BY DEF Ops
<1>1. CASE Elsewhere
  BY <1>0, <1>1 DEF Elsewhere, Expired
<1>2. CASE TurnGoesOn
  BY <1>0, <1>2 DEF TurnGoesOn, Expired
<1>3. CASE ItemEnds
  BY <1>0, <1>3 DEF ItemEnds, Expired
<1>4. CASE PausesItself
  <2>1. IsPause(Pausing) /\ Pausing.req = item.req
    BY <1>0, <1>4, PausingFacts DEF PausesItself
  <2>2. lock' \notin {"pause", "resume", "resumeSave"} /\ paused' # NoPause
    BY <1>4, <2>1, PauseFacts DEF PausesItself, ControlBusy
  <2> QED BY <1>4, <2>1, <2>2 DEF PausesItself
<1>5. CASE SettlesItself
  <2>1. IsPaused /\ lock \notin {"pause", "resume", "resumeSave"}
    BY <1>0, <1>5 DEF SettlesItself
  <2>2. IsPause(Settled(item)) /\ Settled(item).req = paused.req
    BY <1>0, <1>p, <1>q, <2>1, SettledFacts
  <2>3. paused' # NoPause
    BY <1>5, <2>2, PauseFacts DEF SettlesItself
  <2> QED BY <1>0, <1>5, <2>1, <2>2, <2>3 DEF SettlesItself
<1>6. CASE CancelStep
  <2>1. CASE Stop
    <3>1. Enter("stop") /\ UNCHANGED <<item, at, paused, ready, grip, gen, lock>>
      BY <2>1 DEF Stop, work, queue, pause
    <3>2. tgen' \in {tgen, tgen + 1}
      BY <1>0, <1>ops, <3>1, EnterEffect
    <3> QED BY <1>0, <3>1, <3>2, StillExpired
  <2>2. CASE KidsEnd
    BY <1>0, <2>2 DEF KidsEnd, work, queue, pause, Expired
  <2>3. ASSUME NEW o \in Ops, CancelEntered(o)
        PROVE  PauseHeld'
    <3>1. UNCHANGED <<item, at, paused, ready, grip, gen, lock>> /\ tgen' = tgen + 1
      BY <1>0, <2>3, EnteredEffect
    <3> QED BY <1>0, <3>1, StillExpired
  <2>4. ASSUME NEW o \in Ops, TurnCancelled(o)
        PROVE  PauseHeld'
    <3>1. at' = "none" /\ item' = NoItem /\ UNCHANGED <<paused, ready, grip, gen, tgen, lock>>
      BY <1>0, <2>4, CancelledEffect
    <3> QED BY <1>0, <3>1 DEF Expired
  <2>5. ASSUME NEW o \in Ops, CancelDone(o)
        PROVE  PauseHeld'
    <3>1. UNCHANGED <<item, at, paused, ready, grip, gen, tgen, lock>>
      BY <1>0, <2>5, DoneEffect
    <3> QED BY <1>0, <3>1 DEF Expired
  <2> QED BY <1>6, <2>1, <2>2, <2>3, <2>4, <2>5 DEF CancelStep
<1>7. CASE PauseStep
  <2>1. CASE PauseBegin
    <3>1. IsPause(Pausing) /\ Pausing.req = item.req
      BY <1>0, <2>1, PausingFacts DEF PauseBegin
    <3>2. /\ lock' = "pause" /\ paused' = Pausing /\ ready' = FALSE /\ item' = item
          /\ at' = at /\ at \notin {"tpause", "tsave"}
      BY <2>1 DEF PauseBegin, ControlBusy, work
    <3>3. paused' # NoPause
      BY <3>1, <3>2, PauseFacts
    <3> QED BY <3>1, <3>2, <3>3
  <2>2. CASE PauseSettle
    <3>1. lock = "pause" /\ UNCHANGED <<item, at, ready, grip, gen, tgen>>
      BY <1>ops, <2>2 DEF PauseSettle, work, queue, TurnInv, LockKept
    <3>2. CASE grip[1] # gen
      <4>1. lock' = "none" /\ paused' = paused
        BY <2>2, <3>2 DEF PauseSettle
      <4> QED BY <1>0, <3>1, <4>1
    <3>3. CASE grip[1] = gen
      <4>1. lock' = lock /\ paused' = Settled(op["pause"].target) /\ IsPaused
        BY <1>0, <2>2, <3>1, <3>3 DEF PauseSettle
      <4>2. IsPause(paused') /\ paused'.req = paused.req
        BY <1>0, <1>p, <1>q, <4>1, SettledFacts
      <4>3. paused' # NoPause
        BY <4>2, PauseFacts
      <4> QED BY <1>0, <3>1, <4>1, <4>2, <4>3
    <3> QED BY <3>2, <3>3
  <2>3. CASE PauseSave
    <3>1. lock = "pause" /\ lock' = "none" /\ UNCHANGED <<item, at, ready, paused>>
      BY <1>ops, <2>3 DEF PauseSave, work, queue, TurnInv, LockKept
    <3> QED BY <1>0, <3>1
  <2>4. CASE ResumeBegin
    BY <1>0, <2>4 DEF ResumeBegin, ControlBusy, work, queue, pause
  <2>5. CASE ResumeQueue
    <3>1. lock = "resume" /\ UNCHANGED <<item, at, ready, grip, gen, tgen>>
      BY <2>5 DEF ResumeQueue, work
    <3>2. CASE Expired
      <4>1. lock' = "none" /\ paused' = paused
        BY <2>5, <3>2 DEF ResumeQueue
      <4> QED BY <1>0, <3>1, <4>1
    <3>3. CASE ~Expired
      <4>1. lock' = "resumeSave" /\ paused' = Snapshot(paused, WithRestored) /\ IsPaused
        BY <1>0, <2>5, <3>1, <3>3 DEF ResumeQueue
      <4>2. IsPause(paused') /\ paused'.req = paused.req
        BY <1>p, <4>1, WithRestoredFacts, SnapshotFacts
      <4>3. paused' # NoPause
        BY <4>2, PauseFacts
      <4> QED BY <1>0, <3>1, <4>1, <4>2, <4>3
    <3> QED BY <3>2, <3>3
  <2>6. CASE ResumeSave
    <3>1. /\ lock = "resumeSave" /\ lock' = "none" /\ UNCHANGED <<item, at>>
          /\ paused' = NoPause \/ UNCHANGED <<ready, paused>>
      BY <2>6 DEF ResumeSave, work, queue
    <3> QED BY <1>0, <3>1
  <2> QED BY <1>7, <2>1, <2>2, <2>3, <2>4, <2>5, <2>6 DEF PauseStep
<1>8. CASE OtherStep
  <2>1. ASSUME NEW r \in Request, Submit(r)
        PROVE  PauseHeld'
    <3>1. /\ lock' \notin {"pause", "resume", "resumeSave"}
          /\ UNCHANGED <<item, at, ready, grip, gen, tgen>>
      BY <2>1 DEF Submit, work
    <3>2. CASE IsPaused
      <4>1. IsSeq(WithRestored) /\ \A i \in DOMAIN WithRestored : WithRestored[i].req \in Request
        BY WithRestoredFacts
      <4>2. Fresh(r).req \in Request
        BY <1>0, FreshFacts
      <4>3. IsSeq(pending') /\ \A i \in DOMAIN pending' : pending'[i].req \in Request
        <5>1. pending' = Append(WithRestored, Fresh(r))
          BY <2>1 DEF Submit
        <5> QED BY <4>1, <4>2, <5>1, AppendSeq
      <4>4. paused' = Snapshot(paused, pending')
        BY <2>1, <3>2 DEF Submit
      <4>5. IsPause(paused') /\ paused'.req = paused.req
        BY <1>p, <3>2, <4>3, <4>4, SnapshotFacts
      <4>6. paused' # NoPause
        BY <4>5, PauseFacts
      <4> QED BY <1>0, <3>1, <3>2, <4>5, <4>6
    <3>3. CASE ~IsPaused
      BY <1>0, <2>1, <3>1, <3>3 DEF Submit
    <3> QED BY <3>2, <3>3
  <2>2. CASE SubmitSaved
    BY <1>0, <2>2 DEF SubmitSaved, work, queue
  <2>3. CASE TakeItem
    BY <1>0, <2>3 DEF TakeItem, pause, ctrl, Expired
  <2>4. CASE StartTurn
    BY <1>0, <2>4 DEF StartTurn, pause, ctrl, queue, Expired
  <2>5. CASE Clear
    <3>1. gen' = gen + 1 /\ paused' = NoPause /\ UNCHANGED <<item, at, lock, grip>> /\ Enter("clear")
      BY <2>5 DEF Clear, work
    <3>2. item # NoItem => item.gen # gen'
      BY <1>0, <3>1, ItemFacts
    <3>3. grip[1] # gen'
      BY <1>0, <3>1
    <3>4. Expired'
      BY <1>0, <3>1, <3>3 DEF Expired
    <3> QED BY <1>0, <3>1, <3>2, <3>3, <3>4
  <2>6. CASE ClearDone
    <3>1. op["clear"].step # "idle" /\ paused' = paused /\ UNCHANGED <<item, at, grip, gen, tgen, lock>>
      BY <2>6 DEF ClearDone, work
    <3>2. moving /\ ~IsPaused
      BY <3>1 DEF TurnInv, LockKept, NothingOfTheOld
    <3> QED BY <1>0, <3>1, <3>2 DEF Expired
  <2>7. CASE Crash
    BY <2>7 DEF Crash, Leave
  <2>8. CASE Load
    <3>1. lock = "none" /\ item = NoItem
      BY <2>8 DEF Load, TurnInv, DownIsEmpty
    <3> QED BY <1>0, <2>8, <3>1 DEF Load, ctrl, work
  <2> QED BY <1>8, <2>1, <2>2, <2>3, <2>4, <2>5, <2>6, <2>7, <2>8 DEF OtherStep
<1> QED BY <1>0, <1>1, <1>2, <1>3, <1>4, <1>5, <1>6, <1>7, <1>8, StepCases

-----------------------------------------------------------------------------
(* Types.                                                                  *)

\* Dispatching an item notes the turn generation in it.
LEMMA NotedFacts ==
  ASSUME NEW i, NEW g \in Nat, IsItem(i, g), NEW t \in Nat
  PROVE  /\ IsItem([i EXCEPT !.tgen = t], g) /\ [i EXCEPT !.tgen = t].req = i.req
<1> DEFINE n == [i EXCEPT !.tgen = t]
<1>1. i \in [req : Request, resumed : BOOLEAN, turn : BOOLEAN, sent : BOOLEAN,
             sup : {i.sup}, gen : 0..g, tgen : Nat]
  BY DEF IsItem
<1>2. n \in [req : Request, resumed : BOOLEAN, turn : BOOLEAN, sent : BOOLEAN,
             sup : {n.sup}, gen : 0..g, tgen : Nat] /\ n.req = i.req
  BY <1>1
<1> QED BY <1>2 DEF IsItem

LEMMA TakenFacts ==
  ASSUME TurnInv, TakeItem
  PROVE  /\ pending \in Seq({pending[i] : i \in DOMAIN pending}) /\ IsSeq(pending')
         /\ DOMAIN pending = 1..Len(pending) /\ Len(pending) \in Nat /\ Len(pending) >= 1
         /\ DOMAIN pending' = 1..(Len(pending) - 1)
         /\ \A i \in DOMAIN pending' : pending'[i] = pending[i + 1]
         /\ IsItem(item', gen) /\ item' # NoItem /\ item'.req = pending[1].req
<1>1. IsSeq(pending) /\ pending # <<>> /\ pending' = Tail(pending) /\ gen \in Nat /\ tgen \in Nat
  BY DEF TurnInv, Shape, TakeItem
<1>2. /\ IsSeq(pending') /\ DOMAIN pending' = 1..(Len(pending) - 1)
      /\ Len(pending) \in Nat /\ DOMAIN pending = 1..Len(pending) /\ Len(pending) >= 1
      /\ \A i \in 1..(Len(pending) - 1) : pending'[i] = pending[i + 1]
      /\ Head(pending) = pending[1]
  BY <1>1, TailSeq
<1> DEFINE i == pending[1]
           n == [i EXCEPT !.tgen = tgen]
<1>3. IsItem(i, gen)
  <2>1. 1 \in DOMAIN pending
    BY <1>2
  <2>2. \A j \in DOMAIN pending : IsItem(pending[j], gen)
    BY DEF TurnInv, Shape
  <2> QED BY <2>1, <2>2
<1>4. item' = i \/ item' = n
  BY <1>2 DEF TakeItem
<1> HIDE DEF i
<1>5. IsItem(n, gen) /\ n.req = i.req
  BY <1>1, <1>3, NotedFacts
<1> HIDE DEF n
<1>6. IsItem(item', gen) /\ item'.req = i.req
  BY <1>3, <1>4, <1>5
<1>7. item' # NoItem
  BY <1>1, <1>6, ItemFacts
<1> QED BY <1>1, <1>2, <1>6, <1>7 DEF IsSeq, i

\* The queue after a submission: what it was, restored if need be, and r.
LEMMA SubmittedFacts ==
  ASSUME TurnInv, NEW r \in Request, Submit(r)
  PROVE  /\ IsSeq(pending') /\ \A i \in DOMAIN pending' : IsItem(pending'[i], gen)
         /\ Len(WithRestored) \in Nat /\ DOMAIN WithRestored = 1..Len(WithRestored)
         /\ DOMAIN pending' = 1..(Len(WithRestored) + 1)
         /\ \A i \in 1..Len(WithRestored) : pending'[i] = WithRestored[i]
         /\ pending'[Len(WithRestored) + 1].req = r
         /\ \A i \in DOMAIN pending' : pending'[i].req \in Request
<1> DEFINE w == WithRestored
           n == Len(w)
<1>1. pending' = Append(w, Fresh(r)) /\ gen \in Nat
  BY DEF Submit, TurnInv, Shape
<1>2. IsSeq(w) /\ \A i \in DOMAIN w : IsItem(w[i], gen) /\ w[i].req \in Request
  BY WithRestoredFacts
<1> HIDE DEF w
<1>3. /\ IsSeq(pending') /\ DOMAIN pending' = 1..(n + 1) /\ n \in Nat /\ DOMAIN w = 1..n
      /\ \A i \in 1..n : pending'[i] = w[i]
      /\ pending'[n + 1] = Fresh(r)
  BY <1>1, <1>2, AppendSeq
<1>4. IsItem(Fresh(r), gen) /\ Fresh(r).req = r
  BY <1>1, FreshFacts
<1>5. \A i \in DOMAIN pending' : IsItem(pending'[i], gen) /\ pending'[i].req \in Request
  BY <1>2, <1>3, <1>4
<1> QED BY <1>3, <1>4, <1>5 DEF w

\* The order of submission grows by a request that is new to it.
LEMMA SubmitOrder ==
  ASSUME TurnInv, NEW r \in Request, Submit(r)
  PROVE  /\ order' \in Seq(Request)
         /\ \A i, j \in DOMAIN order' : order'[i] = order'[j] => i = j
         /\ \A a, b : Before(order, a, b) => Before(order', a, b)
         /\ \A a : Before(order, a, a) => Before(order', a, r)
         /\ Before(order', r, r)
<1>1. order \in Seq(Request) /\ order' = Append(order, r) /\ r \notin ToSet(order)
  BY DEF TurnInv, Shape, Submit
<1> DEFINE n == Len(order)
<1>2. /\ n \in Nat /\ DOMAIN order = 1..n /\ order' \in Seq(Request) /\ DOMAIN order' = 1..(n + 1)
      /\ \A i \in 1..n : order'[i] = order[i]
      /\ order'[n + 1] = r
  BY <1>1
<1>3. \A i \in 1..n : order[i] # r
  BY <1>1, <1>2 DEF ToSet
<1>4. \A i, j \in 1..n : order[i] = order[j] => i = j
  BY <1>2 DEF TurnInv, Shape
<1> HIDE DEF n
<1> QED BY <1>2, <1>3, <1>4 DEF Before

LEMMA ShapeStep ==
  ASSUME TurnInv, [Next]_vars
  PROVE  Shape'
<1> USE DEF Shape, IsPaused
<1>0. Shape
  BY DEF TurnInv
<1>q. \A i \in DOMAIN pending : pending[i].req \in Request
  BY <1>0, ItemFacts
<1>none. IsSeq(<<>>) /\ DOMAIN <<>> = {}
  BY EmptyIsSeq
<1>ops. Ops = {"stop", "pause", "clear"}
  BY DEF Ops
<1>1. CASE Elsewhere
  BY <1>0, <1>1 DEF Elsewhere
<1>2. CASE TurnGoesOn
  BY <1>0, <1>2 DEF TurnGoesOn, HasTurn
<1>3. CASE ItemEnds
  BY <1>0, <1>3 DEF ItemEnds
<1>4. CASE PausesItself
  <2>1. IsPause(Pausing)
    BY <1>0, <1>4, PausingFacts DEF PausesItself
  <2> QED BY <1>0, <1>4, <2>1 DEF PausesItself
<1>5. CASE SettlesItself
  <2>1. IsPaused
    BY <1>0, <1>5 DEF SettlesItself, TurnInv, PauseHeld
  <2>2. IsPause(Settled(item))
    BY <1>0, <1>q, <2>1, SettledFacts
  <2> QED BY <1>0, <1>5, <2>2 DEF SettlesItself
<1>6. CASE CancelStep
  <2>1. CASE Stop
    <3>1. Enter("stop") /\ "stop" \in Ops
          /\ UNCHANGED <<order, gen, grip, pending, item, at, paused, saved, born>>
      BY <1>ops, <2>1 DEF Stop, work, queue, pause, hist
    <3>2. tgen' \in {tgen, tgen + 1} /\ IsOps(op')
      BY <1>0, <3>1, EnterEffect DEF Moved
    <3> QED BY <1>0, <3>1, <3>2
  <2>2. CASE KidsEnd
    BY <1>0, <2>2 DEF KidsEnd, work, queue, pause, hist
  <2>3. ASSUME NEW o \in Ops, CancelEntered(o)
        PROVE  Shape'
    <3>1. /\ UNCHANGED <<order, gen, grip, pending, item, at, paused, saved, born>>
          /\ tgen' = tgen + 1 /\ IsOps(op')
      BY <1>0, <2>3, EnteredEffect DEF Moved
    <3> QED BY <1>0, <3>1
  <2>4. ASSUME NEW o \in Ops, TurnCancelled(o)
        PROVE  Shape'
    <3>1. /\ UNCHANGED <<order, gen, tgen, grip, pending, paused, born>>
          /\ at' = "none" /\ item' = NoItem /\ IsOps(op')
          /\ saved' \in {saved, NoPause} \/ saved' = paused
      BY <1>0, <2>4, CancelledEffect DEF Moved
    <3> QED BY <1>0, <3>1
  <2>5. ASSUME NEW o \in Ops, CancelDone(o)
        PROVE  Shape'
    <3>1. /\ UNCHANGED <<order, gen, tgen, grip, pending, item, at, paused, saved, born>>
          /\ IsOps(op')
      BY <1>0, <2>5, DoneEffect DEF Moved
    <3> QED BY <1>0, <3>1
  <2> QED BY <1>6, <2>1, <2>2, <2>3, <2>4, <2>5 DEF CancelStep
<1>7. CASE PauseStep
  <2>1. CASE PauseBegin
    <3>1. /\ item # NoItem /\ Enter("pause") /\ "pause" \in Ops /\ paused' = Pausing
          /\ grip' = <<gen, tgen>>
          /\ UNCHANGED <<order, gen, pending, item, at, saved, born>>
      BY <1>ops, <2>1 DEF PauseBegin, work, hist
    <3>2. tgen' \in {tgen, tgen + 1} /\ IsOps(op')
      BY <1>0, <3>1, EnterEffect DEF Moved
    <3>3. IsPause(Pausing)
      BY <1>0, <3>1, PausingFacts
    <3> QED BY <1>0, <3>1, <3>2, <3>3
  <2>2. CASE PauseSettle
    <3>1. /\ op["pause"].step = "settle" /\ "pause" \in Ops /\ "save" \in Steps
          /\ UNCHANGED <<order, gen, tgen, grip, pending, item, at, saved, born>>
      BY <1>ops, <2>2 DEF PauseSettle, work, queue, hist, Steps
    <3>2. CASE grip[1] # gen
      <4>1. op' = [op EXCEPT !["pause"] = IdleOp] /\ paused' = paused
        BY <2>2, <3>2 DEF PauseSettle
      <4>2. IsOps(op')
        BY <1>0, <3>1, <4>1, IdleEffect DEF Moved
      <4> QED BY <1>0, <3>1, <4>1, <4>2
    <3>3. CASE grip[1] = gen
      <4>1. op' = [op EXCEPT !["pause"].step = "save"] /\ paused' = Settled(op["pause"].target)
        BY <2>2, <3>3 DEF PauseSettle
      <4>2. IsOps(op')
        BY <1>0, <3>1, <4>1, OpStep DEF Moved
      <4>3. IsPaused
        BY <3>1, <3>3 DEF TurnInv, LockKept, PauseHeld
      <4>4. IsPause(paused')
        BY <1>0, <1>q, <4>1, <4>3, SettledFacts
      <4> QED BY <1>0, <3>1, <4>2, <4>4
    <3> QED BY <3>2, <3>3
  <2>3. CASE PauseSave
    <3>1. /\ "pause" \in Ops /\ op' = [op EXCEPT !["pause"] = IdleOp]
          /\ saved' \in {saved, paused}
          /\ UNCHANGED <<order, gen, tgen, grip, pending, item, at, paused, born>>
      BY <1>ops, <2>3 DEF PauseSave, work, queue, hist
    <3>2. IsOps(op')
      BY <1>0, <3>1, IdleEffect DEF Moved
    <3> QED BY <1>0, <3>1, <3>2
  <2>4. CASE ResumeBegin
    BY <1>0, <2>4 DEF ResumeBegin, work, queue, pause, hist
  <2>5. CASE ResumeQueue
    <3>1. UNCHANGED <<order, gen, tgen, grip, item, at, saved, op, born>> /\ lock = "resume"
      BY <2>5 DEF ResumeQueue, work, hist
    <3>2. CASE Expired
      BY <1>0, <2>5, <3>1, <3>2 DEF ResumeQueue
    <3>3. CASE ~Expired
      <4>1. pending' = WithRestored /\ paused' = Snapshot(paused, WithRestored) /\ IsPaused
        BY <2>5, <3>1, <3>3 DEF ResumeQueue, TurnInv, PauseHeld
      <4>2. IsSeq(WithRestored) /\ \A i \in DOMAIN WithRestored :
              IsItem(WithRestored[i], gen) /\ WithRestored[i].req \in Request
        BY WithRestoredFacts
      <4>3. IsPause(paused')
        BY <1>0, <4>1, <4>2, SnapshotFacts
      <4> QED BY <1>0, <3>1, <4>1, <4>2, <4>3
    <3> QED BY <3>2, <3>3
  <2>6. CASE ResumeSave
    <3>1. /\ UNCHANGED <<order, gen, tgen, grip, item, at, op, born>> /\ lock = "resumeSave"
          /\ saved' \in {saved, paused}
      BY <2>6 DEF ResumeSave, work, hist
    <3>2. CASE Expired
      BY <1>0, <2>6, <3>1, <3>2 DEF ResumeSave, queue
    <3>3. CASE ~Expired
      <4>1. pending' = <<Resumption>> \o pending /\ paused' = NoPause /\ IsPaused
        BY <2>6, <3>1, <3>3 DEF ResumeSave, TurnInv, PauseHeld
      <4>2. IsItem(Resumption, gen)
        BY <1>0, <4>1, ResumptionFacts
      <4>3. IsSeq(pending') /\ \A i \in DOMAIN pending' : IsItem(pending'[i], gen)
        <5>1. /\ IsSeq(pending') /\ DOMAIN pending' = 1..(Len(pending) + 1)
              /\ Len(pending) \in Nat /\ DOMAIN pending = 1..Len(pending)
              /\ pending'[1] = Resumption
              /\ \A i \in 1..Len(pending) : pending'[i + 1] = pending[i]
          BY <1>0, <4>1, ConsSeq
        <5>2. ASSUME NEW i \in DOMAIN pending'
              PROVE  IsItem(pending'[i], gen)
          <6>1. CASE i = 1
            BY <4>2, <5>1, <6>1
          <6>2. CASE i # 1
            <7>1. i - 1 \in 1..Len(pending) /\ (i - 1) + 1 = i
              BY <5>1, <6>2
            <7> QED BY <1>0, <5>1, <7>1
          <6> QED BY <6>1, <6>2
        <5> QED BY <5>1, <5>2
      <4> QED BY <1>0, <3>1, <4>1, <4>3
    <3> QED BY <3>2, <3>3
  <2> QED BY <1>7, <2>1, <2>2, <2>3, <2>4, <2>5, <2>6 DEF PauseStep
<1>8. CASE OtherStep
  <2>1. ASSUME NEW r \in Request, Submit(r)
        PROVE  Shape'
    <3>1. /\ UNCHANGED <<gen, tgen, grip, item, at, saved, op>>
          /\ born' = [born EXCEPT ![r] = gen]
          /\ paused' = IF IsPaused THEN Snapshot(paused, pending') ELSE NoPause
      BY <2>1 DEF Submit, work
    <3>2. /\ IsSeq(pending')
          /\ \A i \in DOMAIN pending' : IsItem(pending'[i], gen) /\ pending'[i].req \in Request
      BY <2>1, SubmittedFacts
    <3>3. /\ order' \in Seq(Request)
          /\ \A i, j \in DOMAIN order' : order'[i] = order'[j] => i = j
      BY <2>1, SubmitOrder
    <3>4. paused' # NoPause => IsPause(paused')
      BY <1>0, <3>1, <3>2, SnapshotFacts
    <3> QED BY <1>0, <3>1, <3>2, <3>3, <3>4
  <2>2. CASE SubmitSaved
    BY <1>0, <2>2 DEF SubmitSaved, work, queue, hist
  <2>3. CASE TakeItem
    <3>1. /\ UNCHANGED <<order, gen, tgen, grip, paused, saved, op, born>> /\ at' = "prepare"
      BY <2>3 DEF TakeItem, pause, ctrl, hist
    <3>2. /\ IsSeq(pending') /\ IsItem(item', gen) /\ item' # NoItem
          /\ DOMAIN pending = 1..Len(pending) /\ Len(pending) \in Nat
          /\ DOMAIN pending' = 1..(Len(pending) - 1)
          /\ \A i \in DOMAIN pending' : pending'[i] = pending[i + 1]
      BY <2>3, TakenFacts
    <3>3. \A i \in DOMAIN pending' : IsItem(pending'[i], gen)
      BY <1>0, <3>2
    <3> QED BY <1>0, <3>1, <3>2, <3>3
  <2>4. CASE StartTurn
    BY <1>0, <2>4 DEF StartTurn, MayStart, Runs, pause, ctrl, queue, hist
  <2>5. CASE Clear
    <3>1. /\ gen' = gen + 1 /\ paused' = NoPause /\ pending' = <<>> /\ Enter("clear")
          /\ UNCHANGED <<order, item, at, saved, grip, born>> /\ "clear" \in Ops
      BY <1>ops, <2>5 DEF Clear, work, hist
    <3>2. tgen' \in {tgen, tgen + 1} /\ IsOps(op')
      BY <1>0, <3>1, EnterEffect DEF Moved
    <3>3. item # NoItem => IsItem(item, gen')
      BY <1>0, <3>1, ItemLater
    <3>4. IsSeq(pending') /\ DOMAIN pending' = {}
      BY <1>none, <3>1
    <3> QED BY <1>0, <3>1, <3>2, <3>3, <3>4
  <2>6. CASE ClearDone
    <3>1. /\ UNCHANGED <<order, item, at, gen, tgen, grip, born, paused>> /\ "clear" \in Ops
          /\ op' = [op EXCEPT !["clear"] = IdleOp] /\ saved' = NoPause /\ pending' = <<>>
      BY <1>ops, <2>6 DEF ClearDone, work, hist
    <3>2. IsOps(op')
      BY <1>0, <3>1, IdleEffect DEF Moved
    <3>3. IsSeq(pending') /\ DOMAIN pending' = {}
      BY <1>none, <3>1
    <3> QED BY <1>0, <3>1, <3>2, <3>3
  <2>7. CASE Crash
    <3>1. /\ UNCHANGED <<order, gen, tgen, grip, born>> /\ paused' = NoPause /\ pending' = <<>>
          /\ saved' \in {saved, paused, NoPause} /\ item' = NoItem /\ at' = "none"
          /\ op' = [o \in Ops |-> IdleOp]
      BY <2>7 DEF Crash, Leave
    <3>2. IsOps(op') /\ IsSeq(pending') /\ DOMAIN pending' = {}
      BY <1>none, <3>1, CrashEffect
    <3> QED BY <1>0, <3>1, <3>2
  <2>8. CASE Load
    BY <1>0, <2>8 DEF Load, ctrl, work, hist
  <2> QED BY <1>8, <2>1, <2>2, <2>3, <2>4, <2>5, <2>6, <2>7, <2>8 DEF OtherStep
<1> QED BY <1>0, <1>1, <1>2, <1>3, <1>4, <1>5, <1>6, <1>7, <1>8, StepCases

-----------------------------------------------------------------------------
(* Order.                                                                  *)

\* A pause that holds the queue q is in order if q is, behind the pause.
LEMMA QueueSaved ==
  ASSUME NEW s, NEW p, NEW q, DOMAIN p.queued = DOMAIN q,
         \A i \in DOMAIN q : p.queued[i] = q[i].req,
         \A i \in DOMAIN q : Before(s, p.req, q[i].req),
         \A i, j \in DOMAIN q : i <= j => Before(s, q[i].req, q[j].req)
  PROVE  PauseOrdered(s, p)
BY DEF PauseOrdered

\* With no queue there is nothing to order but the request itself.
LEMMA BareOrdered ==
  ASSUME NEW s, NEW p, DOMAIN p.queued = {}
  PROVE  PauseOrdered(s, p)
BY DEF PauseOrdered

\* A longer order of submission keeps the order of a pause.
LEMMA PauseStaysOrdered ==
  ASSUME NEW s, NEW t, NEW p, PauseOrdered(s, p),
         \A a, b : Before(s, a, b) => Before(t, a, b)
  PROVE  PauseOrdered(t, p)
BY DEF PauseOrdered

LEMMA SubmitOrdered ==
  ASSUME TurnInv, NEW r \in Request, Submit(r)
  PROVE  Ordered'
<1> DEFINE w == WithRestored
           n == Len(w)
<1>1. /\ n \in Nat /\ DOMAIN w = 1..n /\ DOMAIN pending' = 1..(n + 1)
      /\ \A i \in 1..n : pending'[i] = w[i]
      /\ pending'[n + 1].req = r /\ IsSeq(pending')
      /\ \A i \in DOMAIN pending' : pending'[i].req \in Request
  BY SubmittedFacts
<1>2. \A i \in DOMAIN w :
        /\ item # NoItem => Before(order, item.req, w[i].req)
        /\ IsPaused => Before(order, paused.req, w[i].req)
        /\ \A j \in DOMAIN w : i <= j => Before(order, w[i].req, w[j].req)
  BY WithRestoredFacts
<1>3. /\ \A a, b : Before(order, a, b) => Before(order', a, b)
      /\ \A a : Before(order, a, a) => Before(order', a, r)
      /\ Before(order', r, r)
  BY SubmitOrder
<1>4. /\ item' = item /\ saved' = saved
      /\ IsPaused => paused' = Snapshot(paused, pending')
      /\ ~IsPaused => paused' = NoPause
  BY DEF Submit, work
<1>5. /\ item # NoItem => Before(order, item.req, item.req)
      /\ IsPaused => Before(order, paused.req, paused.req) /\ IsPause(paused)
      /\ saved # NoPause => Before(order, saved.req, saved.req) /\ PauseOrdered(order, saved)
  BY DEF TurnInv, Ordered, Shape, IsPaused
<1> HIDE DEF w, n
<1>6. \A i \in DOMAIN pending' : i \in 1..n \/ i = n + 1
  BY <1>1
<1>7. ASSUME NEW i \in DOMAIN pending', NEW j \in DOMAIN pending', i <= j
      PROVE  Before(order', pending'[i].req, pending'[j].req)
  <2>1. CASE j \in 1..n
    <3>1. i \in 1..n
      BY <1>1, <1>7, <2>1
    <3> QED BY <1>1, <1>2, <1>3, <1>7, <2>1, <3>1
  <2>2. CASE j = n + 1 /\ i \in 1..n
    <3>1. Before(order, w[i].req, w[i].req)
      BY <1>1, <1>2, <2>2
    <3> QED BY <1>1, <1>3, <2>2, <3>1
  <2>3. CASE j = n + 1 /\ i = n + 1
    BY <1>1, <1>3, <2>3
  <2> QED BY <1>6, <2>1, <2>2, <2>3
<1>8. ASSUME item # NoItem, NEW i \in DOMAIN pending'
      PROVE  Before(order', item.req, pending'[i].req)
  <2>1. CASE i \in 1..n
    BY <1>1, <1>2, <1>3, <1>8, <2>1
  <2>2. CASE i = n + 1
    BY <1>1, <1>3, <1>5, <1>8, <2>2
  <2> QED BY <1>6, <2>1, <2>2
<1>9. ASSUME IsPaused, NEW i \in DOMAIN pending'
      PROVE  Before(order', paused.req, pending'[i].req)
  <2>1. CASE i \in 1..n
    BY <1>1, <1>2, <1>3, <1>9, <2>1
  <2>2. CASE i = n + 1
    BY <1>1, <1>3, <1>5, <1>9, <2>2
  <2> QED BY <1>6, <2>1, <2>2
<1>10. ASSUME IsPaused
       PROVE  /\ Before(order', paused'.req, paused'.req) /\ PauseOrdered(order', paused')
              /\ \A i \in DOMAIN pending' : Before(order', paused'.req, pending'[i].req)
  <2> DEFINE p == Snapshot(paused, pending')
  <2>1. /\ p.req = paused.req /\ DOMAIN p.queued = DOMAIN pending'
        /\ \A i \in DOMAIN pending' : p.queued[i] = pending'[i].req
    BY <1>1, <1>5, <1>10, SnapshotFacts
  <2>2. paused' = p
    BY <1>4, <1>10
  <2> HIDE DEF p
  <2>3. PauseOrdered(order', p)
    BY <1>7, <1>9, <1>10, <2>1, QueueSaved
  <2> QED BY <1>3, <1>5, <1>9, <1>10, <2>1, <2>2, <2>3
<1>11. saved # NoPause => Before(order', saved.req, saved.req) /\ PauseOrdered(order', saved)
  BY <1>3, <1>5, PauseStaysOrdered
<1> QED BY <1>3, <1>4, <1>5, <1>7, <1>8, <1>10, <1>11 DEF Ordered, IsPaused

LEMMA OrderStep ==
  ASSUME TurnInv, [Next]_vars
  PROVE  Ordered'
<1> USE DEF Ordered, IsPaused
<1>0. Ordered /\ (at = "none" <=> item = NoItem)
  BY DEF TurnInv, Shape
<1>p. /\ IsPaused => IsPause(paused)
      /\ item # NoItem => IsItem(item, gen)
      /\ IsSeq(pending) /\ gen \in Nat /\ tgen \in Nat
  BY DEF TurnInv, Shape
<1>q. \A i \in DOMAIN pending : pending[i].req \in Request
  BY ItemFacts DEF TurnInv, Shape
<1>none. DOMAIN <<>> = {}
  BY EmptyIsSeq
<1>ops. Ops = {"stop", "pause", "clear"}
  BY DEF Ops
<1>1. CASE Elsewhere
  BY <1>0, <1>1 DEF Elsewhere
<1>2. CASE TurnGoesOn
  BY <1>0, <1>2 DEF TurnGoesOn
<1>3. CASE ItemEnds
  BY <1>0, <1>3 DEF ItemEnds
<1>pausing. ASSUME item # NoItem, paused' = Pausing, UNCHANGED <<order, pending, item, saved>>
            PROVE  Ordered'
  <2>1. /\ IsPause(Pausing) /\ Pausing.req = item.req /\ DOMAIN Pausing.queued = {}
    BY <1>p, <1>pausing, PausingFacts
  <2>2. PauseOrdered(order, paused') /\ paused'.req = item.req
    BY <1>pausing, <2>1, BareOrdered
  <2> QED BY <1>0, <1>pausing, <2>2
<1>settling. ASSUME IsPaused, NEW it, paused' = Settled(it), UNCHANGED <<order, pending, item, saved>>
             PROVE  Ordered'
  <2> DEFINE p == Settled(it)
  <2>1. /\ p.req = paused.req /\ DOMAIN p.queued = DOMAIN pending
        /\ \A i \in DOMAIN pending : p.queued[i] = pending[i].req
    BY <1>p, <1>q, <1>settling, SettledFacts
  <2>2. paused' = p
    BY <1>settling
  <2> HIDE DEF p
  <2>3. PauseOrdered(order, p)
    BY <1>0, <1>settling, <2>1, QueueSaved
  <2> QED BY <1>0, <1>settling, <2>1, <2>2, <2>3
<1>4. CASE PausesItself
  BY <1>4, <1>pausing DEF PausesItself
<1>5. CASE SettlesItself
  <2>1. IsPaused
    BY <1>0, <1>5 DEF SettlesItself, TurnInv, PauseHeld
  <2> QED BY <1>5, <1>settling, <2>1 DEF SettlesItself
<1>6. CASE CancelStep
  <2>1. CASE Stop \/ KidsEnd
    BY <1>0, <2>1 DEF Stop, KidsEnd, work, queue, pause, hist
  <2>2. ASSUME NEW o \in Ops, CancelEntered(o) \/ CancelDone(o)
        PROVE  Ordered'
    BY <1>0, <2>2 DEF CancelEntered, CancelDone, work, queue, pause, hist
  <2>3. ASSUME NEW o \in Ops, TurnCancelled(o)
        PROVE  Ordered'
    <3>1. /\ UNCHANGED <<order, pending, paused>> /\ item' = NoItem
          /\ saved' \in {saved, NoPause} \/ saved' = paused
      BY <2>3, CancelledEffect DEF TurnInv, Shape
    <3> QED BY <1>0, <3>1
  <2> QED BY <1>6, <2>1, <2>2, <2>3 DEF CancelStep
<1>7. CASE PauseStep
  <2>1. CASE PauseBegin
    BY <1>pausing, <2>1 DEF PauseBegin, work, hist
  <2>2. CASE PauseSettle
    <3>1. UNCHANGED <<order, pending, item, saved>>
      BY <2>2 DEF PauseSettle, work, queue, hist
    <3>2. CASE grip[1] # gen
      BY <1>0, <2>2, <3>1, <3>2 DEF PauseSettle
    <3>3. CASE grip[1] = gen
      <4>1. IsPaused
        BY <1>ops, <2>2, <3>3 DEF PauseSettle, TurnInv, LockKept, PauseHeld
      <4> QED BY <1>settling, <2>2, <3>1, <3>3, <4>1 DEF PauseSettle
    <3> QED BY <3>2, <3>3
  <2>3. CASE PauseSave \/ ResumeBegin
    BY <1>0, <2>3 DEF PauseSave, ResumeBegin, work, queue, pause, hist
  <2>4. CASE ResumeQueue
    <3>1. UNCHANGED <<order, item, saved>> /\ lock = "resume"
      BY <2>4 DEF ResumeQueue, work, hist
    <3>2. CASE Expired
      BY <1>0, <2>4, <3>1, <3>2 DEF ResumeQueue
    <3>3. CASE ~Expired
      <4> DEFINE w == WithRestored
                 p == Snapshot(paused, w)
      <4>1. pending' = w /\ paused' = p /\ IsPaused
        BY <2>4, <3>1, <3>3 DEF ResumeQueue, TurnInv, PauseHeld
      <4>2. /\ IsSeq(w) /\ \A i \in DOMAIN w :
              /\ w[i].req \in Request
              /\ item # NoItem => Before(order, item.req, w[i].req)
              /\ Before(order, paused.req, w[i].req)
              /\ \A j \in DOMAIN w : i <= j => Before(order, w[i].req, w[j].req)
        BY <4>1, WithRestoredFacts
      <4> HIDE DEF w
      <4>3. /\ p.req = paused.req /\ DOMAIN p.queued = DOMAIN w
            /\ \A i \in DOMAIN w : p.queued[i] = w[i].req
        BY <1>p, <4>1, <4>2, SnapshotFacts
      <4> HIDE DEF p
      <4>4. PauseOrdered(order, p)
        BY <4>2, <4>3, QueueSaved
      <4> QED BY <1>0, <3>1, <4>1, <4>2, <4>3, <4>4
    <3> QED BY <3>2, <3>3
  <2>5. CASE ResumeSave
    <3>1. /\ UNCHANGED <<order, item>> /\ lock = "resumeSave"
          /\ saved' = saved \/ (IsPaused /\ saved' = paused)
      BY <2>5 DEF ResumeSave, work, hist
    <3>2. CASE Expired
      BY <1>0, <2>5, <3>1, <3>2 DEF ResumeSave, queue
    <3>3. CASE ~Expired
      <4> DEFINE q == pending'
      <4>1. q = <<Resumption>> \o pending /\ paused' = NoPause /\ IsPaused
        BY <2>5, <3>1, <3>3 DEF ResumeSave, TurnInv, PauseHeld
      <4>2. Resumption.req = paused.req
        BY <1>p, <4>1, ResumptionFacts
      <4>3. /\ DOMAIN q = 1..(Len(pending) + 1)
            /\ Len(pending) \in Nat /\ DOMAIN pending = 1..Len(pending)
            /\ q[1].req = paused.req
            /\ \A i \in 1..Len(pending) : q[i + 1] = pending[i]
        <5>1. /\ IsSeq(pending') /\ DOMAIN pending' = 1..(Len(pending) + 1)
              /\ Len(pending) \in Nat /\ DOMAIN pending = 1..Len(pending)
              /\ pending'[1] = Resumption
              /\ \A i \in 1..Len(pending) : pending'[i + 1] = pending[i]
          BY <1>p, <4>1, ConsSeq
        <5> QED BY <4>2, <5>1
      <4>4. item # NoItem => item.req = paused.req
        BY <4>1 DEF TurnInv, PauseHeld
      <4>5. /\ \A i \in DOMAIN pending : Before(order, paused.req, pending[i].req)
            /\ Before(order, paused.req, paused.req)
            /\ \A i, j \in DOMAIN pending : i <= j => Before(order, pending[i].req, pending[j].req)
        BY <1>0, <4>1
      <4>6. \A i \in DOMAIN q : i = 1 \/ (i - 1 \in DOMAIN pending /\ q[i] = pending[i - 1])
        <5>1. ASSUME NEW i \in DOMAIN q, i # 1
              PROVE  i - 1 \in 1..Len(pending) /\ (i - 1) + 1 = i
          BY <4>3, <5>1
        <5> QED BY <4>3, <5>1
      <4> HIDE DEF q
      <4>7. \A i \in DOMAIN q : Before(order, paused.req, q[i].req)
        BY <4>3, <4>5, <4>6
      <4>8. ASSUME NEW i \in DOMAIN q, NEW j \in DOMAIN q, i <= j
            PROVE  Before(order, q[i].req, q[j].req)
        <5>1. CASE i = 1
          BY <4>3, <4>7, <5>1
        <5>2. CASE i # 1
          <6>1. /\ i - 1 \in DOMAIN pending /\ q[i] = pending[i - 1]
            BY <4>6, <5>2
          <6>2. j # 1
            BY <4>3, <4>8, <5>2
          <6>3. /\ j - 1 \in DOMAIN pending /\ q[j] = pending[j - 1]
            BY <4>6, <6>2
          <6>4. i - 1 <= j - 1
            BY <4>3, <4>8
          <6> QED BY <4>5, <6>1, <6>3, <6>4
        <5> QED BY <5>1, <5>2
      <4>9. saved' # NoPause => Before(order, saved'.req, saved'.req) /\ PauseOrdered(order, saved')
        BY <1>0, <3>1
      <4>10. /\ \A i, j \in DOMAIN pending' : i <= j => Before(order, pending'[i].req, pending'[j].req)
             /\ \A i \in DOMAIN pending' : Before(order, paused.req, pending'[i].req)
        BY <4>7, <4>8 DEF q
      <4> QED BY <3>1, <4>1, <4>4, <4>5, <4>9, <4>10
    <3> QED BY <3>2, <3>3
  <2> QED BY <1>7, <2>1, <2>2, <2>3, <2>4, <2>5 DEF PauseStep
<1>8. CASE OtherStep
  <2>1. ASSUME NEW r \in Request, Submit(r)
        PROVE  Ordered'
    BY <2>1, SubmitOrdered
  <2>2. CASE SubmitSaved \/ StartTurn
    BY <1>0, <2>2 DEF SubmitSaved, StartTurn, work, queue, pause, hist
  <2>3. CASE TakeItem
    <3>1. UNCHANGED <<order, paused, saved>> /\ ~IsPaused
      BY <2>3 DEF TakeItem, pause, hist, TurnInv, PauseHeld
    <3>2. /\ DOMAIN pending = 1..Len(pending) /\ Len(pending) \in Nat /\ Len(pending) >= 1
          /\ DOMAIN pending' = 1..(Len(pending) - 1)
          /\ \A i \in DOMAIN pending' : pending'[i] = pending[i + 1]
          /\ item'.req = pending[1].req
      BY <2>3, TakenFacts
    <3>3. \A i, j \in DOMAIN pending : i <= j => Before(order, pending[i].req, pending[j].req)
      BY <1>0
    <3>4. ASSUME NEW i \in DOMAIN pending', NEW j \in DOMAIN pending', i <= j
          PROVE  Before(order, pending'[i].req, pending'[j].req)
      <4>1. i + 1 \in DOMAIN pending /\ j + 1 \in DOMAIN pending /\ i + 1 <= j + 1
        BY <3>2, <3>4
      <4> QED BY <3>2, <3>3, <4>1
    <3>5. ASSUME NEW i \in DOMAIN pending'
          PROVE  Before(order, item'.req, pending'[i].req)
      <4>1. 1 \in DOMAIN pending /\ i + 1 \in DOMAIN pending /\ 1 <= i + 1
        BY <3>2
      <4> QED BY <3>2, <3>3, <4>1
    <3>6. Before(order, item'.req, item'.req)
      <4>1. 1 \in DOMAIN pending /\ 1 <= 1
        BY <3>2
      <4> QED BY <3>2, <3>3, <4>1
    <3> QED BY <1>0, <3>1, <3>4, <3>5, <3>6
  <2>4. CASE Clear
    BY <1>0, <1>none, <2>4 DEF Clear, work, hist
  <2>5. CASE ClearDone
    BY <1>0, <1>none, <2>5 DEF ClearDone, work, hist
  <2>6. CASE Crash
    <3>1. /\ order' = order /\ pending' = <<>> /\ item' = NoItem /\ paused' = NoPause
          /\ saved' \in {saved, NoPause} \/ (IsPaused /\ saved' = paused)
      BY <2>6 DEF Crash, Leave
    <3> QED BY <1>0, <1>none, <3>1
  <2>7. CASE Load
    <3>1. /\ UNCHANGED <<order, pending, item, saved>> /\ pending = <<>> /\ item = NoItem
          /\ paused' = saved
      BY <2>7 DEF Load, work, hist, TurnInv, DownIsEmpty
    <3> QED BY <1>0, <1>none, <3>1
  <2> QED BY <1>8, <2>1, <2>2, <2>3, <2>4, <2>5, <2>6, <2>7 DEF OtherStep
<1> QED BY <1>0, <1>1, <1>2, <1>3, <1>4, <1>5, <1>6, <1>7, <1>8, StepCases

-----------------------------------------------------------------------------
(* The results.                                                            *)

LEMMA InitInv == Init => TurnInv
<1> SUFFICES ASSUME Init
             PROVE  TurnInv
  OBVIOUS
<1>1. IsSeq(<<>>) /\ DOMAIN <<>> = {}
  BY EmptyIsSeq
<1>2. <<>> \in Seq(Request)
  BY EmptySeq
<1>3. IsOps(op) /\ \A o \in Ops : op[o].step = "idle"
  BY DEF Init, IsOps, IdleOp, Steps
<1>4. pending = <<>> /\ order = <<>> /\ item = NoItem /\ at = "none" /\ ~IsPaused
      /\ saved = NoPause /\ lock = "none" /\ up /\ ~kids /\ ~moving /\ ready
      /\ gen = 0 /\ tgen = 0 /\ grip = <<0, 0>> /\ born = [r \in Request |-> 0]
  BY DEF Init, IsPaused
<1>5. Shape
  BY <1>1, <1>2, <1>3, <1>4 DEF Shape, IsPaused
<1>6. LockKept
  BY <1>3, <1>4 DEF LockKept, CancelLocked, CancelHeld, Ops
<1>7. NothingOfTheOld /\ DownIsEmpty
  BY <1>4 DEF NothingOfTheOld, DownIsEmpty
<1>8. PauseHeld /\ Ordered
  BY <1>1, <1>4 DEF PauseHeld, Ordered
<1> QED BY <1>5, <1>6, <1>7, <1>8 DEF TurnInv

\* The invariant holds in every state of a session.
LEMMA TurnInvCorrect == Spec => []TurnInv
<1>1. TurnInv /\ [Next]_vars => TurnInv'
  <2> SUFFICES ASSUME TurnInv, [Next]_vars
               PROVE  TurnInv'
    OBVIOUS
  <2> QED BY LockStep, OldStep, DownStep, HeldStep, ShapeStep, OrderStep DEF TurnInv
<1> QED BY InitInv, <1>1, PTL DEF Spec

\* No turn starts, and none goes on, while child Agents of a cancelled turn
\* still act (cancel_current_turn holds _cancel_lock until they are gone, and
\* _start_user_turn refuses while it does).
THEOREM NoTurnBesideChildrenCorrect == Spec => []NoTurnBesideChildren
<1>1. TurnInv => NoTurnBesideChildren
  BY DEF TurnInv, LockKept, CancelLocked, CancelHeld, Cancelled, NoTurnBesideChildren
<1> QED BY <1>1, TurnInvCorrect, PTL

\* What waits is the current item and behind it the queue.
LEMMA WaitingFacts ==
  ASSUME TurnInv
  PROVE  \A i, j \in DOMAIN Waiting : i < j => Before(order, Waiting[i].req, Waiting[j].req)
<1>0. IsSeq(pending) /\ Ordered
  BY DEF TurnInv, Shape
<1>1. CASE item = NoItem
  <2>1. Waiting = <<>> \o pending
    BY <1>1 DEF Waiting
  <2>2. Waiting = pending
    BY <1>0, <2>1 DEF IsSeq
  <2>3. DOMAIN pending = 1..Len(pending) /\ Len(pending) \in Nat
    BY <1>0 DEF IsSeq
  <2>4. \A i, j \in DOMAIN pending : i < j => i <= j
    BY <2>3
  <2> QED BY <1>0, <2>2, <2>4 DEF Ordered
<1>2. CASE item # NoItem
  <2>1. Waiting = <<item>> \o pending
    BY <1>2 DEF Waiting
  <2> DEFINE n == Len(pending)
             w == <<item>> \o pending
  <2>2. /\ n \in Nat /\ DOMAIN pending = 1..n
        /\ DOMAIN w = 1..(n + 1) /\ w[1] = item
        /\ \A i \in 1..n : w[i + 1] = pending[i]
    BY <1>0, ConsSeq
  <2> HIDE DEF n, w
  <2>3. ASSUME NEW i \in DOMAIN w, NEW j \in DOMAIN w, i < j
        PROVE  Before(order, w[i].req, w[j].req)
    <3>1. j - 1 \in 1..n /\ (j - 1) + 1 = j
      BY <2>2, <2>3
    <3>2. w[j] = pending[j - 1]
      BY <2>2, <3>1
    <3>3. CASE i = 1
      BY <1>0, <1>2, <2>2, <3>1, <3>2, <3>3 DEF Ordered
    <3>4. CASE i # 1
      <4>1. i - 1 \in 1..n /\ (i - 1) + 1 = i /\ i - 1 <= j - 1
        BY <2>2, <2>3, <3>4
      <4>2. w[i] = pending[i - 1]
        BY <2>2, <4>1
      <4> QED BY <1>0, <2>2, <3>1, <3>2, <4>1, <4>2 DEF Ordered
    <3> QED BY <3>3, <3>4
  <2> QED BY <2>1, <2>3 DEF w
<1> QED BY <1>1, <1>2

\* The current request and the queued ones are in the order the user gave
\* them, through pauses, resumes, restarts and the restoring of a saved queue.
THEOREM InOrderCorrect == Spec => []InOrder
<1>1. ASSUME TurnInv
      PROVE  InOrder
  <2>1. \A i, j \in DOMAIN order : order[i] = order[j] => i = j
    BY <1>1 DEF TurnInv, Shape
  <2>2. \A i \in DOMAIN order : At(order[i]) = i
    BY <2>1 DEF At
  <2>3. \A a, b : Before(order, a, b) => At(a) <= At(b)
    BY <2>2 DEF Before
  <2> QED BY <1>1, <2>3, WaitingFacts DEF InOrder
<1> QED BY <1>1, TurnInvCorrect, PTL

-----------------------------------------------------------------------------
(* What was cleared stays cleared, and what a pause saved stays with it.   *)

\* The queue as the next to use it finds it has what the pause kept.
LEMMA RestoredHolds ==
  ASSUME TurnInv, QueueHoldsSaved, IsPaused
  PROVE  \A i \in DOMAIN paused.queued :
           \E j \in DOMAIN WithRestored : WithRestored[j].req = paused.queued[i]
<1>1. CASE pending = <<>>
  <2> DEFINE n == Len(paused.queued)
             w == WithRestored
  <2>1. /\ n \in Nat /\ DOMAIN paused.queued = 1..n
        /\ \A i \in 1..n : paused.queued[i] \in Request
    BY PauseFacts DEF TurnInv, Shape, IsPaused
  <2>2. w = [i \in 1..n |-> Fresh(paused.queued[i])]
    BY <1>1, <2>1 DEF WithRestored, Restored
  <2>3. gen \in Nat
    BY DEF TurnInv, Shape
  <2> HIDE DEF n, w
  <2>4. \A i \in 1..n : w[i].req = paused.queued[i]
    BY <2>1, <2>2, <2>3, FreshFacts
  <2>5. w = WithRestored /\ DOMAIN w = 1..n
    BY <2>2 DEF w
  <2> QED BY <2>1, <2>4, <2>5
<1>2. CASE pending # <<>>
  BY <1>2 DEF QueueHoldsSaved, WithRestored
<1> QED BY <1>1, <1>2

LEMMA HoldsStep ==
  ASSUME TurnInv, QueueHoldsSaved, [Next]_vars
  PROVE  QueueHoldsSaved'
<1> USE DEF QueueHoldsSaved, IsPaused
<1>0. /\ IsOps(op) /\ (at = "none" <=> item = NoItem) /\ tgen \in Nat /\ gen \in Nat
      /\ IsSeq(pending) /\ QueueHoldsSaved
  BY DEF TurnInv, Shape
<1>p. IsPaused => IsPause(paused)
  BY DEF TurnInv, Shape
<1>i. item # NoItem => IsItem(item, gen)
  BY DEF TurnInv, Shape
<1>q. \A i \in DOMAIN pending : pending[i].req \in Request
  BY ItemFacts DEF TurnInv, Shape
<1>ops. Ops = {"stop", "pause", "clear"}
  BY DEF Ops
<1>pausing. ASSUME item # NoItem, paused' = Pausing
            PROVE  QueueHoldsSaved'
  <2>1. DOMAIN paused'.queued = {}
    BY <1>0, <1>i, <1>pausing, PausingFacts
  <2> QED BY <2>1
<1>settling. ASSUME IsPaused, NEW it, paused' = Settled(it), pending' = pending
             PROVE  QueueHoldsSaved'
  <2>1. /\ DOMAIN paused'.queued = DOMAIN pending
        /\ \A i \in DOMAIN pending : paused'.queued[i] = pending[i].req
    BY <1>0, <1>p, <1>q, <1>settling, SettledFacts
  <2> QED BY <1>settling, <2>1
<1>1. CASE Elsewhere
  BY <1>0, <1>1 DEF Elsewhere
<1>2. CASE TurnGoesOn
  BY <1>0, <1>2 DEF TurnGoesOn
<1>3. CASE ItemEnds
  BY <1>0, <1>3 DEF ItemEnds
<1>4. CASE PausesItself
  BY <1>4, <1>pausing DEF PausesItself
<1>5. CASE SettlesItself
  <2>1. IsPaused
    BY <1>5 DEF SettlesItself, TurnInv, PauseHeld, Shape
  <2> QED BY <1>5, <1>settling, <2>1 DEF SettlesItself
<1>6. CASE CancelStep
  <2>1. CASE Stop
    <3>1. Enter("stop") /\ "stop" \in Ops /\ UNCHANGED <<item, pending, paused>>
      BY <1>ops, <2>1 DEF Stop, work, queue, pause
    <3>2. op'["pause"].step = op["pause"].step
      BY <1>0, <1>ops, <3>1, EnterEffect DEF Moved
    <3> QED BY <1>0, <3>1, <3>2
  <2>2. CASE KidsEnd
    BY <1>0, <2>2 DEF KidsEnd, work, queue, pause
  <2>3. ASSUME NEW o \in Ops, CancelEntered(o)
        PROVE  QueueHoldsSaved'
    <3>1. /\ UNCHANGED <<item, pending, paused>> /\ op[o].step = "lock"
          /\ Moved(op, o, "task", op') \/ Moved(op, o, After(o), op')
      BY <1>0, <2>3, EnteredEffect
    <3> QED BY <1>0, <1>ops, <3>1 DEF Moved
  <2>4. ASSUME NEW o \in Ops, TurnCancelled(o)
        PROVE  QueueHoldsSaved'
    <3>1. /\ UNCHANGED <<pending, paused>> /\ op[o].step = "task" /\ item' = NoItem
          /\ Moved(op, o, IF kids' THEN "children" ELSE After(o), op')
      BY <1>0, <2>4, CancelledEffect
    <3> QED BY <1>0, <1>ops, <3>1 DEF Moved
  <2>5. ASSUME NEW o \in Ops, CancelDone(o)
        PROVE  QueueHoldsSaved'
    <3>1. /\ UNCHANGED <<item, pending, paused>> /\ op[o].step = "children"
          /\ Moved(op, o, After(o), op')
      BY <1>0, <2>5, DoneEffect
    <3> QED BY <1>0, <1>ops, <3>1 DEF Moved
  <2> QED BY <1>6, <2>1, <2>2, <2>3, <2>4, <2>5 DEF CancelStep
<1>7. CASE PauseStep
  <2>1. CASE PauseBegin
    BY <1>pausing, <2>1 DEF PauseBegin
  <2>2. CASE PauseSettle
    <3>1. op["pause"].step = "settle" /\ UNCHANGED <<item, pending>>
      BY <2>2 DEF PauseSettle, work, queue
    <3>2. CASE grip[1] # gen
      BY <1>0, <2>2, <3>1, <3>2 DEF PauseSettle
    <3>3. CASE grip[1] = gen
      <4>1. IsPaused
        BY <1>ops, <3>1, <3>3 DEF TurnInv, LockKept, PauseHeld
      <4> QED BY <1>settling, <2>2, <3>1, <3>3, <4>1 DEF PauseSettle
    <3> QED BY <3>2, <3>3
  <2>3. CASE PauseSave
    BY <1>0, <2>3 DEF PauseSave, work, queue
  <2>4. CASE ResumeBegin
    BY <1>0, <2>4 DEF ResumeBegin, work, queue, pause
  <2>5. CASE ResumeQueue
    <3>1. lock = "resume" /\ UNCHANGED <<item, op>>
      BY <2>5 DEF ResumeQueue, work
    <3>2. CASE Expired
      BY <1>0, <2>5, <3>1, <3>2 DEF ResumeQueue
    <3>3. CASE ~Expired
      <4> DEFINE w == WithRestored
                 p == Snapshot(paused, w)
      <4>1. pending' = w /\ paused' = p /\ IsPaused
        BY <2>5, <3>1, <3>3 DEF ResumeQueue, TurnInv, PauseHeld
      <4>2. IsSeq(w) /\ \A i \in DOMAIN w : w[i].req \in Request
        BY WithRestoredFacts
      <4> HIDE DEF w
      <4>3. DOMAIN p.queued = DOMAIN w /\ \A i \in DOMAIN w : p.queued[i] = w[i].req
        BY <1>p, <4>1, <4>2, SnapshotFacts
      <4> HIDE DEF p
      <4> QED BY <4>1, <4>3
    <3> QED BY <3>2, <3>3
  <2>6. CASE ResumeSave
    BY <1>0, <2>6 DEF ResumeSave, work, queue
  <2> QED BY <1>7, <2>1, <2>2, <2>3, <2>4, <2>5, <2>6 DEF PauseStep
<1>8. CASE OtherStep
  <2>1. ASSUME NEW r \in Request, Submit(r)
        PROVE  QueueHoldsSaved'
    <3>1. IsSeq(pending') /\ \A i \in DOMAIN pending' : pending'[i].req \in Request
      BY <2>1, SubmittedFacts
    <3>2. CASE IsPaused
      <4>1. /\ DOMAIN Snapshot(paused, pending').queued = DOMAIN pending'
            /\ \A i \in DOMAIN pending' : Snapshot(paused, pending').queued[i] = pending'[i].req
        BY <1>p, <3>1, <3>2, SnapshotFacts
      <4>2. paused' = Snapshot(paused, pending')
        BY <2>1, <3>2 DEF Submit
      <4> QED BY <4>1, <4>2
    <3>3. CASE ~IsPaused
      BY <2>1, <3>3 DEF Submit
    <3> QED BY <3>2, <3>3
  <2>2. CASE SubmitSaved
    BY <1>0, <2>2 DEF SubmitSaved, work, queue
  <2>3. CASE TakeItem
    BY <2>3 DEF TakeItem, pause, TurnInv, PauseHeld
  <2>4. CASE StartTurn
    BY <1>0, <2>4 DEF StartTurn, pause, ctrl, queue
  <2>5. CASE Clear
    BY <2>5 DEF Clear
  <2>6. CASE ClearDone
    BY <1>ops, <2>6 DEF ClearDone, TurnInv, LockKept, NothingOfTheOld
  <2>7. CASE Crash
    BY <2>7 DEF Crash
  <2>8. CASE Load
    <3>1. /\ UNCHANGED <<item, pending, op>> /\ pending = <<>> /\ item = NoItem
          /\ op["pause"].step = "idle"
      BY <1>ops, <2>8 DEF Load, work, ctrl, TurnInv, DownIsEmpty
    <3> QED BY <3>1
  <2> QED BY <1>8, <2>1, <2>2, <2>3, <2>4, <2>5, <2>6, <2>7, <2>8 DEF OtherStep
<1> QED BY <1>0, <1>1, <1>2, <1>3, <1>4, <1>5, <1>6, <1>7, <1>8, StepCases

\* The queue as the next to use it finds it is of this conversation.
LEMMA RestoredIsNew ==
  ASSUME TurnInv, OfThisConversation
  PROVE  \A i \in DOMAIN WithRestored : born[WithRestored[i].req] = gen
<1>1. CASE IsPaused /\ pending = <<>>
  <2> DEFINE n == Len(paused.queued)
             w == WithRestored
  <2>1. /\ n \in Nat /\ DOMAIN paused.queued = 1..n
        /\ \A i \in 1..n : paused.queued[i] \in Request
    BY <1>1, PauseFacts DEF TurnInv, Shape, IsPaused
  <2>2. w = [i \in 1..n |-> Fresh(paused.queued[i])]
    BY <1>1, <2>1 DEF WithRestored, Restored
  <2>3. gen \in Nat /\ PauseIsNew(paused, born, gen)
    BY <1>1 DEF TurnInv, Shape, OfThisConversation
  <2> HIDE DEF n, w
  <2>4. \A i \in 1..n : w[i].req = paused.queued[i]
    BY <2>1, <2>2, <2>3, FreshFacts
  <2>5. w = WithRestored /\ DOMAIN w = 1..n
    BY <2>2 DEF w
  <2> QED BY <2>1, <2>3, <2>4, <2>5 DEF PauseIsNew
<1>2. CASE ~(IsPaused /\ pending = <<>>)
  BY <1>2 DEF OfThisConversation, WithRestored
<1> QED BY <1>1, <1>2

LEMMA NewStep ==
  ASSUME TurnInv, OfThisConversation, [Next]_vars, [moving => up']_vars
  PROVE  OfThisConversation'
<1> USE DEF OfThisConversation, IsPaused
<1>0. /\ IsOps(op) /\ (at = "none" <=> item = NoItem) /\ tgen \in Nat /\ gen \in Nat
      /\ IsSeq(pending) /\ OfThisConversation
  BY DEF TurnInv, Shape
<1>p. IsPaused => IsPause(paused)
  BY DEF TurnInv, Shape
<1>i. item # NoItem => IsItem(item, gen)
  BY DEF TurnInv, Shape
<1>q. \A i \in DOMAIN pending : pending[i].req \in Request
  BY ItemFacts DEF TurnInv, Shape
<1>none. DOMAIN <<>> = {}
  BY EmptyIsSeq
<1>ops. Ops = {"stop", "pause", "clear"}
  BY DEF Ops
<1>pausing. ASSUME item # NoItem, ~moving, paused' = Pausing,
                   UNCHANGED <<gen, pending, item, saved, born, moving>>
            PROVE  OfThisConversation'
  <2>1. DOMAIN paused'.queued = {} /\ paused'.req = item.req
    BY <1>0, <1>i, <1>pausing, PausingFacts
  <2> QED BY <1>0, <1>pausing, <2>1 DEF PauseIsNew
<1>settling. ASSUME IsPaused, NEW it, paused' = Settled(it),
                    UNCHANGED <<gen, pending, item, saved, born, moving>>
             PROVE  OfThisConversation'
  <2>1. /\ DOMAIN paused'.queued = DOMAIN pending /\ paused'.req = paused.req
        /\ \A i \in DOMAIN pending : paused'.queued[i] = pending[i].req
    BY <1>0, <1>p, <1>q, <1>settling, SettledFacts
  <2> QED BY <1>0, <1>settling, <2>1 DEF PauseIsNew
<1>1. CASE Elsewhere
  BY <1>0, <1>1 DEF Elsewhere
<1>2. CASE TurnGoesOn
  BY <1>0, <1>2 DEF TurnGoesOn
<1>3. CASE ItemEnds
  BY <1>0, <1>3 DEF ItemEnds
<1>4. CASE PausesItself
  <2>1. ~moving
    BY <1>4 DEF PausesItself, TurnInv, NothingOfTheOld
  <2> QED BY <1>4, <1>pausing, <2>1 DEF PausesItself
<1>5. CASE SettlesItself
  <2>1. IsPaused
    BY <1>5 DEF SettlesItself, TurnInv, PauseHeld, Shape
  <2> QED BY <1>5, <1>settling, <2>1 DEF SettlesItself
<1>6. CASE CancelStep
  <2>1. CASE Stop \/ KidsEnd
    BY <1>0, <2>1 DEF Stop, KidsEnd, work, queue, pause, hist
  <2>2. ASSUME NEW o \in Ops, CancelEntered(o) \/ CancelDone(o)
        PROVE  OfThisConversation'
    BY <1>0, <2>2 DEF CancelEntered, CancelDone, work, queue, pause, hist
  <2>3. ASSUME NEW o \in Ops, TurnCancelled(o)
        PROVE  OfThisConversation'
    <3>1. /\ UNCHANGED <<gen, pending, paused, born, moving>> /\ item' = NoItem
          /\ saved' \in {saved, NoPause} \/ saved' = paused
      BY <1>0, <2>3, CancelledEffect
    <3> QED BY <1>0, <3>1
  <2> QED BY <1>6, <2>1, <2>2, <2>3 DEF CancelStep
<1>7. CASE PauseStep
  <2>1. CASE PauseBegin
    BY <1>pausing, <2>1 DEF PauseBegin, work, hist
  <2>2. CASE PauseSettle
    <3>1. UNCHANGED <<gen, pending, item, saved, born, moving>>
      BY <2>2 DEF PauseSettle, work, queue, hist
    <3>2. CASE grip[1] # gen
      BY <1>0, <2>2, <3>1, <3>2 DEF PauseSettle
    <3>3. CASE grip[1] = gen
      <4>1. IsPaused
        BY <1>ops, <2>2, <3>3 DEF PauseSettle, TurnInv, LockKept, PauseHeld
      <4> QED BY <1>settling, <2>2, <3>1, <3>3, <4>1 DEF PauseSettle
    <3> QED BY <3>2, <3>3
  <2>3. CASE PauseSave \/ ResumeBegin
    BY <1>0, <2>3 DEF PauseSave, ResumeBegin, work, queue, pause, hist
  <2>4. CASE ResumeQueue
    <3>1. UNCHANGED <<gen, item, saved, born, moving>> /\ lock = "resume"
      BY <2>4 DEF ResumeQueue, work, hist
    <3>2. CASE Expired
      BY <1>0, <2>4, <3>1, <3>2 DEF ResumeQueue
    <3>3. CASE ~Expired
      <4> DEFINE w == WithRestored
                 p == Snapshot(paused, w)
      <4>1. pending' = w /\ paused' = p /\ IsPaused
        BY <2>4, <3>1, <3>3 DEF ResumeQueue, TurnInv, PauseHeld
      <4>2. IsSeq(w) /\ \A i \in DOMAIN w : w[i].req \in Request
        BY WithRestoredFacts
      <4>3. \A i \in DOMAIN w : born[w[i].req] = gen
        BY <4>1, RestoredIsNew
      <4> HIDE DEF w
      <4>4. /\ p.req = paused.req /\ DOMAIN p.queued = DOMAIN w
            /\ \A i \in DOMAIN w : p.queued[i] = w[i].req
        BY <1>p, <4>1, <4>2, SnapshotFacts
      <4> HIDE DEF p
      <4>5. PauseIsNew(p, born, gen)
        BY <1>0, <4>1, <4>3, <4>4 DEF PauseIsNew
      <4> QED BY <1>0, <3>1, <4>1, <4>3, <4>5
    <3> QED BY <3>2, <3>3
  <2>5. CASE ResumeSave
    <3>1. /\ UNCHANGED <<gen, item, born, moving>> /\ lock = "resumeSave"
          /\ saved' = saved \/ (IsPaused /\ saved' = paused)
      BY <2>5 DEF ResumeSave, work, hist
    <3>2. CASE Expired
      BY <1>0, <2>5, <3>1, <3>2 DEF ResumeSave, queue
    <3>3. CASE ~Expired
      <4>1. pending' = <<Resumption>> \o pending /\ paused' = NoPause /\ IsPaused
        BY <2>5, <3>1, <3>3 DEF ResumeSave, TurnInv, PauseHeld
      <4>2. /\ DOMAIN pending' = 1..(Len(pending) + 1)
            /\ Len(pending) \in Nat /\ DOMAIN pending = 1..Len(pending)
            /\ pending'[1] = Resumption
            /\ \A i \in 1..Len(pending) : pending'[i + 1] = pending[i]
        BY <1>0, <4>1, ConsSeq
      <4>3. Resumption.req = paused.req
        BY <1>0, <1>p, <4>1, ResumptionFacts
      <4>4. born[Resumption.req] = gen
        BY <1>0, <4>1, <4>3 DEF PauseIsNew
      <4>5. ASSUME NEW i \in DOMAIN pending'
            PROVE  born[pending'[i].req] = gen
        <5>1. CASE i = 1
          BY <4>2, <4>4, <5>1
        <5>2. CASE i # 1
          <6>1. i - 1 \in DOMAIN pending /\ (i - 1) + 1 = i
            BY <4>2, <5>2
          <6>2. pending'[i] = pending[i - 1]
            BY <4>2, <6>1
          <6> QED BY <1>0, <6>1, <6>2
        <5> QED BY <5>1, <5>2
      <4> QED BY <1>0, <3>1, <4>1, <4>5
    <3> QED BY <3>2, <3>3
  <2> QED BY <1>7, <2>1, <2>2, <2>3, <2>4, <2>5 DEF PauseStep
<1>8. CASE OtherStep
  <2>1. ASSUME NEW r \in Request, Submit(r)
        PROVE  OfThisConversation'
    <3> DEFINE n == Len(WithRestored)
    <3>1. /\ UNCHANGED <<gen, item, saved, moving>> /\ born' = [born EXCEPT ![r] = gen]
          /\ IsPaused => paused' = Snapshot(paused, pending')
          /\ ~IsPaused => paused' = NoPause
      BY <2>1 DEF Submit, work
    <3>2. \A x : born[x] = gen => born'[x] = gen
      BY <3>1 DEF TurnInv, Shape
    <3>3. born'[r] = gen
      BY <3>1 DEF TurnInv, Shape
    <3>4. /\ IsSeq(pending') /\ n \in Nat /\ DOMAIN WithRestored = 1..n
          /\ DOMAIN pending' = 1..(n + 1)
          /\ \A i \in 1..n : pending'[i] = WithRestored[i]
          /\ pending'[n + 1].req = r
          /\ \A i \in DOMAIN pending' : pending'[i].req \in Request
      BY <2>1, SubmittedFacts
    <3>5. \A i \in DOMAIN WithRestored : born[WithRestored[i].req] = gen
      BY RestoredIsNew
    <3> HIDE DEF n
    <3>6. \A i \in DOMAIN pending' : born'[pending'[i].req] = gen
      <4>1. \A i \in DOMAIN pending' : i \in 1..n \/ i = n + 1
        BY <3>4
      <4> QED BY <3>2, <3>3, <3>4, <3>5, <4>1
    <3>7. ASSUME IsPaused
          PROVE  PauseIsNew(paused', born', gen)
      <4> DEFINE p == Snapshot(paused, pending')
      <4>1. /\ p.req = paused.req /\ DOMAIN p.queued = DOMAIN pending'
            /\ \A i \in DOMAIN pending' : p.queued[i] = pending'[i].req
        BY <1>p, <3>4, <3>7, SnapshotFacts
      <4>2. paused' = p
        BY <3>1, <3>7
      <4> HIDE DEF p
      <4> QED BY <1>0, <3>2, <3>6, <3>7, <4>1, <4>2 DEF PauseIsNew
    <3>8. ~moving /\ saved # NoPause => PauseIsNew(saved, born', gen)
      BY <1>0, <3>2 DEF PauseIsNew
    <3> QED BY <1>0, <3>1, <3>2, <3>6, <3>7, <3>8
  <2>2. CASE SubmitSaved \/ StartTurn
    BY <1>0, <2>2 DEF SubmitSaved, StartTurn, work, queue, pause, ctrl, hist
  <2>3. CASE TakeItem
    <3>1. UNCHANGED <<gen, paused, saved, born, moving>>
      BY <2>3 DEF TakeItem, pause, ctrl, hist
    <3>2. /\ DOMAIN pending = 1..Len(pending) /\ Len(pending) \in Nat /\ Len(pending) >= 1
          /\ DOMAIN pending' = 1..(Len(pending) - 1)
          /\ \A i \in DOMAIN pending' : pending'[i] = pending[i + 1]
          /\ item'.req = pending[1].req
      BY <2>3, TakenFacts
    <3>3. \A i \in DOMAIN pending' : i + 1 \in DOMAIN pending
      BY <3>2
    <3>4. 1 \in DOMAIN pending
      BY <3>2
    <3> QED BY <1>0, <3>1, <3>2, <3>3, <3>4
  <2>4. CASE Clear
    BY <1>0, <1>none, <2>4 DEF Clear, work, hist
  <2>5. CASE ClearDone
    <3>1. moving /\ ~IsPaused
      BY <1>ops, <2>5 DEF ClearDone, TurnInv, LockKept, NothingOfTheOld
    <3> QED BY <1>0, <1>none, <2>5, <3>1 DEF ClearDone, work, hist
  <2>6. CASE Crash
    <3>1. /\ UNCHANGED <<gen, born>> /\ pending' = <<>> /\ item' = NoItem /\ paused' = NoPause
          /\ up /\ ~up'
          /\ saved' \in {saved, NoPause} \/ (IsPaused /\ saved' = paused)
      BY <2>6 DEF Crash, Leave
    <3>2. ~moving
      BY <3>1 DEF vars, life
    <3> QED BY <1>0, <1>none, <3>1, <3>2
  <2>7. CASE Load
    <3>1. /\ UNCHANGED <<gen, item, pending, saved, born, moving>> /\ paused' = saved /\ ~moving
      BY <2>7 DEF Load, work, ctrl, hist, TurnInv, NothingOfTheOld
    <3> QED BY <1>0, <3>1
  <2> QED BY <1>8, <2>1, <2>2, <2>3, <2>4, <2>5, <2>6, <2>7 DEF OtherStep
<1> QED BY <1>0, <1>1, <1>2, <1>3, <1>4, <1>5, <1>6, <1>7, <1>8, StepCases

\* One step: what is current was current or is of this conversation, and a
\* pause that stays keeps the queue it has.
LEMMA FollowStep ==
  ASSUME TurnInv, OfThisConversation, QueueHoldsSaved, [Next]_vars
  PROVE  /\ \A r \in Request : item.req # r /\ born[r] < gen => item'.req # r
         /\ IsPaused /\ paused' # NoPause /\ up' =>
              ToSet(paused.queued) \subseteq ToSet(paused'.queued)
<1> DEFINE Current == item' \in {item, NoItem} \/ born[item'.req] = gen
           Kept == IsPaused /\ paused' # NoPause =>
                     \A i \in DOMAIN paused.queued :
                       \E j \in DOMAIN paused'.queued : paused'.queued[j] = paused.queued[i]
<1> USE DEF IsPaused
<1>0. /\ IsOps(op) /\ (at = "none" <=> item = NoItem) /\ gen \in Nat
      /\ IsSeq(pending)
  BY DEF TurnInv, Shape
<1>p. IsPaused => IsPause(paused)
  BY DEF TurnInv, Shape
<1>q. \A i \in DOMAIN pending : pending[i].req \in Request
  BY ItemFacts DEF TurnInv, Shape
<1>ops. Ops = {"stop", "pause", "clear"}
  BY DEF Ops
<1>held. IsPaused /\ (item # NoItem \/ op["pause"].step # "idle") =>
           \A i \in DOMAIN paused.queued :
             \E j \in DOMAIN pending : pending[j].req = paused.queued[i]
  BY DEF QueueHoldsSaved
<1>settling. ASSUME IsPaused, item # NoItem \/ op["pause"].step # "idle",
                    NEW it, paused' = Settled(it)
             PROVE  Kept
  <2>1. /\ DOMAIN paused'.queued = DOMAIN pending
        /\ \A i \in DOMAIN pending : paused'.queued[i] = pending[i].req
    BY <1>0, <1>p, <1>q, <1>settling, SettledFacts
  <2> QED BY <1>held, <1>settling, <2>1
<1>restoring. ASSUME IsPaused, NEW q, IsSeq(q), \A i \in DOMAIN q : q[i].req \in Request,
                     paused' = Snapshot(paused, q),
                     \A i \in DOMAIN WithRestored :
                       i \in DOMAIN q /\ q[i] = WithRestored[i]
              PROVE  Kept
  <2>1. /\ DOMAIN paused'.queued = DOMAIN q
        /\ \A i \in DOMAIN q : paused'.queued[i] = q[i].req
    BY <1>p, <1>restoring, SnapshotFacts
  <2>2. \A i \in DOMAIN paused.queued :
          \E j \in DOMAIN WithRestored : WithRestored[j].req = paused.queued[i]
    BY <1>restoring, RestoredHolds
  <2> QED BY <1>restoring, <2>1, <2>2
<1>1. Current /\ Kept
  <2>1. CASE Elsewhere \/ TurnGoesOn \/ ItemEnds
    BY <2>1 DEF Elsewhere, TurnGoesOn, ItemEnds
  <2>2. CASE PausesItself
    BY <2>2 DEF PausesItself
  <2>3. CASE SettlesItself
    <3>1. IsPaused /\ item # NoItem
      BY <1>0, <2>3 DEF SettlesItself, TurnInv, PauseHeld
    <3> QED BY <1>settling, <2>3, <3>1 DEF SettlesItself
  <2>4. CASE CancelStep
    <3>1. item' \in {item, NoItem} /\ paused' = paused
      BY <2>4 DEF CancelStep, Stop, KidsEnd, CancelEntered, TurnCancelled, CancelDone,
         Leave, work, pause
    <3> QED BY <3>1
  <2>5. CASE PauseStep
    <3>1. item' = item
      BY <2>5 DEF PauseStep, PauseBegin, PauseSettle, PauseSave, ResumeBegin, ResumeQueue,
         ResumeSave, work
    <3>2. CASE PauseBegin \/ PauseSave \/ ResumeBegin \/ ResumeSave
      BY <3>1, <3>2 DEF PauseBegin, PauseSave, ResumeBegin, ResumeSave, pause
    <3>3. CASE PauseSettle
      <4>1. CASE grip[1] # gen
        BY <3>1, <3>3, <4>1 DEF PauseSettle
      <4>2. CASE grip[1] = gen
        <5>1. IsPaused /\ op["pause"].step # "idle"
          BY <1>ops, <3>3, <4>2 DEF PauseSettle, TurnInv, LockKept, PauseHeld
        <5> QED BY <1>settling, <3>1, <3>3, <4>2, <5>1 DEF PauseSettle
      <4> QED BY <4>1, <4>2
    <3>4. CASE ResumeQueue
      <4>1. CASE Expired
        BY <3>1, <3>4, <4>1 DEF ResumeQueue
      <4>2. CASE ~Expired
        <5>1. paused' = Snapshot(paused, WithRestored) /\ IsPaused
          BY <3>4, <4>2 DEF ResumeQueue, TurnInv, PauseHeld
        <5>2. IsSeq(WithRestored) /\ \A i \in DOMAIN WithRestored : WithRestored[i].req \in Request
          BY WithRestoredFacts
        <5> QED BY <1>restoring, <3>1, <5>1, <5>2
      <4> QED BY <4>1, <4>2
    <3> QED BY <2>5, <3>2, <3>3, <3>4 DEF PauseStep
  <2>6. CASE OtherStep
    <3>1. ASSUME NEW r \in Request, Submit(r)
          PROVE  Current /\ Kept
      <4>1. item' = item /\ (IsPaused => paused' = Snapshot(paused, pending'))
        BY <3>1 DEF Submit, work
      <4>2. /\ IsSeq(pending') /\ \A i \in DOMAIN pending' : pending'[i].req \in Request
            /\ \A i \in DOMAIN WithRestored :
                 i \in DOMAIN pending' /\ pending'[i] = WithRestored[i]
        BY <3>1, SubmittedFacts
      <4> QED BY <1>restoring, <4>1, <4>2
    <3>2. CASE SubmitSaved \/ StartTurn
      BY <3>2 DEF SubmitSaved, StartTurn, work, pause
    <3>3. CASE TakeItem
      <4>1. item'.req = pending[1].req /\ 1 \in DOMAIN pending /\ paused' = paused
        BY <3>3, TakenFacts DEF TakeItem, pause
      <4> QED BY <4>1 DEF OfThisConversation
    <3>4. CASE Clear \/ ClearDone
      BY <3>4 DEF Clear, ClearDone, work
    <3>5. CASE Crash
      BY <3>5 DEF Crash, Leave
    <3>6. CASE Load
      BY <3>6 DEF Load, work, TurnInv, DownIsEmpty
    <3> QED BY <2>6, <3>1, <3>2, <3>3, <3>4, <3>5, <3>6 DEF OtherStep
  <2> QED BY <1>0, <2>1, <2>2, <2>3, <2>4, <2>5, <2>6, StepCases
<1>2. ASSUME NEW r \in Request, item.req # r, born[r] < gen
      PROVE  item'.req # r
  <2>1. NoItem.req # r
    BY TurnControlAssumption DEF NoItem
  <2> QED BY <1>0, <1>1, <1>2, <2>1
<1>3. Kept => (IsPaused /\ paused' # NoPause /\ up' =>
                 ToSet(paused.queued) \subseteq ToSet(paused'.queued))
  BY DEF ToSet
<1> QED BY <1>1, <1>2, <1>3

\* The process does not die while a conversation is being cleared: until the
\* new one is there, the journal of the old one still holds its pause, and a
\* restart finds it there.
ClearsComplete == [][moving => up']_vars

\* A request from before a clear never becomes current after it, and a pause
\* never loses a request that was saved with it, through restarts as well.
THEOREM QueueFollowsTheUserCorrect == Spec /\ ClearsComplete => QueueFollowsTheUser
<1> DEFINE Inv == OfThisConversation /\ QueueHoldsSaved
           Follows == /\ \A r \in Request : item.req # r /\ born[r] < gen => item'.req # r
                      /\ IsPaused /\ paused' # NoPause /\ up' =>
                           ToSet(paused.queued) \subseteq ToSet(paused'.queued)
<1>1. Init => Inv
  <2>1. DOMAIN <<>> = {}
    BY EmptyIsSeq
  <2> QED BY <2>1 DEF Init, OfThisConversation, QueueHoldsSaved, IsPaused
<1>2. TurnInv /\ Inv /\ [Next]_vars /\ [moving => up']_vars => Inv'
  BY HoldsStep, NewStep
<1>3. TurnInv /\ Inv /\ [Next]_vars => Follows
  BY FollowStep
<1>4. QueueFollowsTheUser <=> [][Follows]_vars
  BY PTL DEF QueueFollowsTheUser
<1> HIDE DEF Inv, Follows
<1> QED BY <1>1, <1>2, <1>3, <1>4, TurnInvCorrect, PTL DEF Spec, ClearsComplete
=============================================================================
