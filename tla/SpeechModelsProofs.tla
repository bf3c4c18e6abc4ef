-------------------------- MODULE SpeechModelsProofs --------------------------
(* Proofs about the installed speech models: what is loaded, active or taken   *)
(* away for a switch keeps its files, for any number of processes, tasks and   *)
(* versions.                                                                   *)
EXTENDS SpeechModels, TLAPS

Maybe == Version \cup {None}
Ops == {None, "prepare", "use", "clean", "update", "rollback"}
Switches == {"update", "rollback"}
Locals == [at : Places, op : Ops, cand : Maybe, prior : Maybe, was : Maybe, foreign : BOOLEAN, owed : BOOLEAN,
           left : SUBSET Version, known : SUBSET Version]

TypeInv ==
  /\ installed \in [versions : SUBSET Version, active : Maybe, previous : Maybe]
  /\ disk \in [Version -> {"absent", "whole", "damaged"}]
  /\ engine \in [Process -> Maybe] /\ lease \in [Process -> Maybe]
  /\ busy \in [Process -> Task \cup {Nobody}] /\ download \in [Version -> Task \cup {Nobody}]
  /\ update \in Task \cup {Nobody} /\ json \in Task \cup {Nobody} /\ overtaken \in Maybe
  /\ task \in [Task -> Locals]
  /\ ops \in Nat /\ faults \in Nat /\ damages \in Nat

\* Places at which a task holds engine.lock, has nothing loaded, is in a switch.
Engaged == {"drop", "gate", "build", "activate", "undo", "regate", "rebuild", "leave"}
Unloaded == {"gate", "build", "regate", "rebuild"}
Switching == {"switch", "drop", "activate", "undo", "regate", "rebuild"}

EngineOf(t) ==
  /\ task[t].at \in Engaged => busy[Of[t]] = t
  /\ task[t].at \in Unloaded => engine[Of[t]] = None
  /\ task[t].at \in {"build", "rebuild"} => lease[Of[t]] # None
  /\ task[t].at = "build" => lease[Of[t]] = task[t].cand
  /\ task[t].at = "rebuild" => lease[Of[t]] = task[t].was
  /\ task[t].at = "activate" => engine[Of[t]] = task[t].cand /\ task[t].cand # None
  /\ task[t].at \in Switching \/ task[t].was # None => task[t].op \in Switches
  /\ task[t].was # None => task[t].at \in Engaged
EngineInv == (\A t \in Task : EngineOf(t)) /\ LoadedStaysOnDisk

CleanInv ==
  /\ \A t \in Task : task[t].at = "sweep" => json = t
  /\ json # Nobody =>
       /\ task[json].at = "sweep"
       /\ task[json].left \subseteq task[json].known /\ task[json].known \subseteq installed.versions
       /\ installed.active \notin task[json].left

\* What a switch took away can be loaded again.
Kept(v) == Recorded(v) /\ disk[v] = "whole"
SwitchOf(t) ==
  task[t].was # None /\ task[t].owed =>
    /\ task[t].at \in {"drop", "gate", "build", "activate", "undo", "regate", "rebuild"} => Kept(task[t].was)
    /\ task[t].at = "leave" => engine[Of[t]] # None
SwitchInv == damages = 0 => \A t \in Task : SwitchOf(t)

DownloadInv ==
  \A t \in Task : task[t].at \in {"check", "choose", "install", "commit"} => download[Newest[Of[t]]] = t

\* While nothing has failed: what is on disk has a record, or gets one.
Stays(v) == Recorded(v) \/ BeingRecorded(v)
FilesQuiet(v) ==
  /\ disk[v] # "damaged"
  /\ v \in installed.versions /\ disk[v] = "absent" => ~Recorded(v)
  /\ v \in installed.versions /\ disk[v] # "absent" => Stays(v)
InstallQuiet(t) ==
  /\ task[t].at \in {"install", "commit"} => ~Recorded(Newest[Of[t]])
  /\ task[t].at = "commit" => disk[Newest[Of[t]]] = "whole"
LeaseQuiet(v) == InUse(v) /\ disk[v] # "absent" => Stays(v)
ActiveQuiet == installed.active \notin {None, overtaken} => disk[installed.active] # "absent" /\ Stays(installed.active)
Quiet ==
  /\ \A v \in Version : FilesQuiet(v) /\ LeaseQuiet(v)
  /\ \A t \in Task : InstallQuiet(t)
  /\ ActiveQuiet
QuietInv == faults + damages = 0 => Quiet

IInv == TypeInv /\ EngineInv /\ CleanInv /\ SwitchInv /\ DownloadInv /\ QuietInv

-----------------------------------------------------------------------------
(* Types.                                                                     *)

LEMMA UsableIs ==
  ASSUME TypeInv, NEW p \in Process
  PROVE  /\ Usable(p) \in Maybe
         /\ Usable(p) # None => Known(Usable(p)) /\ Usable(p) \in Family[p]
         /\ Usable(p) = None => ~Known(Newest[p])
<1> DEFINE own == {v \in Family[p] : Known(v)}
<1>1. own \subseteq Version /\ Newest[p] \in Family[p]
  BY ModelsAssumption
<1>2. own # {} => (CHOOSE v \in own : TRUE) \in own
  OBVIOUS
<1>3. Usable(p) = IF installed.active \in own THEN installed.active
                  ELSE IF Newest[p] \in own THEN Newest[p]
                  ELSE IF own = {} THEN None ELSE CHOOSE v \in own : TRUE
  BY DEF Usable
<1>4. Newest[p] \in own <=> Known(Newest[p])
  BY <1>1
<1>5. \A v \in own : v \in Version /\ v # None /\ Known(v) /\ v \in Family[p]
  BY <1>1, ModelsAssumption
<1>6. CASE own = {}
  <2>1. Usable(p) = None
    BY <1>6, <1>3
  <2> QED BY <2>1, <1>4, <1>6 DEF Maybe
<1>7. CASE own # {}
  <2>1. Usable(p) \in own
    BY <1>2, <1>3, <1>7
  <2> HIDE DEF own
  <2> QED BY <2>1, <1>5 DEF Maybe
<1> QED BY <1>6, <1>7

LEMMA InitIInv == ModelsInit => IInv
<1> SUFFICES ASSUME ModelsInit PROVE IInv
  OBVIOUS
<1>1. TypeInv
  BY ModelsAssumption DEF ModelsInit, TypeInv, Maybe, Locals, Resting, Places, Ops
<1>2. EngineInv /\ CleanInv /\ SwitchInv /\ DownloadInv
  BY ModelsAssumption DEF ModelsInit, EngineInv, EngineOf, CleanInv, SwitchInv, SwitchOf, DownloadInv, LoadedStaysOnDisk, Resting, Engaged,
    Unloaded, Switching
<1>3. QuietInv
  <2>1. PICK v \in Maybe : /\ installed = [versions |-> {v} \ {None}, active |-> v, previous |-> None]
                           /\ disk = [w \in Version |-> IF w = v THEN "whole" ELSE "absent"]
    BY DEF ModelsInit, Maybe
  <2>2. installed.versions = {v} \ {None} /\ installed.active = v /\ json = Nobody
        /\ (v \in Version => disk[v] = "whole") /\ \A w \in Version : w # v => disk[w] = "absent"
    BY <2>1 DEF ModelsInit
  <2>3. (\A t \in Task : task[t].at = "idle") /\ \A p \in Process : lease[p] = None
    BY DEF ModelsInit, Resting
  <2>4. \A w \in Version : w # None
    BY ModelsAssumption
  <2> QED
    BY <2>2, <2>3, <2>4 DEF QuietInv, Quiet, FilesQuiet, LeaseQuiet, InstallQuiet, ActiveQuiet, InUse, Recorded, Stays, Maybe
<1> QED BY <1>1, <1>2, <1>3 DEF IInv

Records == [versions : SUBSET Version, active : Maybe, previous : Maybe]

LEMMA AtLocals ==
  ASSUME TypeInv, NEW t \in Task, NEW place \in Places, At(t, place)
  PROVE  task' \in [Task -> Locals]
<1>1. task[t] \in Locals /\ [task[t] EXCEPT !.at = place] \in Locals
  BY DEF Locals, TypeInv
<1>2. task' = [task EXCEPT ![t] = [task[t] EXCEPT !.at = place]]
  BY DEF At
<1> QED BY <1>1, <1>2 DEF TypeInv

LEMMA RestingLocals == Resting \in Locals
BY DEF Resting, Locals, Places, Ops, Maybe

\* One field after the other.
LEMMA FieldLocals ==
  ASSUME NEW l \in Locals
  PROVE  /\ \A x \in Places : [l EXCEPT !.at = x] \in Locals
         /\ \A x \in Maybe : [l EXCEPT !.cand = x] \in Locals
         /\ \A x \in Maybe : [l EXCEPT !.prior = x] \in Locals
         /\ \A x \in Maybe : [l EXCEPT !.was = x] \in Locals
         /\ \A x \in BOOLEAN : [l EXCEPT !.foreign = x] \in Locals
         /\ \A x \in SUBSET Version : [l EXCEPT !.left = x] \in Locals
         /\ \A x \in SUBSET Version : [l EXCEPT !.known = x] \in Locals
<1>1. ASSUME NEW x \in Places PROVE [l EXCEPT !.at = x] \in Locals
  BY DEF Locals
<1>2. ASSUME NEW x \in Maybe
      PROVE  /\ [l EXCEPT !.cand = x] \in Locals
             /\ [l EXCEPT !.prior = x] \in Locals
             /\ [l EXCEPT !.was = x] \in Locals
  BY DEF Locals
<1>3. ASSUME NEW x \in SUBSET Version
      PROVE  [l EXCEPT !.left = x] \in Locals /\ [l EXCEPT !.known = x] \in Locals
  BY DEF Locals
<1>4. ASSUME NEW x \in BOOLEAN PROVE [l EXCEPT !.foreign = x] \in Locals
  BY DEF Locals
<1> QED BY <1>1, <1>2, <1>3, <1>4

LEMMA OwedLocals == ASSUME NEW l \in Locals, NEW b \in BOOLEAN PROVE [l EXCEPT !.owed = b] \in Locals
BY DEF Locals

LEMMA EndTypes ==
  ASSUME TypeInv, NEW t \in Task, End(t)
  PROVE  /\ task' \in [Task -> Locals] /\ busy' \in [Process -> Task \cup {Nobody}]
         /\ download' \in [Version -> Task \cup {Nobody}] /\ update' \in Task \cup {Nobody}
BY RestingLocals DEF TypeInv, End

LEMMA PreparedTypes ==
  ASSUME TypeInv, NEW t \in Task, NEW v \in Maybe, Prepared(t, v)
  PROVE  task' \in [Task -> Locals] /\ download' \in [Version -> Task \cup {Nobody}]
<1> DEFINE l == [task[t] EXCEPT !.cand = v, !.at = IF task[t].op = "update" THEN "switch" ELSE "lock"]
<1>0. ASSUME NEW place \in Places, NEW c \in Maybe PROVE [task[t] EXCEPT !.cand = c, !.at = place] \in Locals
  BY DEF TypeInv, Locals
<1>1. l \in Locals
  BY <1>0 DEF Maybe, Places
<1>2. task' = [task EXCEPT ![t] = l]
  BY DEF Prepared
<1> HIDE DEF l
<1> QED BY <1>1, <1>2 DEF Prepared, TypeInv

LEMMA NewestIs == \A t \in Task : Of[t] \in Process /\ Newest[Of[t]] \in Version /\ Newest[Of[t]] # None
BY ModelsAssumption

LEMMA TypeStep == TypeInv /\ [ModelsNext]_modelVars => TypeInv'
<1> SUFFICES ASSUME TypeInv, [ModelsNext]_modelVars PROVE TypeInv'
  OBVIOUS
<1>1. ASSUME NEW t \in Task, Begin(t) PROVE TypeInv'
  <2>1. PICK l : task' = [task EXCEPT ![t] = l] /\ l \in Locals
    <3>1. ASSUME NEW o \in Ops, NEW place \in Places, NEW f \in BOOLEAN
          PROVE  [Resting EXCEPT !.op = o, !.foreign = f, !.at = place] \in Locals
      <4>1. [Resting EXCEPT !.op = o] \in Locals
        BY DEF Resting, Locals, Maybe, Places
      <4>2. [[Resting EXCEPT !.op = o] EXCEPT !.foreign = f] \in Locals
        BY <4>1, FieldLocals
      <4>3. [[[Resting EXCEPT !.op = o] EXCEPT !.foreign = f] EXCEPT !.at = place] \in Locals
        BY <4>2, FieldLocals
      <4> QED BY <4>3
    <3>2. installed.previous \in Maybe
      BY DEF TypeInv
    <3>3. CASE \E o \in {"prepare", "use", "clean"} : task' = [task EXCEPT ![t] = [Resting EXCEPT !.op = o,
                        !.foreign = o = "prepare" /\ Foreign(Of[t]),
                        !.at = CASE o = "prepare" -> "download" [] o = "use" -> "lock" [] OTHER -> "json"]]
      <4>1. PICK o \in {"prepare", "use", "clean"} : task' = [task EXCEPT ![t] = [Resting EXCEPT !.op = o,
                        !.foreign = o = "prepare" /\ Foreign(Of[t]),
                        !.at = CASE o = "prepare" -> "download" [] o = "use" -> "lock" [] OTHER -> "json"]]
        BY <3>3
      <4> DEFINE place == CASE o = "prepare" -> "download" [] o = "use" -> "lock" [] OTHER -> "json"
                 f == o = "prepare" /\ Foreign(Of[t])
      <4>2. place \in Places /\ o \in Ops /\ f \in BOOLEAN
        BY DEF Places, Ops
      <4>3. [Resting EXCEPT !.op = o, !.foreign = f, !.at = place] \in Locals
        <5> HIDE DEF place, f
        <5> QED BY <3>1, <4>2
      <4> QED BY <4>1, <4>3
    <3>4. CASE task' = [task EXCEPT ![t] = [Resting EXCEPT !.op = "update", !.at = "download", !.foreign = Foreign(Of[t])]]
      <4>1. [Resting EXCEPT !.op = "update", !.at = "download", !.foreign = Foreign(Of[t])] \in Locals
        <5>1. Foreign(Of[t]) \in BOOLEAN /\ "update" \in Ops /\ "download" \in Places
          BY DEF Ops, Places, Foreign
        <5>2. ASSUME NEW o \in Ops, NEW place \in Places, NEW f \in BOOLEAN
              PROVE  [Resting EXCEPT !.op = o, !.at = place, !.foreign = f] = [Resting EXCEPT !.op = o, !.foreign = f, !.at = place]
          BY DEF Resting
        <5>3. PICK f \in BOOLEAN, o \in Ops, place \in Places : f = Foreign(Of[t]) /\ o = "update" /\ place = "download"
          BY <5>1
        <5>4. [Resting EXCEPT !.op = o, !.at = place, !.foreign = f] \in Locals
          <6>1. PICK l \in Locals : l = [Resting EXCEPT !.op = o, !.foreign = f, !.at = place]
            BY <3>1
          <6>2. [Resting EXCEPT !.op = o, !.at = place, !.foreign = f] = l
            BY <5>2, <6>1
          <6> QED BY <6>2
        <5> QED BY <5>3, <5>4
      <4> QED BY <4>1, <3>4
    <3>5. CASE task' = [task EXCEPT ![t] = [Resting EXCEPT !.op = "rollback", !.at = "switch",
                                                           !.cand = installed.previous]]
      <4>1. [Resting EXCEPT !.op = "rollback", !.at = "switch", !.cand = installed.previous] \in Locals
        BY <3>2 DEF Resting, Locals, Maybe, Ops, Places
      <4> QED BY <4>1, <3>5
    <3> QED BY <1>1, <3>3, <3>4, <3>5 DEF Begin
  <2>2. ops' \in Nat /\ update' \in Task \cup {Nobody}
    BY <1>1 DEF Begin, TypeInv
  <2> QED BY <1>1, <2>1, <2>2 DEF Begin, TypeInv
<1>2. ASSUME NEW t \in Task, TakeDownload(t) PROVE TypeInv'
  <2>1. task' \in [Task -> Locals]
    BY <1>2, AtLocals DEF TakeDownload, Places
  <2> QED BY <1>2, <2>1, NewestIs DEF TakeDownload, TypeInv
<1>3. ASSUME NEW t \in Task, Check(t) PROVE TypeInv'
  <2> DEFINE found == IF task[t].op = "prepare" THEN Usable(Of[t])
                      ELSE IF Known(Newest[Of[t]]) THEN Newest[Of[t]] ELSE None
  <2>1. found \in Maybe
    BY UsableIs, NewestIs DEF Maybe
  <2>2. CASE At(t, "install") /\ UNCHANGED download
    <3>1. task' \in [Task -> Locals]
      BY <2>2, AtLocals DEF Places
    <3> QED BY <1>3, <2>2, <3>1 DEF Check, TypeInv
  <2>3. CASE task' = [task EXCEPT ![t].cand = found, ![t].at = "choose"] /\ UNCHANGED download
    <3> HIDE DEF found
    <3>1. [task[t] EXCEPT !.cand = found] \in Locals
      BY <2>1, FieldLocals DEF TypeInv
    <3>2. [[task[t] EXCEPT !.cand = found] EXCEPT !.at = "choose"] \in Locals
      BY <3>1, FieldLocals DEF Places
    <3>3. PICK l \in Locals : l = [task[t] EXCEPT !.cand = found, !.at = "choose"]
      BY <3>2
    <3>4. task' = [task EXCEPT ![t] = l]
      BY <2>3, <3>3
    <3>5. task' \in [Task -> Locals]
      BY <3>4 DEF TypeInv
    <3> QED BY <1>3, <2>3, <3>5 DEF Check, TypeInv
  <2>4. CASE Prepared(t, found)
    <3> HIDE DEF found
    <3>1. task' \in [Task -> Locals] /\ download' \in [Version -> Task \cup {Nobody}]
      BY <2>1, <2>4, PreparedTypes
    <3> QED BY <1>3, <3>1 DEF Check, TypeInv
  <2> QED BY <1>3, <2>2, <2>3, <2>4 DEF Check
<1>21. ASSUME NEW t \in Task, Choose(t) PROVE TypeInv'
  <2>1. task[t].cand \in Maybe /\ Prepared(t, task[t].cand)
    BY <1>21 DEF TypeInv, Locals, Choose
  <2>2. task' \in [Task -> Locals] /\ download' \in [Version -> Task \cup {Nobody}]
    BY <2>1, PreparedTypes
  <2>3. installed' \in Records /\ overtaken' \in Maybe
    BY <1>21, <2>1 DEF Choose, TypeInv, Records, Maybe
  <2> QED BY <1>21, <2>2, <2>3 DEF Choose, TypeInv, Records
<1>4. ASSUME NEW t \in Task, Install(t) PROVE TypeInv'
  <2>1. CASE End(t) /\ UNCHANGED disk
    BY <1>4, <2>1, EndTypes DEF Install, TypeInv
  <2>2. CASE disk' = [disk EXCEPT ![Newest[Of[t]]] = "whole"] /\ At(t, "commit") /\ UNCHANGED <<busy, download, update>>
    <3>1. task' \in [Task -> Locals]
      BY <2>2, AtLocals DEF Places
    <3> QED BY <1>4, <2>2, <3>1 DEF Install, TypeInv
  <2> QED BY <1>4, <2>1, <2>2 DEF Install
<1>5. ASSUME NEW t \in Task, Commit(t) PROVE TypeInv'
  <2>1. task' \in [Task -> Locals] /\ download' \in [Version -> Task \cup {Nobody}]
    BY <1>5, PreparedTypes, NewestIs DEF Commit, Maybe
  <2>2. installed' \in Records /\ overtaken' \in Maybe
    BY <1>5, NewestIs DEF Commit, TypeInv, Records, Maybe
  <2> QED BY <1>5, <2>1, <2>2 DEF Commit, TypeInv, Records
<1>6. ASSUME NEW t \in Task, PrepareFails(t) PROVE TypeInv'
  BY <1>6, EndTypes DEF PrepareFails, Fault, TypeInv
<1>7. ASSUME NEW t \in Task, LockEngine(t) PROVE TypeInv'
  <2> DEFINE v == IF task[t].cand # None THEN task[t].cand ELSE Usable(Of[t])
             l == [task[t] EXCEPT !.cand = v, !.at = IF engine[Of[t]] # None \/ v = None THEN "leave" ELSE "gate"]
  <2>1. v \in Maybe
    BY UsableIs, NewestIs DEF TypeInv, Locals
  <2>2. l \in Locals
    <3> DEFINE place == IF engine[Of[t]] # None \/ v = None THEN "leave" ELSE "gate"
    <3>1. task[t] \in Locals /\ place \in Places
      BY DEF TypeInv, Places
    <3> HIDE DEF v, place
    <3>2. [task[t] EXCEPT !.cand = v] \in Locals
      BY <2>1, <3>1, FieldLocals
    <3>3. [[task[t] EXCEPT !.cand = v] EXCEPT !.at = place] \in Locals
      BY <3>1, <3>2, FieldLocals
    <3> QED BY <3>3 DEF place
  <2>3. task' = [task EXCEPT ![t] = l]
    BY <1>7 DEF LockEngine
  <2>4. task' \in [Task -> Locals]
    <3> HIDE DEF l
    <3> QED BY <2>2, <2>3 DEF TypeInv
  <2> HIDE DEF l, v
  <2> QED BY <1>7, <2>4 DEF LockEngine, TypeInv
<1>8. ASSUME NEW t \in Task, LoadGate(t) PROVE TypeInv'
  <2>1. task' \in [Task -> Locals]
    BY <1>8, AtLocals DEF LoadGate, Places, Failed
  <2>2. lease' \in [Process -> Maybe]
    BY <1>8 DEF LoadGate, TypeInv, Maybe
  <2> QED BY <1>8, <2>1, <2>2 DEF LoadGate, TypeInv
<1>9. ASSUME NEW t \in Task, LoadBuild(t) PROVE TypeInv'
  <2>1. CASE /\ engine' = [engine EXCEPT ![Of[t]] = lease[Of[t]]]
             /\ At(t, Loaded(t)) /\ UNCHANGED <<lease, faults>>
    <3>1. task' \in [Task -> Locals]
      BY <2>1, AtLocals DEF Loaded, Places
    <3> QED BY <1>9, <2>1, <3>1, NewestIs DEF LoadBuild, TypeInv
  <2>2. CASE /\ IF disk[lease[Of[t]]] = "whole" THEN Fault ELSE UNCHANGED faults
             /\ lease' = [lease EXCEPT ![Of[t]] = None]
             /\ task' = [task EXCEPT ![t].at = Failed(t),
                           ![t].owed = @ /\ (disk[lease[Of[t]]] = "whole" => task[t].at = "build")]
             /\ UNCHANGED engine
    <3>1. ASSUME NEW b \in BOOLEAN, NEW place \in Places PROVE [task[t] EXCEPT !.at = place, !.owed = b] \in Locals
      BY ZenonT(40) DEF TypeInv, Locals
    <3>2. task' \in [Task -> Locals]
      BY <2>2, <3>1 DEF TypeInv, Failed, Places
    <3>3. faults' = faults \/ faults' = faults + 1
      BY <2>2 DEF Fault
    <3>4. faults' \in Nat
      BY <3>3 DEF TypeInv
    <3>5. lease' \in [Process -> Maybe]
      BY <2>2 DEF TypeInv, Maybe
    <3> QED BY <1>9, <2>2, <3>2, <3>4, <3>5 DEF LoadBuild, TypeInv
  <2> QED BY <1>9, <2>1, <2>2 DEF LoadBuild
<1>10. ASSUME NEW t \in Task, BeginSwitch(t) PROVE TypeInv'
  <2>1. ASSUME NEW b \in BOOLEAN, NEW place \in Places, NEW w \in Maybe, NEW q \in Maybe
        PROVE  [task[t] EXCEPT !.was = w, !.owed = b, !.prior = q, !.at = place] \in Locals
    <3>1. [task[t] EXCEPT !.was = w] \in Locals
      BY FieldLocals DEF TypeInv
    <3>2. [[task[t] EXCEPT !.was = w] EXCEPT !.owed = b] \in Locals
      BY <3>1, OwedLocals
    <3>3. [[[task[t] EXCEPT !.was = w] EXCEPT !.owed = b] EXCEPT !.prior = q] \in Locals
      BY <3>2, FieldLocals
    <3>4. [[[[task[t] EXCEPT !.was = w] EXCEPT !.owed = b] EXCEPT !.prior = q] EXCEPT !.at = place] \in Locals
      BY <3>3, FieldLocals
    <3> QED BY <3>4
  <2>2. engine[Of[t]] \in Maybe /\ Usable(Of[t]) \in Maybe /\ Recorded(engine[Of[t]]) \in BOOLEAN
    BY UsableIs, NewestIs DEF TypeInv, Recorded
  <2>3. task' \in [Task -> Locals]
    <3> DEFINE p == Of[t]
               c == task[t].cand
               b == Recorded(engine[p])
               q == IF engine[p] # None THEN engine[p] ELSE Usable(p)
               place == IF (c = installed.active /\ c = engine[p]) \/ ~Known(c) THEN "leave" ELSE "drop"
               l == [task[t] EXCEPT !.was = engine[p], !.owed = b, !.prior = q, !.at = place]
    <3>1. b \in BOOLEAN /\ q \in Maybe /\ place \in Places /\ engine[p] \in Maybe
      BY <2>2 DEF Places
    <3>2. task' = [task EXCEPT ![t] = l]
      BY <1>10 DEF BeginSwitch
    <3>3. l \in Locals
      <4> HIDE DEF b, q, place
      <4> QED BY <2>1, <3>1
    <3> HIDE DEF l
    <3> QED BY <3>2, <3>3 DEF TypeInv
  <2> QED BY <1>10, <2>3 DEF BeginSwitch, TypeInv
<1>11. ASSUME NEW t \in Task, Drop(t) PROVE TypeInv'
  <2>1. task' \in [Task -> Locals]
    BY <1>11, AtLocals DEF Drop, Places
  <2> QED BY <1>11, <2>1 DEF Drop, TypeInv, Maybe
<1>12. ASSUME NEW t \in Task, Activate(t) PROVE TypeInv'
  <2>1. task' \in [Task -> Locals]
    BY <1>12, AtLocals DEF Activate, Places
  <2>2. task[t].cand \in Maybe /\ task[t].prior \in Maybe
    BY DEF TypeInv, Locals
  <2>3. installed' \in Records /\ overtaken' \in Maybe
    BY <1>12, <2>2 DEF Activate, TypeInv, Records, Maybe
  <2> QED BY <1>12, <2>1, <2>3 DEF Activate, TypeInv, Records, Fault
<1>13. ASSUME NEW t \in Task, Undo(t) PROVE TypeInv'
  <2>1. ASSUME NEW b \in BOOLEAN PROVE [task[t] EXCEPT !.at = "leave", !.owed = b] \in Locals
    <3>1. [task[t] EXCEPT !.at = "leave"] \in Locals
      BY FieldLocals DEF TypeInv, Places
    <3>2. [[task[t] EXCEPT !.at = "leave"] EXCEPT !.owed = b] \in Locals
      BY <3>1, OwedLocals
    <3> QED BY <3>2
  <2>2. CASE task' = [task EXCEPT ![t].at = "leave", ![t].owed = engine[Of[t]] = task[t].was] /\ UNCHANGED <<engine, lease>>
    <3>1. task' \in [Task -> Locals]
      BY <2>1, <2>2 DEF TypeInv
    <3> QED BY <1>13, <2>2, <3>1 DEF Undo, TypeInv
  <2>3. CASE /\ engine' = [engine EXCEPT ![Of[t]] = None] /\ lease' = [lease EXCEPT ![Of[t]] = None]
             /\ At(t, IF task[t].was # None /\ Known(task[t].was) THEN "regate" ELSE "leave")
    <3>1. task' \in [Task -> Locals]
      BY <2>3, AtLocals DEF Places
    <3> QED BY <1>13, <2>3, <3>1 DEF Undo, TypeInv, Maybe
  <2> QED BY <1>13, <2>2, <2>3 DEF Undo
<1>14. ASSUME NEW t \in Task, Leave(t) PROVE TypeInv'
  BY <1>14, EndTypes DEF Leave, TypeInv
<1>15. ASSUME NEW t \in Task, BeginClean(t) PROVE TypeInv'
  <2>1. ASSUME NEW k \in SUBSET Version, NEW l \in SUBSET Version
        PROVE  [task[t] EXCEPT !.at = "sweep", !.known = k, !.left = l] \in Locals
    <3>1. [task[t] EXCEPT !.at = "sweep"] \in Locals
      BY FieldLocals DEF TypeInv, Places
    <3>2. [[task[t] EXCEPT !.at = "sweep"] EXCEPT !.known = k] \in Locals
      BY <3>1, FieldLocals
    <3>3. [[[task[t] EXCEPT !.at = "sweep"] EXCEPT !.known = k] EXCEPT !.left = l] \in Locals
      BY <3>2, FieldLocals
    <3> QED BY <3>3
  <2>2. installed.versions \in SUBSET Version
    BY DEF TypeInv
  <2>3. task' \in [Task -> Locals]
    BY <1>15, <2>1, <2>2 DEF BeginClean, TypeInv
  <2> QED BY <1>15, <2>3 DEF BeginClean, TypeInv
<1>16. ASSUME NEW t \in Task, Sweep(t) PROVE TypeInv'
  <2>1. PICK v \in task[t].left :
          LET gone == ~InUse(v) /\ disk[v] # "absent" IN
          /\ disk' = IF gone THEN [disk EXCEPT ![v] = "absent"] ELSE disk
          /\ task' = [u \in Task |->
                IF u = t THEN [task[t] EXCEPT !.left = @ \ {v}, !.known = IF gone THEN @ \ {v} ELSE @]
                ELSE [task[u] EXCEPT !.owed = @ /\ (gone => task[u].was # v)]]
    BY <1>16 DEF Sweep
  <2>2. ASSUME NEW g \in BOOLEAN PROVE [task[t] EXCEPT !.left = @ \ {v}, !.known = IF g THEN @ \ {v} ELSE @] \in Locals
    <3>1. ASSUME NEW l \in SUBSET Version, NEW k \in SUBSET Version PROVE [task[t] EXCEPT !.left = l, !.known = k] \in Locals
      <4>1. [task[t] EXCEPT !.left = l] \in Locals
        BY FieldLocals DEF TypeInv
      <4>2. [[task[t] EXCEPT !.left = l] EXCEPT !.known = k] \in Locals
        BY <4>1, FieldLocals
      <4> QED BY <4>2
    <3>2. task[t].left \in SUBSET Version /\ task[t].known \in SUBSET Version
      BY DEF TypeInv, Locals
    <3> QED BY <3>1, <3>2
  <2>3. ASSUME NEW u \in Task, NEW g \in BOOLEAN PROVE [task[u] EXCEPT !.owed = @ /\ g] \in Locals
    <3>1. (task[u].owed /\ g) \in BOOLEAN /\ task[u] \in Locals
      BY DEF TypeInv
    <3> QED BY <3>1, OwedLocals
  <2>4. task' \in [Task -> Locals]
    BY <2>1, <2>2, <2>3
  <2> QED BY <1>16, <2>1, <2>4 DEF Sweep, TypeInv
<1>17. ASSUME NEW t \in Task, EndClean(t) PROVE TypeInv'
  <2>1. task[t].known \in SUBSET Version
    BY DEF TypeInv, Locals
  <2>2. installed' \in Records
    BY <1>17, <2>1 DEF EndClean, TypeInv, Records
  <2> QED BY <1>17, <2>2, EndTypes DEF EndClean, TypeInv, Records
<1>18. ASSUME NEW p \in Process, Die(p) PROVE TypeInv'
  BY <1>18, RestingLocals DEF Die, Fault, TypeInv, Maybe
<1>19. CASE Damage
  BY <1>19 DEF Damage, TypeInv
<1>20. CASE UNCHANGED modelVars
  BY <1>20 DEF modelVars, TypeInv
<1> QED
  BY <1>1, <1>2, <1>3, <1>4, <1>5, <1>6, <1>7, <1>8, <1>9, <1>10, <1>11, <1>12, <1>13, <1>14, <1>15, <1>16, <1>17, <1>18, <1>19, <1>20, <1>21 DEF ModelsNext, Step

-----------------------------------------------------------------------------
(* What the actions change, field by field.                                   *)

\* The locals of the other tasks stay as they are, and t goes to a place.
Alone(t) == \A u \in Task \ {t} : task'[u] = task[u]
Moves(t, place) ==
  /\ Alone(t) /\ task'[t].at = place
  /\ task'[t].op = task[t].op /\ task'[t].cand = task[t].cand /\ task'[t].was = task[t].was
  /\ task'[t].owed = task[t].owed
\* It rests, and what it held is free; the rest is held as before.
Rests(t) ==
  /\ Alone(t) /\ task'[t] = Resting
  /\ \A p \in Process : busy'[p] = busy[p] \/ busy[p] = t
  /\ \A v \in Version : download'[v] = download[v] \/ download[v] = t

LEMMA AtMoves == ASSUME TypeInv, NEW t \in Task, NEW place, At(t, place) PROVE Moves(t, place)
<1>1. task[t] \in Locals /\ DOMAIN task = Task
  BY DEF TypeInv
<1>2. /\ [task[t] EXCEPT !.at = place].at = place
      /\ [task[t] EXCEPT !.at = place].op = task[t].op /\ [task[t] EXCEPT !.at = place].cand = task[t].cand
      /\ [task[t] EXCEPT !.at = place].was = task[t].was /\ [task[t] EXCEPT !.at = place].owed = task[t].owed
  BY <1>1 DEF Locals
<1>3. task' = [task EXCEPT ![t] = [task[t] EXCEPT !.at = place]]
  BY DEF At
<1>4. task'[t] = [task[t] EXCEPT !.at = place]
  BY <1>1, <1>3
<1>5. Alone(t)
  BY <1>1, <1>3 DEF Alone
<1> QED BY <1>2, <1>4, <1>5 DEF Moves

LEMMA EndRests == ASSUME TypeInv, NEW t \in Task, End(t) PROVE Rests(t)
BY DEF TypeInv, End, Rests, Alone

LEMMA RestingIs ==
  /\ Resting.at = "idle" /\ Resting.was = None /\ Resting.op = None /\ Resting.cand = None
BY DEF Resting

LEMMA PreparedMoves ==
  ASSUME TypeInv, NEW t \in Task, NEW v, Prepared(t, v)
  PROVE  /\ Alone(t) /\ task'[t].at = (IF task[t].op = "update" THEN "switch" ELSE "lock")
         /\ task'[t].op = task[t].op /\ task'[t].was = task[t].was
         /\ \A w \in Version \ {Newest[Of[t]]} : download'[w] = download[w]
<1> DEFINE place == IF task[t].op = "update" THEN "switch" ELSE "lock"
           l == [task[t] EXCEPT !.cand = v, !.at = place]
<1>1. task[t] \in Locals /\ DOMAIN task = Task
  BY DEF TypeInv
<1>2. l.at = place /\ l.op = task[t].op /\ l.was = task[t].was
  <2> HIDE DEF place
  <2> QED BY <1>1 DEF Locals
<1>3. task' = [task EXCEPT ![t] = l]
  BY DEF Prepared
<1> HIDE DEF l
<1>4. task'[t] = l /\ Alone(t)
  BY <1>1, <1>3 DEF Alone
<1> QED BY <1>2, <1>4 DEF Prepared, TypeInv

\* A check leads to an installation, to a choice or on to the model it found.
LEMMA CheckIs ==
  ASSUME TypeInv, NEW t \in Task, Check(t)
  PROVE  /\ Alone(t) /\ task'[t].op = task[t].op /\ task'[t].was = task[t].was
         /\ UNCHANGED <<installed, overtaken, disk, engine, lease, busy>>
         /\ \/ At(t, "install") /\ task'[t].at = "install" /\ UNCHANGED download /\ ~Known(Newest[Of[t]])
            \/ task'[t].at = "choose" /\ UNCHANGED download
            \/ /\ task'[t].at \in {"switch", "lock"}
               /\ \A w \in Version \ {Newest[Of[t]]} : download'[w] = download[w]
<1> DEFINE found == IF task[t].op = "prepare" THEN Usable(Of[t])
                    ELSE IF Known(Newest[Of[t]]) THEN Newest[Of[t]] ELSE None
<1>1. found = None => ~Known(Newest[Of[t]])
  BY UsableIs, NewestIs DEF Maybe
<1>2. /\ UNCHANGED <<installed, overtaken, disk, engine, lease, busy>>
      /\ \/ found = None /\ At(t, "install") /\ UNCHANGED download
         \/ UNCHANGED download /\ task' = [task EXCEPT ![t].cand = found, ![t].at = "choose"]
         \/ Prepared(t, found)
  BY DEF Check
<1> HIDE DEF found
<1>3. CASE found = None /\ At(t, "install") /\ UNCHANGED download
  BY <1>1, <1>2, <1>3, AtMoves DEF Moves
<1>4. CASE UNCHANGED download /\ task' = [task EXCEPT ![t].cand = found, ![t].at = "choose"]
  <2>1. task[t] \in Locals /\ DOMAIN task = Task
    BY DEF TypeInv
  <2>2. PICK l : l = [task[t] EXCEPT !.cand = found, !.at = "choose"]
    OBVIOUS
  <2>3. l.at = "choose" /\ l.op = task[t].op /\ l.was = task[t].was
    BY <2>1, <2>2 DEF Locals
  <2>4. task'[t] = l /\ Alone(t)
    BY <1>4, <2>1, <2>2 DEF Alone
  <2> QED BY <1>2, <1>4, <2>3, <2>4
<1>5. CASE Prepared(t, found)
  BY <1>2, <1>5, PreparedMoves
<1> QED BY <1>2, <1>3, <1>4, <1>5

LEMMA BeginMoves ==
  ASSUME TypeInv, NEW t \in Task, Begin(t)
  PROVE  /\ Alone(t) /\ task[t].at = "idle" /\ task'[t].was = None
         /\ \/ task'[t].at \in {"download", "lock", "json"}
            \/ task'[t].at = "switch" /\ task'[t].op = "rollback"
<1>0. DOMAIN task = Task
  BY DEF TypeInv
<1> DEFINE place(o) == CASE o = "prepare" -> "download" [] o = "use" -> "lock" [] OTHER -> "json"
<1>1. ASSUME NEW o, NEW pl, NEW f
      PROVE  /\ [Resting EXCEPT !.op = o, !.foreign = f, !.at = pl].was = None
             /\ [Resting EXCEPT !.op = o, !.foreign = f, !.at = pl].at = pl
             /\ [Resting EXCEPT !.op = o, !.at = pl, !.foreign = f].was = None
             /\ [Resting EXCEPT !.op = o, !.at = pl, !.foreign = f].at = pl
  BY DEF Resting
<1>2. CASE \E o \in {"prepare", "use", "clean"} :
             task' = [task EXCEPT ![t] = [Resting EXCEPT !.op = o, !.foreign = o = "prepare" /\ Foreign(Of[t]), !.at = place(o)]]
  <2>1. PICK o \in {"prepare", "use", "clean"} :
             task' = [task EXCEPT ![t] = [Resting EXCEPT !.op = o, !.foreign = o = "prepare" /\ Foreign(Of[t]), !.at = place(o)]]
    BY <1>2
  <2>2. place(o) \in {"download", "lock", "json"}
    OBVIOUS
  <2>4. PICK f : f = (o = "prepare" /\ Foreign(Of[t]))
    OBVIOUS
  <2>3. Alone(t) /\ task'[t] = [Resting EXCEPT !.op = o, !.foreign = f, !.at = place(o)]
    <3> HIDE DEF place
    <3> QED BY <1>0, <2>1, <2>4 DEF Alone
  <2> HIDE DEF place
  <2> QED BY <1>1, <2>2, <2>3 DEF Begin
<1>3. CASE task' = [task EXCEPT ![t] = [Resting EXCEPT !.op = "update", !.at = "download", !.foreign = Foreign(Of[t])]]
  <2>0. PICK f : f = Foreign(Of[t])
    OBVIOUS
  <2>1. Alone(t) /\ task'[t] = [Resting EXCEPT !.op = "update", !.at = "download", !.foreign = f]
    BY <1>0, <1>3, <2>0 DEF Alone
  <2> QED BY <1>1, <2>1 DEF Begin
<1>4. CASE task' = [task EXCEPT ![t] = [Resting EXCEPT !.op = "rollback", !.at = "switch", !.cand = installed.previous]]
  <2>1. Alone(t) /\ task'[t] = [Resting EXCEPT !.op = "rollback", !.at = "switch", !.cand = installed.previous]
    BY <1>0, <1>4 DEF Alone
  <2> QED BY <2>1 DEF Begin, Resting
<1> QED BY <1>2, <1>3, <1>4 DEF Begin

LEMMA LockEngineMoves ==
  ASSUME TypeInv, NEW t \in Task, LockEngine(t)
  PROVE  /\ Alone(t) /\ task'[t].op = task[t].op /\ task'[t].was = task[t].was
         /\ task'[t].owed = task[t].owed
         /\ \/ task'[t].at = "leave"
            \/ task'[t].at = "gate" /\ engine[Of[t]] = None
<1> DEFINE v == IF task[t].cand # None THEN task[t].cand ELSE Usable(Of[t])
           place == IF engine[Of[t]] # None \/ v = None THEN "leave" ELSE "gate"
<1>1. task[t] \in Locals /\ DOMAIN task = Task
  BY DEF TypeInv
<1>2. ASSUME NEW c, NEW pl
      PROVE  LET l == [task[t] EXCEPT !.cand = c, !.at = pl] IN
               /\ l.op = task[t].op /\ l.was = task[t].was /\ l.at = pl
               /\ l.owed = task[t].owed
  BY <1>1 DEF Locals
<1>3. task' = [task EXCEPT ![t] = [task[t] EXCEPT !.cand = v, !.at = place]]
  BY DEF LockEngine
<1>4. place = "leave" \/ (place = "gate" /\ engine[Of[t]] = None)
  OBVIOUS
<1> HIDE DEF v, place
<1>5. Alone(t) /\ task'[t] = [task[t] EXCEPT !.cand = v, !.at = place]
  BY <1>1, <1>3 DEF Alone
<1> QED BY <1>2, <1>4, <1>5

LEMMA BuildFailsMoves ==
  ASSUME TypeInv, NEW t \in Task, NEW place, NEW b,
         task' = [task EXCEPT ![t].at = place, ![t].owed = @ /\ b]
  PROVE  /\ Alone(t) /\ task'[t].op = task[t].op /\ task'[t].was = task[t].was /\ task'[t].at = place
         /\ task'[t].cand = task[t].cand /\ (task'[t].owed => task[t].owed /\ b)
<1> DEFINE c == task[t].owed /\ b
           l == [task[t] EXCEPT !.at = place, !.owed = c]
<1>1. task[t] \in Locals /\ DOMAIN task = Task
  BY DEF TypeInv
<1>2. l.op = task[t].op /\ l.was = task[t].was /\ l.at = place /\ l.cand = task[t].cand /\ l.owed = c
  <2> HIDE DEF c
  <2> QED BY <1>1 DEF Locals
<1>3. task' = [task EXCEPT ![t] = l]
  OBVIOUS
<1> HIDE DEF l, c
<1>4. Alone(t) /\ task'[t] = l
  BY <1>1, <1>3 DEF Alone
<1>5. task'[t].owed = c
  BY <1>2, <1>4
<1> QED BY <1>2, <1>4, <1>5 DEF c

LEMMA BeginSwitchMoves ==
  ASSUME TypeInv, NEW t \in Task, BeginSwitch(t)
  PROVE  /\ Alone(t) /\ task'[t].op = task[t].op /\ task'[t].was = engine[Of[t]]
         /\ task'[t].owed = Recorded(engine[Of[t]])
         /\ task'[t].at \in {"leave", "drop"}
<1> DEFINE q == IF engine[Of[t]] # None THEN engine[Of[t]] ELSE Usable(Of[t])
           place == IF (task[t].cand = installed.active /\ task[t].cand = engine[Of[t]]) \/ ~Known(task[t].cand)
                    THEN "leave" ELSE "drop"
<1>1. task[t] \in Locals /\ DOMAIN task = Task
  BY DEF TypeInv
<1>2. ASSUME NEW w, NEW o, NEW r, NEW pl
      PROVE  LET l == [task[t] EXCEPT !.was = w, !.owed = o, !.prior = r, !.at = pl] IN
               /\ l.op = task[t].op /\ l.was = w /\ l.owed = o /\ l.at = pl
  BY <1>1 DEF Locals
<1>3. task' = [task EXCEPT ![t] = [task[t] EXCEPT !.was = engine[Of[t]], !.owed = Recorded(engine[Of[t]]),
                                                 !.prior = q, !.at = place]]
  BY DEF BeginSwitch
<1>4. place \in {"leave", "drop"}
  OBVIOUS
<1> HIDE DEF q, place
<1>5. Alone(t) /\ task'[t] = [task[t] EXCEPT !.was = engine[Of[t]], !.owed = Recorded(engine[Of[t]]),
                                             !.prior = q, !.at = place]
  BY <1>1, <1>3 DEF Alone
<1> QED BY <1>2, <1>4, <1>5

LEMMA UndoEndsMoves ==
  ASSUME TypeInv, NEW t \in Task, NEW b,
         task' = [task EXCEPT ![t].at = "leave", ![t].owed = b]
  PROVE  /\ Alone(t) /\ task'[t].op = task[t].op /\ task'[t].was = task[t].was /\ task'[t].at = "leave"
         /\ task'[t].cand = task[t].cand /\ task'[t].owed = b
<1>1. task[t] \in Locals /\ DOMAIN task = Task
  BY DEF TypeInv
<1>2. LET l == [task[t] EXCEPT !.at = "leave", !.owed = b] IN
        /\ l.op = task[t].op /\ l.was = task[t].was /\ l.at = "leave"
        /\ l.cand = task[t].cand /\ l.owed = b
  BY <1>1 DEF Locals
<1>4. Alone(t) /\ task'[t] = [task[t] EXCEPT !.at = "leave", !.owed = b]
  BY <1>1 DEF Alone
<1> QED BY <1>2, <1>4

LEMMA BeginCleanMoves ==
  ASSUME TypeInv, NEW t \in Task, BeginClean(t)
  PROVE  /\ Alone(t) /\ task'[t].at = "sweep" /\ task'[t].op = task[t].op /\ task'[t].was = task[t].was
         /\ task'[t].owed = task[t].owed /\ task'[t].known = installed.versions
         /\ task'[t].left \subseteq installed.versions \ {installed.active}
<1> DEFINE left == IF update # Nobody THEN {} ELSE installed.versions \ {installed.active, installed.previous}
<1>1. task[t] \in Locals /\ DOMAIN task = Task
  BY DEF TypeInv
<1>2. ASSUME NEW k, NEW f
      PROVE  LET l == [task[t] EXCEPT !.at = "sweep", !.known = k, !.left = f] IN
               /\ l.op = task[t].op /\ l.was = task[t].was /\ l.at = "sweep"
               /\ l.owed = task[t].owed /\ l.known = k /\ l.left = f
  BY <1>1 DEF Locals
<1>3. task' = [task EXCEPT ![t] = [task[t] EXCEPT !.at = "sweep", !.known = installed.versions, !.left = left]]
  BY DEF BeginClean
<1>4. left \subseteq installed.versions \ {installed.active}
  OBVIOUS
<1> HIDE DEF left
<1>5. Alone(t) /\ task'[t] = [task[t] EXCEPT !.at = "sweep", !.known = installed.versions, !.left = left]
  BY <1>1, <1>3 DEF Alone
<1> QED BY <1>2, <1>4, <1>5

\* A version leaves the list of a clean; if its files were there they are gone,
\* and no switch can have it back.
Sweeps(t, v) ==
  LET gone == ~InUse(v) /\ disk[v] # "absent" IN
  /\ v \in task[t].left
  /\ disk' = IF gone THEN [disk EXCEPT ![v] = "absent"] ELSE disk
  /\ task'[t].left = task[t].left \ {v}
  /\ task'[t].known = IF gone THEN task[t].known \ {v} ELSE task[t].known
  /\ \A u \in Task :
       /\ task'[u].at = task[u].at /\ task'[u].op = task[u].op
       /\ task'[u].cand = task[u].cand /\ task'[u].was = task[u].was
       /\ task'[u].owed => task[u].owed
  /\ \A u \in Task \ {t} :
       /\ task'[u].owed => (gone => task[u].was # v)
       /\ task'[u].left = task[u].left /\ task'[u].known = task[u].known

LEMMA SweepMoves == ASSUME TypeInv, NEW t \in Task, Sweep(t) PROVE \E v \in Version : Sweeps(t, v)
<1>1. PICK v \in task[t].left :
        LET gone == ~InUse(v) /\ disk[v] # "absent" IN
        /\ disk' = IF gone THEN [disk EXCEPT ![v] = "absent"] ELSE disk
        /\ task' = [u \in Task |->
              IF u = t THEN [task[t] EXCEPT !.left = @ \ {v}, !.known = IF gone THEN @ \ {v} ELSE @]
              ELSE [task[u] EXCEPT !.owed = @ /\ (gone => task[u].was # v)]]
  BY DEF Sweep
<1> DEFINE gone == ~InUse(v) /\ disk[v] # "absent"
           k == IF gone THEN task[t].known \ {v} ELSE task[t].known
           f == task[t].left \ {v}
           o(u) == task[u].owed /\ (gone => task[u].was # v)
<1>2. v \in Version /\ \A u \in Task : task[u] \in Locals
  BY DEF TypeInv, Locals
<1>3. ASSUME NEW kk, NEW ff
      PROVE  LET l == [task[t] EXCEPT !.left = ff, !.known = kk] IN
               /\ l.at = task[t].at /\ l.op = task[t].op /\ l.cand = task[t].cand
               /\ l.was = task[t].was /\ l.owed = task[t].owed /\ l.left = ff
               /\ l.known = kk
  BY <1>2 DEF Locals
<1>4. ASSUME NEW u \in Task, NEW b
      PROVE  LET l == [task[u] EXCEPT !.owed = b] IN
               /\ l.at = task[u].at /\ l.op = task[u].op /\ l.cand = task[u].cand
               /\ l.was = task[u].was /\ l.owed = b /\ l.left = task[u].left
               /\ l.known = task[u].known
  BY <1>2 DEF Locals
<1>5. task'[t] = [task[t] EXCEPT !.left = f, !.known = k]
  BY <1>1
<1>6. \A u \in Task \ {t} : task'[u] = [task[u] EXCEPT !.owed = o(u)]
  BY <1>1
<1> HIDE DEF k, f, o
<1>7. /\ task'[t].at = task[t].at /\ task'[t].op = task[t].op /\ task'[t].cand = task[t].cand
      /\ task'[t].was = task[t].was /\ task'[t].owed = task[t].owed /\ task'[t].left = f /\ task'[t].known = k
  BY <1>3, <1>5
<1>8. ASSUME NEW u \in Task \ {t}
      PROVE  /\ task'[u].at = task[u].at /\ task'[u].op = task[u].op /\ task'[u].cand = task[u].cand
             /\ task'[u].was = task[u].was /\ task'[u].owed = o(u)
             /\ task'[u].left = task[u].left /\ task'[u].known = task[u].known
  <2>1. task'[u] = [task[u] EXCEPT !.owed = o(u)]
    BY <1>6
  <2> QED BY <1>4, <2>1
<1>9. disk' = IF gone THEN [disk EXCEPT ![v] = "absent"] ELSE disk
  BY <1>1
<1> HIDE DEF gone
<1>10. Sweeps(t, v)
  BY <1>7, <1>8, <1>9 DEF Sweeps, gone, k, f, o
<1> QED BY <1>2, <1>10

-----------------------------------------------------------------------------
(* Who holds engine.lock, and what is loaded meanwhile.                       *)

\* A task whose locals stay and whose engine nobody touches while it is engaged.
LEMMA EngineFrame ==
  ASSUME NEW u \in Task, EngineOf(u),
         task'[u].at = task[u].at, task'[u].op = task[u].op, task'[u].cand = task[u].cand, task'[u].was = task[u].was,
         task[u].at \in Engaged =>
           busy'[Of[u]] = busy[Of[u]] /\ engine'[Of[u]] = engine[Of[u]] /\ lease'[Of[u]] = lease[Of[u]]
  PROVE  EngineOf(u)'
BY DEF EngineOf, Engaged, Unloaded

LEMMA OneEngaged ==
  ASSUME EngineInv, NEW t \in Task, NEW u \in Task, task[t].at \in Engaged, task[u].at \in Engaged, Of[t] = Of[u]
  PROVE  t = u
BY DEF EngineInv, EngineOf

\* A step of one task that leaves the engines alone.
LEMMA EngineAside ==
  ASSUME EngineInv, NEW t \in Task, Alone(t), UNCHANGED <<engine, lease, disk>>,
         \A p \in Process : busy'[p] = busy[p] \/ busy[p] \in {t, Nobody}, EngineOf(t)'
  PROVE  EngineInv'
<1>1. ASSUME NEW u \in Task \ {t} PROVE EngineOf(u)'
  <2>1. task'[u] = task[u] /\ EngineOf(u)
    BY DEF Alone, EngineInv
  <2>2. task[u].at \in Engaged => busy[Of[u]] = u /\ Of[u] \in Process
    BY NewestIs DEF EngineInv, EngineOf
  <2>3. u # Nobody
    BY ModelsAssumption
  <2> QED BY <2>1, <2>2, <2>3, EngineFrame
<1>2. LoadedStaysOnDisk'
  BY DEF EngineInv, LoadedStaysOnDisk
<1> QED BY <1>1, <1>2 DEF EngineInv

\* A step of the task that holds a process's engine.lock.
LEMMA EngineWork ==
  ASSUME EngineInv, NEW t \in Task, Alone(t), UNCHANGED <<busy, disk>>, task[t].at \in Engaged,
         \A p \in Process \ {Of[t]} : engine'[p] = engine[p] /\ lease'[p] = lease[p],
         EngineOf(t)',
         engine'[Of[t]] # None => lease'[Of[t]] = engine'[Of[t]] /\ disk[engine'[Of[t]]] = "whole"
  PROVE  EngineInv'
<1>1. ASSUME NEW u \in Task \ {t} PROVE EngineOf(u)'
  <2>1. task'[u] = task[u] /\ EngineOf(u)
    BY DEF Alone, EngineInv
  <2>2. task[u].at \in Engaged => Of[u] \in Process \ {Of[t]}
    BY NewestIs, OneEngaged
  <2> QED BY <2>1, <2>2, EngineFrame
<1>2. LoadedStaysOnDisk'
  BY DEF EngineInv, LoadedStaysOnDisk
<1> QED BY <1>1, <1>2 DEF EngineInv

LEMMA EngineStep == TypeInv /\ EngineInv /\ [ModelsNext]_modelVars => EngineInv'
<1> SUFFICES ASSUME TypeInv, EngineInv, [ModelsNext]_modelVars PROVE EngineInv'
  OBVIOUS
<1> USE DEF Engaged, Unloaded, Switching, Switches
<1>0. \A t \in Task : EngineOf(t) /\ Of[t] \in Process
  BY NewestIs DEF EngineInv
<1>1. ASSUME NEW t \in Task, Begin(t) PROVE EngineInv'
  <2>1. EngineOf(t)' /\ Alone(t)
    BY <1>1, BeginMoves DEF EngineOf
  <2> QED BY <1>1, <2>1, EngineAside DEF Begin
<1>2. ASSUME NEW t \in Task, TakeDownload(t) PROVE EngineInv'
  <2>1. EngineOf(t)' /\ Alone(t)
    BY <1>0, <1>2, AtMoves DEF EngineOf, Moves, TakeDownload
  <2> QED BY <1>2, <2>1, EngineAside DEF TakeDownload
<1>3. ASSUME NEW t \in Task, Check(t) PROVE EngineInv'
  <2>1. /\ Alone(t) /\ task'[t].op = task[t].op /\ task'[t].was = task[t].was
        /\ task'[t].at \in {"install", "choose", "switch", "lock"} /\ UNCHANGED <<engine, lease, disk, busy>>
    BY <1>3, CheckIs
  <2>2. task[t].at = "check" /\ (task'[t].at = "switch" => task[t].op = "update")
    <3>1. CASE At(t, "install")
      BY <1>3, <3>1, AtMoves DEF Check, Moves
    <3>2. CASE \E v : Prepared(t, v)
      BY <1>3, <3>2, PreparedMoves DEF Check
    <3>3. CASE \E v : task' = [task EXCEPT ![t].cand = v, ![t].at = "choose"]
      BY <1>3, <3>3 DEF Check, TypeInv, Locals
    <3> QED BY <1>3, <3>1, <3>2, <3>3 DEF Check
  <2>3. EngineOf(t)'
    BY <1>0, <2>1, <2>2 DEF EngineOf
  <2> QED BY <2>1, <2>3, EngineAside
<1>21. ASSUME NEW t \in Task, Choose(t) PROVE EngineInv'
  <2>1. EngineOf(t)' /\ Alone(t)
    BY <1>0, <1>21, PreparedMoves DEF EngineOf, Choose
  <2> QED BY <1>21, <2>1, EngineAside DEF Choose
<1>4. ASSUME NEW t \in Task, Install(t) PROVE EngineInv'
  <2>1. CASE End(t) /\ UNCHANGED disk
    <3>1. Rests(t)
      BY <2>1, EndRests
    <3>2. EngineOf(t)' /\ Alone(t)
      BY <3>1, RestingIs DEF Rests, EngineOf
    <3> QED BY <1>4, <2>1, <3>1, <3>2, EngineAside DEF Install, Rests
  <2>2. CASE disk' = [disk EXCEPT ![Newest[Of[t]]] = "whole"] /\ At(t, "commit") /\ UNCHANGED <<busy, download, update>>
    <3>1. EngineOf(t)' /\ Alone(t)
      BY <1>0, <1>4, <2>2, AtMoves DEF EngineOf, Moves, Install
    <3>2. ASSUME NEW u \in Task \ {t} PROVE EngineOf(u)'
      BY <1>0, <1>4, <2>2, <3>1, EngineFrame DEF Alone, Install
    <3>3. LoadedStaysOnDisk'
      BY <1>4, <2>2 DEF LoadedStaysOnDisk, EngineInv, Install, TypeInv
    <3> QED BY <3>1, <3>2, <3>3 DEF EngineInv
  <2> QED BY <1>4, <2>1, <2>2 DEF Install
<1>5. ASSUME NEW t \in Task, Commit(t) PROVE EngineInv'
  <2>1. EngineOf(t)' /\ Alone(t)
    BY <1>0, <1>5, PreparedMoves DEF EngineOf, Commit
  <2> QED BY <1>5, <2>1, EngineAside DEF Commit
<1>6. ASSUME NEW t \in Task, PrepareFails(t) PROVE EngineInv'
  <2>1. Rests(t)
    BY <1>6, EndRests DEF PrepareFails
  <2>2. EngineOf(t)' /\ Alone(t)
    BY <2>1, RestingIs DEF Rests, EngineOf
  <2> QED BY <1>6, <2>1, <2>2, EngineAside DEF PrepareFails, Rests
<1>7. ASSUME NEW t \in Task, LockEngine(t) PROVE EngineInv'
  <2>1. busy' = [busy EXCEPT ![Of[t]] = t] /\ busy[Of[t]] = Nobody /\ UNCHANGED <<engine, lease, disk>>
    BY <1>7 DEF LockEngine
  <2>2. busy'[Of[t]] = t /\ \A p \in Process : busy'[p] = busy[p] \/ busy[p] \in {t, Nobody}
    BY <1>0, <2>1 DEF TypeInv
  <2>3. EngineOf(t)' /\ Alone(t)
    <3>1. /\ Alone(t) /\ task'[t].op = task[t].op /\ task'[t].was = task[t].was
          /\ task'[t].at = "leave" \/ (task'[t].at = "gate" /\ engine[Of[t]] = None)
      BY <1>7, LockEngineMoves
    <3>2. task[t].was # None => task[t].op \in Switches
      BY <1>0 DEF EngineOf
    <3> QED BY <2>1, <2>2, <3>1, <3>2 DEF EngineOf
  <2> QED BY <2>1, <2>2, <2>3, EngineAside
<1>8. ASSUME NEW t \in Task, LoadGate(t) PROVE EngineInv'
  <2> DEFINE v == IF task[t].at = "gate" THEN task[t].cand ELSE task[t].was
  <2>1. task[t].at \in {"gate", "regate"} /\ engine[Of[t]] = None /\ UNCHANGED <<busy, disk, engine>>
    BY <1>0, <1>8 DEF LoadGate, EngineOf
  <2>2. CASE v \in installed.versions
    <3>1. lease' = [lease EXCEPT ![Of[t]] = v] /\ Moves(t, IF task[t].at = "gate" THEN "build" ELSE "rebuild")
      BY <1>8, <2>2, AtMoves DEF LoadGate
    <3>2. v # None
      BY <2>2, ModelsAssumption DEF TypeInv
    <3>3. lease'[Of[t]] = v /\ \A p \in Process \ {Of[t]} : lease'[p] = lease[p]
      BY <1>0, <3>1 DEF TypeInv
    <3>4. EngineOf(t)' /\ Alone(t)
      BY <1>0, <2>1, <3>1, <3>2, <3>3 DEF EngineOf, Moves
    <3> QED BY <2>1, <3>3, <3>4, EngineWork
  <2>3. CASE v \notin installed.versions
    <3>1. Moves(t, Failed(t)) /\ UNCHANGED lease
      BY <1>8, <2>3, AtMoves DEF LoadGate
    <3>2. EngineOf(t)' /\ Alone(t)
      BY <1>0, <2>1, <3>1 DEF EngineOf, Moves, Failed
    <3> QED BY <2>1, <3>1, <3>2, EngineWork
  <2> QED BY <2>2, <2>3
<1>9. ASSUME NEW t \in Task, LoadBuild(t) PROVE EngineInv'
  <2>1. task[t].at \in {"build", "rebuild"} /\ engine[Of[t]] = None /\ lease[Of[t]] # None /\ UNCHANGED <<busy, disk>>
        /\ (task[t].at = "build" => lease[Of[t]] = task[t].cand)
    BY <1>0, <1>9 DEF LoadBuild, EngineOf
  <2>2. CASE /\ disk[lease[Of[t]]] = "whole" /\ engine' = [engine EXCEPT ![Of[t]] = lease[Of[t]]]
             /\ At(t, Loaded(t)) /\ UNCHANGED <<lease, faults>>
    <3>1. engine'[Of[t]] = lease[Of[t]] /\ \A p \in Process \ {Of[t]} : engine'[p] = engine[p]
      BY <1>0, <2>2 DEF TypeInv
    <3>2. EngineOf(t)' /\ Alone(t)
      BY <1>0, <2>1, <2>2, <3>1, AtMoves DEF EngineOf, Moves, Loaded
    <3> QED BY <2>1, <2>2, <3>1, <3>2, EngineWork
  <2>3. CASE /\ lease' = [lease EXCEPT ![Of[t]] = None]
             /\ task' = [task EXCEPT ![t].at = Failed(t),
                           ![t].owed = @ /\ (disk[lease[Of[t]]] = "whole" => task[t].at = "build")]
             /\ UNCHANGED engine
    <3>1. lease'[Of[t]] = None /\ \A p \in Process \ {Of[t]} : lease'[p] = lease[p]
      BY <1>0, <2>3 DEF TypeInv
    <3>2. Alone(t) /\ task'[t].at = Failed(t) /\ task'[t].op = task[t].op /\ task'[t].was = task[t].was
      BY ZenonT(40), <2>3, BuildFailsMoves
    <3>3. EngineOf(t)'
      BY <1>0, <2>1, <2>3, <3>2 DEF EngineOf, Failed
    <3> QED BY <2>1, <2>3, <3>1, <3>2, <3>3, EngineWork
  <2> QED BY <1>9, <2>2, <2>3 DEF LoadBuild
<1>10. ASSUME NEW t \in Task, BeginSwitch(t) PROVE EngineInv'
  <2>1. busy' = [busy EXCEPT ![Of[t]] = t] /\ busy[Of[t]] = Nobody /\ UNCHANGED <<engine, lease, disk>>
        /\ task[t].at = "switch"
    BY <1>10 DEF BeginSwitch
  <2>2. busy'[Of[t]] = t /\ \A p \in Process : busy'[p] = busy[p] \/ busy[p] \in {t, Nobody}
    BY <1>0, <2>1 DEF TypeInv
  <2>3. EngineOf(t)' /\ Alone(t)
    BY <1>0, <1>10, <2>1, <2>2, BeginSwitchMoves DEF EngineOf
  <2> QED BY <2>1, <2>2, <2>3, EngineAside
<1>11. ASSUME NEW t \in Task, Drop(t) PROVE EngineInv'
  <2>1. task[t].at = "drop" /\ UNCHANGED <<busy, disk>> /\ Moves(t, "gate")
        /\ engine' = [engine EXCEPT ![Of[t]] = None] /\ lease' = [lease EXCEPT ![Of[t]] = None]
    BY <1>11, AtMoves DEF Drop
  <2>2. engine'[Of[t]] = None /\ \A p \in Process \ {Of[t]} : engine'[p] = engine[p] /\ lease'[p] = lease[p]
    BY <1>0, <2>1 DEF TypeInv
  <2>3. EngineOf(t)' /\ Alone(t)
    BY <1>0, <2>1, <2>2 DEF EngineOf, Moves
  <2> QED BY <2>1, <2>2, <2>3, EngineWork
<1>12. ASSUME NEW t \in Task, Activate(t) PROVE EngineInv'
  <2>1. task[t].at = "activate" /\ UNCHANGED <<engine, lease, busy, disk>> /\ (Moves(t, "leave") \/ Moves(t, "undo"))
    BY <1>12, AtMoves DEF Activate
  <2>2. EngineOf(t)' /\ Alone(t)
    BY <1>0, <2>1 DEF EngineOf, Moves
  <2> QED BY <2>1, <2>2, EngineAside
<1>13. ASSUME NEW t \in Task, Undo(t) PROVE EngineInv'
  <2>1. task[t].at = "undo" /\ UNCHANGED <<busy, disk>>
    BY <1>13 DEF Undo
  <2>2. CASE task' = [task EXCEPT ![t].at = "leave", ![t].owed = engine[Of[t]] = task[t].was] /\ UNCHANGED <<engine, lease>>
    <3>1. Alone(t) /\ task'[t].at = "leave" /\ task'[t].op = task[t].op /\ task'[t].was = task[t].was
      BY <2>2, UndoEndsMoves
    <3>2. EngineOf(t)'
      BY <1>0, <2>1, <3>1 DEF EngineOf
    <3> QED BY <2>1, <2>2, <3>1, <3>2, EngineAside
  <2>3. CASE /\ engine' = [engine EXCEPT ![Of[t]] = None] /\ lease' = [lease EXCEPT ![Of[t]] = None]
             /\ At(t, IF task[t].was # None /\ Known(task[t].was) THEN "regate" ELSE "leave")
    <3>1. engine'[Of[t]] = None /\ \A p \in Process \ {Of[t]} : engine'[p] = engine[p] /\ lease'[p] = lease[p]
      BY <1>0, <2>3 DEF TypeInv
    <3>2. Moves(t, "regate") \/ Moves(t, "leave")
      BY <2>3, AtMoves
    <3>3. EngineOf(t)' /\ Alone(t)
      BY <1>0, <2>1, <3>1, <3>2 DEF EngineOf, Moves
    <3> QED BY <2>1, <3>1, <3>3, EngineWork
  <2> QED BY <1>13, <2>2, <2>3 DEF Undo
<1>14. ASSUME NEW t \in Task, Leave(t) PROVE EngineInv'
  <2>1. Rests(t)
    BY <1>14, EndRests DEF Leave
  <2>2. EngineOf(t)' /\ Alone(t)
    BY <2>1, RestingIs DEF Rests, EngineOf
  <2> QED BY <1>14, <2>1, <2>2, EngineAside DEF Leave, Rests
<1>15. ASSUME NEW t \in Task, BeginClean(t) PROVE EngineInv'
  <2>1. EngineOf(t)' /\ Alone(t)
    BY <1>0, <1>15, BeginCleanMoves DEF EngineOf, BeginClean
  <2> QED BY <1>15, <2>1, EngineAside DEF BeginClean
<1>16. ASSUME NEW t \in Task, Sweep(t) PROVE EngineInv'
  <2>1. PICK v \in Version : Sweeps(t, v)
    BY <1>16, SweepMoves
  <2>2. UNCHANGED <<engine, lease, busy>>
    BY <1>16 DEF Sweep
  <2>3. ASSUME NEW u \in Task PROVE EngineOf(u)'
    BY <1>0, <2>1, <2>2, EngineFrame DEF Sweeps
  <2>4. ASSUME NEW p \in Process, engine[p] # None PROVE disk'[engine[p]] = "whole"
    <3>1. lease[p] = engine[p] /\ disk[engine[p]] = "whole"
      BY <2>4 DEF EngineInv, LoadedStaysOnDisk
    <3>2. engine[p] = v => InUse(v)
      BY <3>1 DEF InUse
    <3> QED BY <2>1, <3>1, <3>2 DEF Sweeps, TypeInv
  <2>5. LoadedStaysOnDisk'
    BY <2>2, <2>4 DEF EngineInv, LoadedStaysOnDisk
  <2> QED BY <2>3, <2>5 DEF EngineInv
<1>17. ASSUME NEW t \in Task, EndClean(t) PROVE EngineInv'
  <2>1. Rests(t)
    BY <1>17, EndRests DEF EndClean
  <2>2. EngineOf(t)' /\ Alone(t)
    BY <2>1, RestingIs DEF Rests, EngineOf
  <2> QED BY <1>17, <2>1, <2>2, EngineAside DEF EndClean, Rests
<1>18. ASSUME NEW p \in Process, Die(p) PROVE EngineInv'
  <2>1. /\ \A t \in Task : task'[t] = IF Of[t] = p THEN Resting ELSE task[t]
        /\ engine'[p] = None /\ \A q \in Process \ {p} : engine'[q] = engine[q] /\ lease'[q] = lease[q] /\ busy'[q] = busy[q]
        /\ UNCHANGED disk
    BY <1>18 DEF Die, TypeInv
  <2>2. ASSUME NEW u \in Task PROVE EngineOf(u)'
    <3>1. CASE Of[u] = p
      BY <2>1, <3>1, RestingIs DEF EngineOf
    <3>2. CASE Of[u] # p
      BY <1>0, <2>1, <3>2, EngineFrame
    <3> QED BY <3>1, <3>2
  <2>3. LoadedStaysOnDisk'
    BY <2>1 DEF EngineInv, LoadedStaysOnDisk
  <2> QED BY <2>2, <2>3 DEF EngineInv
<1>19. CASE Damage
  <2>1. UNCHANGED <<engine, lease, busy, task>>
    BY <1>19 DEF Damage
  <2>2. ASSUME NEW u \in Task PROVE EngineOf(u)'
    BY <1>0, <2>1, EngineFrame
  <2>3. LoadedStaysOnDisk'
    BY <1>19, <2>1 DEF Damage, EngineInv, LoadedStaysOnDisk, InUse, TypeInv
  <2> QED BY <2>2, <2>3 DEF EngineInv
<1>20. CASE UNCHANGED modelVars
  <2>1. UNCHANGED <<engine, lease, busy, task, disk>>
    BY <1>20 DEF modelVars
  <2> QED BY <2>1 DEF EngineInv, EngineOf, LoadedStaysOnDisk
<1> QED
  BY <1>1, <1>2, <1>3, <1>4, <1>5, <1>6, <1>7, <1>8, <1>9, <1>10, <1>11, <1>12, <1>13, <1>14, <1>15, <1>16, <1>17, <1>18, <1>19, <1>20, <1>21 DEF ModelsNext, Step

-----------------------------------------------------------------------------
(* The lock of installed.json: what a clean read stays so until it ends.      *)

\* The actions of a task that is not cleaning.
Other(t) ==
  \/ Begin(t) \/ TakeDownload(t) \/ Check(t) \/ Choose(t) \/ Install(t) \/ Commit(t) \/ PrepareFails(t) \/ LockEngine(t)
  \/ LoadGate(t) \/ LoadBuild(t) \/ BeginSwitch(t) \/ Drop(t) \/ Activate(t) \/ Undo(t) \/ Leave(t)

LEMMA OtherSteps ==
  ASSUME TypeInv, NEW t \in Task, Other(t)
  PROVE  /\ Alone(t) /\ json' = json /\ task[t].at # "sweep" /\ task'[t].at # "sweep"
         /\ json # Nobody => installed' = installed
<1>1. CASE Begin(t)
  BY <1>1, BeginMoves DEF Begin
<1>2. CASE TakeDownload(t)
  BY <1>2, AtMoves DEF TakeDownload, Moves
<1>3. CASE Check(t)
  BY <1>3, CheckIs DEF Check
<1>15. CASE Choose(t)
  BY <1>15, PreparedMoves DEF Choose
<1>4. CASE Install(t)
  <2>1. Rests(t) \/ Moves(t, "commit")
    BY <1>4, AtMoves, EndRests DEF Install
  <2> QED BY <1>4, <2>1, RestingIs DEF Install, Rests, Moves
<1>5. CASE Commit(t)
  BY <1>5, PreparedMoves DEF Commit
<1>6. CASE PrepareFails(t)
  BY <1>6, EndRests, RestingIs DEF PrepareFails, Rests
<1>7. CASE LockEngine(t)
  BY <1>7, LockEngineMoves DEF LockEngine
<1>8. CASE LoadGate(t)
  <2>1. Moves(t, IF task[t].at = "gate" THEN "build" ELSE "rebuild") \/ Moves(t, Failed(t))
    BY <1>8, AtMoves DEF LoadGate
  <2> QED BY <1>8, <2>1 DEF LoadGate, Failed, Moves
<1>9. CASE LoadBuild(t)
  <2>1. CASE At(t, Loaded(t))
    BY <1>9, <2>1, AtMoves DEF LoadBuild, Loaded, Moves
  <2>2. CASE task' = [task EXCEPT ![t].at = Failed(t),
                        ![t].owed = @ /\ (disk[lease[Of[t]]] = "whole" => task[t].at = "build")]
    <3>1. Alone(t) /\ task'[t].at = Failed(t)
      BY <2>2, BuildFailsMoves
    <3> QED BY <1>9, <3>1 DEF LoadBuild, Failed
  <2> QED BY <1>9, <2>1, <2>2 DEF LoadBuild
<1>10. CASE BeginSwitch(t)
  BY <1>10, BeginSwitchMoves DEF BeginSwitch
<1>11. CASE Drop(t)
  BY <1>11, AtMoves DEF Drop, Moves
<1>12. CASE Activate(t)
  <2>1. Moves(t, "leave") \/ Moves(t, "undo")
    BY <1>12, AtMoves DEF Activate
  <2> QED BY <1>12, <2>1 DEF Activate, Moves
<1>13. CASE Undo(t)
  <2>1. CASE task' = [task EXCEPT ![t].at = "leave", ![t].owed = engine[Of[t]] = task[t].was]
    <3>1. Alone(t) /\ task'[t].at = "leave"
      BY <2>1, UndoEndsMoves
    <3> QED BY <1>13, <3>1 DEF Undo
  <2>2. CASE At(t, IF task[t].was # None /\ Known(task[t].was) THEN "regate" ELSE "leave")
    <3>1. Moves(t, "regate") \/ Moves(t, "leave")
      BY <2>2, AtMoves
    <3> QED BY <1>13, <3>1 DEF Undo, Moves
  <2> QED BY <1>13, <2>1, <2>2 DEF Undo
<1>14. CASE Leave(t)
  BY <1>14, EndRests, RestingIs DEF Leave, Rests
<1> QED
  BY <1>1, <1>2, <1>3, <1>4, <1>5, <1>6, <1>7, <1>8, <1>9, <1>10, <1>11, <1>12, <1>13, <1>14, <1>15 DEF Other

\* Every step is one of these.
LEMMA StepIs ==
  ASSUME [ModelsNext]_modelVars
  PROVE  \/ \E t \in Task : Other(t) \/ BeginClean(t) \/ Sweep(t) \/ EndClean(t)
         \/ \E p \in Process : Die(p)
         \/ Damage
         \/ UNCHANGED modelVars
BY DEF ModelsNext, Step, Other

LEMMA DieIs ==
  ASSUME TypeInv, NEW p \in Process, Die(p)
  PROVE  /\ \A t \in Task : task'[t] = IF Of[t] = p THEN Resting ELSE task[t]
         /\ engine'[p] = None /\ lease'[p] = None
         /\ \A q \in Process \ {p} : engine'[q] = engine[q] /\ lease'[q] = lease[q]
         /\ json' = IF \E t \in Task : Of[t] = p /\ json = t THEN Nobody ELSE json
         /\ \A v \in Version : download'[v] = download[v] \/ \E t \in Task : Of[t] = p /\ download[v] = t
         /\ UNCHANGED <<disk, installed, damages>> /\ faults' = faults + 1
BY DEF Die, Fault, TypeInv

LEMMA CleanStep == TypeInv /\ TypeInv' /\ CleanInv /\ [ModelsNext]_modelVars => CleanInv'
<1> SUFFICES ASSUME TypeInv, TypeInv', CleanInv, [ModelsNext]_modelVars PROVE CleanInv'
  OBVIOUS
<1>0. Nobody \notin Task /\ json \in Task \cup {Nobody}
  BY ModelsAssumption DEF TypeInv
<1>1. ASSUME NEW t \in Task, Other(t) PROVE CleanInv'
  <2>1. /\ Alone(t) /\ json' = json /\ task[t].at # "sweep" /\ task'[t].at # "sweep"
        /\ json # Nobody => installed' = installed
    BY <1>1, OtherSteps
  <2>2. json # Nobody => json # t /\ task'[json] = task[json]
    BY <1>0, <2>1 DEF CleanInv, Alone
  <2>3. \A u \in Task : task'[u].at = "sweep" => json' = u
    BY <2>1 DEF CleanInv, Alone
  <2> QED BY <2>1, <2>2, <2>3 DEF CleanInv
<1>2. ASSUME NEW t \in Task, BeginClean(t) PROVE CleanInv'
  <2>1. json = Nobody /\ json' = t /\ UNCHANGED installed
    BY <1>2 DEF BeginClean
  <2>2. \A u \in Task : task'[u].at = "sweep" => json' = u
    BY <1>0, <1>2, <2>1, BeginCleanMoves DEF CleanInv, Alone
  <2> QED BY <1>2, <2>1, <2>2, BeginCleanMoves DEF CleanInv
<1>3. ASSUME NEW t \in Task, Sweep(t) PROVE CleanInv'
  <2>1. PICK v \in Version : Sweeps(t, v)
    BY <1>3, SweepMoves
  <2>2. task[t].at = "sweep" /\ json = t /\ UNCHANGED <<json, installed>> /\ json # Nobody
    BY <1>0, <1>3 DEF Sweep, CleanInv
  <2>3. \A u \in Task : task'[u].at = "sweep" => json' = u
    BY <2>1, <2>2 DEF CleanInv, Sweeps
  <2>4. task'[t].at = "sweep" /\ task'[t].left \subseteq task'[t].known /\ task'[t].known \subseteq task[t].known
        /\ task'[t].left \subseteq task[t].left
    BY <2>1, <2>2 DEF CleanInv, Sweeps
  <2> QED BY <2>2, <2>3, <2>4 DEF CleanInv
<1>4. ASSUME NEW t \in Task, EndClean(t) PROVE CleanInv'
  <2>1. Rests(t) /\ json' = Nobody /\ task[t].at = "sweep"
    BY <1>4, EndRests DEF EndClean
  <2>2. json = t
    BY <2>1 DEF CleanInv
  <2>3. \A u \in Task : task'[u].at # "sweep"
    BY <2>1, <2>2, RestingIs DEF CleanInv, Rests, Alone
  <2> QED BY <2>1, <2>3 DEF CleanInv
<1>5. ASSUME NEW p \in Process, Die(p) PROVE CleanInv'
  <2>1. \A u \in Task : task'[u].at = "sweep" => json' = u
    BY <1>5, DieIs, RestingIs DEF CleanInv
  <2>2. json' # Nobody => json' = json /\ task'[json] = task[json]
    BY <1>0, <1>5, DieIs
  <2> QED BY <1>5, <2>1, <2>2, DieIs DEF CleanInv
<1>6. CASE Damage
  BY <1>6 DEF Damage, CleanInv
<1>7. CASE UNCHANGED modelVars
  BY <1>7 DEF modelVars, CleanInv
<1> QED BY <1>1, <1>2, <1>3, <1>4, <1>5, <1>6, <1>7, StepIs

LEMMA DownloadStep == TypeInv /\ DownloadInv /\ [ModelsNext]_modelVars => DownloadInv'
<1> SUFFICES ASSUME TypeInv, DownloadInv, [ModelsNext]_modelVars PROVE DownloadInv'
  OBVIOUS
<1> DEFINE D(t) == task[t].at \in {"check", "choose", "install", "commit"} => download[Newest[Of[t]]] = t
<1>0. (\A t \in Task : D(t)) /\ Nobody \notin Task
  BY ModelsAssumption DEF DownloadInv
<1>1. ASSUME NEW t \in Task, Alone(t), D(t)',
             \A v \in Version : download'[v] = download[v] \/ download[v] \in {t, Nobody}
      PROVE  DownloadInv'
  <2>1. ASSUME NEW u \in Task \ {t} PROVE D(u)'
    BY <1>0, <1>1, NewestIs DEF Alone
  <2> QED BY <1>1, <2>1 DEF DownloadInv
<1>2. ASSUME NEW t \in Task, Rests(t) PROVE DownloadInv'
  <2>1. D(t)' /\ Alone(t)
    BY <1>2, RestingIs DEF Rests
  <2> QED BY <1>1, <1>2, <2>1 DEF Rests
<1>3. ASSUME NEW t \in Task, Alone(t), UNCHANGED download, task'[t].at \notin {"check", "choose", "install", "commit"}
      PROVE DownloadInv'
  BY <1>1, <1>3
<1>4. ASSUME NEW t \in Task, Other(t) PROVE DownloadInv'
  <2>1. CASE Begin(t)
    BY <1>3, <2>1, BeginMoves DEF Begin
  <2>2. CASE TakeDownload(t)
    <3>1. download[Newest[Of[t]]] = Nobody /\ download' = [download EXCEPT ![Newest[Of[t]]] = t] /\ Alone(t)
      BY <2>2, AtMoves DEF TakeDownload, Moves
    <3>2. download'[Newest[Of[t]]] = t /\ \A v \in Version : download'[v] = download[v] \/ download[v] = Nobody
      BY <3>1, NewestIs DEF TypeInv
    <3> QED BY <1>1, <3>1, <3>2
  <2>3. CASE Check(t) \/ Choose(t) \/ Commit(t)
    <3>0. download[Newest[Of[t]]] = t
      BY <1>0, <2>3 DEF Check, Choose, Commit
    <3>1. CASE Check(t)
      <4>1. Alone(t) /\ (UNCHANGED download \/ (/\ task'[t].at \in {"switch", "lock"}
                                               /\ \A w \in Version \ {Newest[Of[t]]} : download'[w] = download[w]))
        BY <3>1, CheckIs
      <4> QED BY <1>1, <3>0, <4>1
    <3>2. CASE \E v : Prepared(t, v)
      <4>1. D(t)' /\ Alone(t) /\ \A w \in Version \ {Newest[Of[t]]} : download'[w] = download[w]
        BY <3>2, PreparedMoves
      <4> QED BY <1>1, <3>0, <4>1
    <3> QED BY <2>3, <3>1, <3>2 DEF Choose, Commit
  <2>4. CASE Install(t)
    <3>1. CASE End(t)
      BY <1>2, <3>1, EndRests
    <3>2. CASE At(t, "commit") /\ UNCHANGED download
      <4>1. D(t)' /\ Alone(t)
        BY <1>0, <2>4, <3>2, AtMoves DEF Install, Moves
      <4> QED BY <1>1, <3>2, <4>1
    <3> QED BY <2>4, <3>1, <3>2 DEF Install
  <2>5. CASE PrepareFails(t) \/ Leave(t)
    BY <1>2, <2>5, EndRests DEF PrepareFails, Leave
  <2>6. CASE LockEngine(t)
    BY <1>3, <2>6, LockEngineMoves DEF LockEngine
  <2>7. CASE LoadGate(t)
    <3>1. Moves(t, IF task[t].at = "gate" THEN "build" ELSE "rebuild") \/ Moves(t, Failed(t))
      BY <2>7, AtMoves DEF LoadGate
    <3> QED BY <1>3, <2>7, <3>1 DEF LoadGate, Failed, Moves
  <2>8. CASE LoadBuild(t)
    <3>1. CASE At(t, Loaded(t))
      BY <1>3, <2>8, <3>1, AtMoves DEF LoadBuild, Loaded, Moves
    <3>2. CASE task' = [task EXCEPT ![t].at = Failed(t),
                          ![t].owed = @ /\ (disk[lease[Of[t]]] = "whole" => task[t].at = "build")]
      <4>1. Alone(t) /\ task'[t].at = Failed(t)
        BY <3>2, BuildFailsMoves
      <4> QED BY <1>3, <2>8, <4>1 DEF LoadBuild, Failed
    <3> QED BY <2>8, <3>1, <3>2 DEF LoadBuild
  <2>9. CASE BeginSwitch(t)
    BY <1>3, <2>9, BeginSwitchMoves DEF BeginSwitch
  <2>10. CASE Drop(t)
    BY <1>3, <2>10, AtMoves DEF Drop, Moves
  <2>11. CASE Activate(t)
    <3>1. Moves(t, "leave") \/ Moves(t, "undo")
      BY <2>11, AtMoves DEF Activate
    <3> QED BY <1>3, <2>11, <3>1 DEF Activate, Moves
  <2>12. CASE Undo(t)
    <3>1. Alone(t) /\ task'[t].at \in {"leave", "regate"}
      <4>1. CASE task' = [task EXCEPT ![t].at = "leave", ![t].owed = engine[Of[t]] = task[t].was]
        BY <4>1, UndoEndsMoves
      <4>2. CASE At(t, IF task[t].was # None /\ Known(task[t].was) THEN "regate" ELSE "leave")
        BY <4>2, AtMoves DEF Moves
      <4> QED BY <2>12, <4>1, <4>2 DEF Undo
    <3> QED BY <1>3, <2>12, <3>1 DEF Undo
  <2> QED
    BY <1>4, <2>1, <2>2, <2>3, <2>4, <2>5, <2>6, <2>7, <2>8, <2>9, <2>10, <2>11, <2>12 DEF Other
<1>5. ASSUME NEW t \in Task, BeginClean(t) PROVE DownloadInv'
  BY <1>3, <1>5, BeginCleanMoves DEF BeginClean
<1>6. ASSUME NEW t \in Task, Sweep(t) PROVE DownloadInv'
  <2>1. UNCHANGED download /\ \A u \in Task : task'[u].at = task[u].at
    BY <1>6, SweepMoves DEF Sweep, Sweeps
  <2> QED BY <2>1 DEF DownloadInv
<1>7. ASSUME NEW t \in Task, EndClean(t) PROVE DownloadInv'
  BY <1>2, <1>7, EndRests DEF EndClean
<1>8. ASSUME NEW p \in Process, Die(p) PROVE DownloadInv'
  <2>1. ASSUME NEW u \in Task PROVE D(u)'
    BY <1>0, <1>8, DieIs, RestingIs, NewestIs
  <2> QED BY <2>1 DEF DownloadInv
<1>9. CASE Damage
  BY <1>9 DEF Damage, DownloadInv
<1>10. CASE UNCHANGED modelVars
  BY <1>10 DEF modelVars, DownloadInv
<1> QED BY <1>4, <1>5, <1>6, <1>7, <1>8, <1>9, <1>10, StepIs

-----------------------------------------------------------------------------
(* Records: kept by every step but the sweep of a version that nobody uses.   *)

LEMMA OtherVersions ==
  ASSUME TypeInv, NEW t \in Task, Other(t)
  PROVE  /\ damages' = damages /\ faults' \in {faults, faults + 1}
         /\ \/ installed'.versions = installed.versions
            \/ /\ Commit(t) /\ json = Nobody
               /\ installed'.versions = installed.versions \cup {Newest[Of[t]]}
         /\ \/ disk' = disk
            \/ Install(t) /\ At(t, "commit") /\ disk' = [disk EXCEPT ![Newest[Of[t]]] = "whole"]
<1>1. CASE Begin(t) \/ TakeDownload(t) \/ LockEngine(t) \/ BeginSwitch(t) \/ Drop(t) \/ Leave(t) \/ LoadGate(t) \/ Undo(t)
  BY <1>1 DEF Begin, TakeDownload, LockEngine, BeginSwitch, Drop, Leave, LoadGate, Undo
<1>2. CASE Check(t)
  BY <1>2 DEF Check
<1>8. CASE Choose(t)
  <2>1. installed' = installed \/ \E v : installed' = [installed EXCEPT !.active = v]
    BY <1>8 DEF Choose
  <2>2. installed'.versions = installed.versions
    BY <2>1 DEF TypeInv
  <2> QED BY <1>8, <2>2 DEF Choose
<1>3. CASE Install(t)
  BY <1>3 DEF Install
<1>4. CASE Commit(t)
  <2>1. installed'.versions = installed.versions \cup {Newest[Of[t]]}
    BY <1>4 DEF Commit, TypeInv
  <2> QED BY <1>4, <2>1 DEF Commit
<1>5. CASE PrepareFails(t)
  BY <1>5 DEF PrepareFails, Fault
<1>6. CASE LoadBuild(t)
  BY <1>6 DEF LoadBuild, Fault
<1>7. CASE Activate(t)
  <2>1. installed' = installed \/ \E v, w : installed' = [installed EXCEPT !.active = v, !.previous = w]
    BY <1>7 DEF Activate
  <2>2. installed'.versions = installed.versions
    BY <2>1 DEF TypeInv
  <2> QED BY <1>7, <2>2 DEF Activate, Fault
<1> QED BY <1>1, <1>2, <1>3, <1>4, <1>5, <1>6, <1>7, <1>8 DEF Other

LEMMA OtherRecords ==
  ASSUME TypeInv, CleanInv, NEW t \in Task, Other(t), NEW v \in Version
  PROVE  /\ Recorded(v) => Recorded(v)'
         /\ Recorded(v)' => Recorded(v) \/ (Commit(t) /\ v = Newest[Of[t]])
<1>1. /\ Alone(t) /\ json' = json /\ task[t].at # "sweep"
      /\ json # Nobody => installed' = installed
  BY OtherSteps
<1>2. json # Nobody => task'[json] = task[json]
  BY <1>1 DEF CleanInv, Alone, TypeInv
<1>3. v \in installed.versions => v \in installed'.versions
  BY OtherVersions
<1>4. v \in installed'.versions => v \in installed.versions \/ (Commit(t) /\ v = Newest[Of[t]] /\ json = Nobody)
  BY OtherVersions
<1> QED BY <1>1, <1>2, <1>3, <1>4 DEF Recorded

LEMMA BeginCleanRecords ==
  ASSUME TypeInv, NEW t \in Task, BeginClean(t), NEW v \in Version
  PROVE  Recorded(v)' <=> Recorded(v)
BY BeginCleanMoves DEF BeginClean, Recorded

LEMMA SweepRecords ==
  ASSUME TypeInv, CleanInv, NEW t \in Task, Sweep(t), NEW s \in Version, Sweeps(t, s), NEW v \in Version
  PROVE  IF v = s /\ ~InUse(s) /\ disk[s] # "absent"
         THEN Recorded(v) /\ ~Recorded(v)' /\ disk'[v] = "absent" /\ v # installed.active
         ELSE (Recorded(v)' <=> Recorded(v)) /\ disk'[v] = disk[v]
<1>1. json = t /\ json # Nobody /\ json' = json /\ installed' = installed
  BY ModelsAssumption DEF Sweep, CleanInv
<1>2. s \in task[t].left /\ task[t].left \subseteq task[t].known /\ task[t].known \subseteq installed.versions
      /\ s # installed.active
  BY <1>1 DEF Sweeps, CleanInv
<1>3. CASE ~InUse(s) /\ disk[s] # "absent"
  <2>1. task'[t].known = task[t].known \ {s} /\ disk' = [disk EXCEPT ![s] = "absent"]
    BY <1>3 DEF Sweeps
  <2> QED BY <1>1, <1>2, <1>3, <2>1 DEF Recorded, TypeInv
<1>4. CASE ~(~InUse(s) /\ disk[s] # "absent")
  <2>1. task'[t].known = task[t].known /\ disk' = disk
    BY <1>4 DEF Sweeps
  <2> QED BY <1>1, <1>4, <2>1 DEF Recorded
<1> QED BY <1>3, <1>4

LEMMA EndCleanRecords ==
  ASSUME TypeInv, CleanInv, NEW t \in Task, EndClean(t), NEW v \in Version
  PROVE  /\ Recorded(v)' <=> Recorded(v)
         /\ v \in installed'.versions => Recorded(v)
<1>1. json = t /\ json # Nobody /\ json' = Nobody /\ task[t].known \subseteq installed.versions
  BY ModelsAssumption DEF EndClean, CleanInv
<1>2. installed'.versions = task[t].known
  BY DEF EndClean, TypeInv
<1> QED BY <1>1, <1>2 DEF Recorded

LEMMA DieRecords ==
  ASSUME TypeInv, NEW p \in Process, Die(p), NEW v \in Version
  PROVE  Recorded(v) => Recorded(v)'
<1>1. json' = Nobody \/ (json' = json /\ (json # Nobody => task'[json] = task[json]))
  BY DieIs DEF TypeInv
<1>2. installed' = installed
  BY DieIs
<1> QED BY <1>1, <1>2 DEF Recorded

-----------------------------------------------------------------------------
(* Switches.                                                                  *)

\* No other task touches the engine of a task that holds its lock.
LEMMA OtherEngines ==
  ASSUME TypeInv, EngineInv, NEW t \in Task, Other(t), NEW u \in Task \ {t}, task[u].at \in Engaged
  PROVE  engine'[Of[u]] = engine[Of[u]]
<1>1. CASE engine' = engine
  BY <1>1
<1>2. CASE task[t].at \in Engaged /\ \E e : engine' = [engine EXCEPT ![Of[t]] = e]
  <2>1. Of[u] # Of[t] /\ Of[u] \in Process
    BY <1>2, OneEngaged, NewestIs
  <2> QED BY <1>2, <2>1 DEF TypeInv
<1> QED
  BY <1>1, <1>2 DEF Other, Begin, TakeDownload, Check, Choose, Install, Commit, PrepareFails, LockEngine, LoadGate, LoadBuild,
     BeginSwitch, Drop, Activate, Undo, Leave, Engaged

LEMMA SwitchStep ==
  TypeInv /\ EngineInv /\ CleanInv /\ SwitchInv /\ TypeInv' /\ EngineInv' /\ [ModelsNext]_modelVars => SwitchInv'
<1> SUFFICES ASSUME TypeInv, EngineInv, CleanInv, SwitchInv, TypeInv', EngineInv', [ModelsNext]_modelVars, damages' = 0
             PROVE  \A t \in Task : SwitchOf(t)'
  BY DEF SwitchInv
<1>0. \A t \in Task : EngineOf(t) /\ Of[t] \in Process /\ task[t].was \in Maybe /\ task[t].cand \in Maybe
  BY NewestIs DEF EngineInv, TypeInv, Locals
<1>1. ASSUME NEW t \in Task, Other(t) PROVE \A u \in Task : SwitchOf(u)'
  <2>1. Alone(t) /\ damages = 0 /\ \A u \in Task : SwitchOf(u)
    BY <1>1, OtherSteps, OtherVersions DEF SwitchInv
  <2>2. ASSUME NEW v \in Maybe, v # None, Kept(v) PROVE Kept(v)'
    <3>1. v \in Version
      BY <2>2 DEF Maybe
    <3> QED BY <1>1, <2>2, <3>1, OtherVersions, OtherRecords DEF Kept, TypeInv
  <2>3. ASSUME NEW u \in Task \ {t} PROVE SwitchOf(u)'
    <3>1. task'[u] = task[u]
      BY <2>1 DEF Alone
    <3>2. task[u].at = "leave" => engine'[Of[u]] = engine[Of[u]]
      BY <1>1, OtherEngines DEF Engaged
    <3> QED BY <1>0, <2>1, <2>2, <3>1, <3>2 DEF SwitchOf
  <2> DEFINE Away == {"drop", "gate", "build", "activate", "undo", "regate", "rebuild"}
  <2>4. SwitchOf(t)'
    <3>1. CASE task'[t].at \notin Away \cup {"leave"} \/ task'[t].was = None
      BY <3>1 DEF SwitchOf
    \* It stays in a switch: what it took away is still kept.
    <3>2. CASE task[t].at \in Away /\ task'[t].at \in Away /\ task'[t].was = task[t].was
               /\ (task'[t].owed => task[t].owed)
      BY <1>0, <2>1, <2>2, <3>2 DEF SwitchOf
    \* It leaves with a model that is loaded.
    <3>3. CASE task'[t].at = "leave" /\ engine'[Of[t]] # None
      BY <3>3 DEF SwitchOf
    <3>4. CASE Begin(t) \/ TakeDownload(t) \/ Check(t) \/ Choose(t) \/ Install(t) \/ Commit(t) \/ PrepareFails(t) \/ Leave(t)
      <4>1. task'[t].at \notin Away \cup {"leave"}
        <5>1. CASE Begin(t)
          BY <5>1, BeginMoves
        <5>2. CASE TakeDownload(t)
          BY <5>2, AtMoves DEF TakeDownload, Moves
        <5>3. CASE Check(t)
          BY <5>3, CheckIs
        <5>7. CASE Choose(t)
          BY <5>7, PreparedMoves DEF Choose
        <5>4. CASE Install(t)
          BY <5>4, AtMoves, EndRests, RestingIs DEF Install, Moves, Rests
        <5>5. CASE Commit(t)
          BY <5>5, PreparedMoves DEF Commit
        <5>6. CASE PrepareFails(t) \/ Leave(t)
          BY <5>6, EndRests, RestingIs DEF PrepareFails, Leave, Rests
        <5> QED BY <3>4, <5>1, <5>2, <5>3, <5>4, <5>5, <5>6, <5>7
      <4> QED BY <3>1, <4>1
    <3>5. CASE LockEngine(t)
      <4>1. task[t].at = "lock" /\ task'[t].was = task[t].was /\ engine' = engine
            /\ (task'[t].at = "leave" \/ (task'[t].at = "gate" /\ engine[Of[t]] = None))
        BY <3>5, LockEngineMoves DEF LockEngine
      <4>2. task[t].was = None
        BY <1>0, <4>1 DEF EngineOf, Engaged
      <4> QED BY <3>1, <4>1, <4>2
    <3>6. CASE LoadGate(t)
      <4> DEFINE v == IF task[t].at = "gate" THEN task[t].cand ELSE task[t].was
      <4>1. CASE v \in installed.versions
        <5>1. Moves(t, IF task[t].at = "gate" THEN "build" ELSE "rebuild") /\ task[t].at \in {"gate", "regate"}
          BY <3>6, <4>1, AtMoves DEF LoadGate
        <5> QED BY <3>2, <5>1 DEF Moves
      <4>2. CASE v \notin installed.versions
        <5>1. Moves(t, Failed(t)) /\ task[t].at \in {"gate", "regate"}
          BY <3>6, <4>2, AtMoves DEF LoadGate
        <5>2. CASE task[t].at = "gate" /\ task[t].op \in {"update", "rollback"}
          BY <3>2, <5>1, <5>2 DEF Moves, Failed
        <5>3. CASE task[t].at = "gate" /\ task[t].op \notin {"update", "rollback"}
          <6>1. task[t].was = None
            BY <1>0, <5>3 DEF EngineOf, Switches
          <6> QED BY <3>1, <5>1, <6>1 DEF Moves
        <5>4. CASE task[t].at = "regate"
          <6>1. ~Recorded(task[t].was)
            BY <4>2, <5>4 DEF Recorded
          <6>2. task[t].was = None \/ ~task[t].owed
            BY <2>1, <5>4, <6>1 DEF SwitchOf, Kept
          <6> QED BY <5>1, <6>2 DEF Moves, SwitchOf
        <5> QED BY <5>1, <5>2, <5>3, <5>4
      <4> QED BY <4>1, <4>2
    <3>7. CASE LoadBuild(t)
      <4>0. task[t].at \in {"build", "rebuild"} /\ lease[Of[t]] # None
        BY <1>0, <3>7 DEF LoadBuild, EngineOf
      <4>1. CASE engine' = [engine EXCEPT ![Of[t]] = lease[Of[t]]] /\ At(t, Loaded(t))
        <5>1. engine'[Of[t]] # None /\ Moves(t, Loaded(t))
          BY <1>0, <4>0, <4>1, AtMoves DEF TypeInv
        <5>2. Loaded(t) = "leave" \/ (Loaded(t) = "activate" /\ task[t].at = "build")
          BY DEF Loaded
        <5> QED BY <3>2, <3>3, <5>1, <5>2 DEF Moves
      <4>2. CASE task' = [task EXCEPT ![t].at = Failed(t),
                            ![t].owed = @ /\ (disk[lease[Of[t]]] = "whole" => task[t].at = "build")]
        <5> DEFINE b == disk[lease[Of[t]]] = "whole" => task[t].at = "build"
        <5>1. /\ task'[t].at = Failed(t) /\ task'[t].was = task[t].was /\ (task'[t].owed => task[t].owed /\ b)
          <6>1. task' = [task EXCEPT ![t].at = Failed(t), ![t].owed = @ /\ b]
            BY <4>2
          <6> HIDE DEF b
          <6> QED BY <6>1, BuildFailsMoves
        <5>2. CASE task[t].at = "build" /\ task[t].op \in {"update", "rollback"}
          BY <3>2, <5>1, <5>2 DEF Failed
        <5>3. CASE task[t].at = "build" /\ task[t].op \notin {"update", "rollback"}
          <6>1. task[t].was = None
            BY <1>0, <5>3 DEF EngineOf, Switches
          <6> QED BY <3>1, <5>1, <6>1
        <5>4. CASE task[t].at = "rebuild"
          <6>1. lease[Of[t]] = task[t].was
            BY <1>0, <5>4 DEF EngineOf
          <6>2. task[t].was # None /\ task[t].owed => disk[task[t].was] = "whole"
            BY <2>1, <5>4 DEF SwitchOf, Kept
          <6>3. task'[t].was = None \/ ~task'[t].owed
            BY <5>1, <5>4, <6>1, <6>2
          <6> QED BY <6>3 DEF SwitchOf
        <5> QED BY <4>0, <5>2, <5>3, <5>4
      <4> QED BY <3>7, <4>1, <4>2 DEF LoadBuild
    <3>8. CASE BeginSwitch(t)
      <4>1. /\ task'[t].was = engine[Of[t]] /\ task'[t].owed = Recorded(engine[Of[t]])
            /\ task'[t].at \in {"leave", "drop"} /\ engine' = engine
        BY <3>8, BeginSwitchMoves DEF BeginSwitch
      <4>2. CASE task'[t].at = "leave"
        BY <4>1, <4>2 DEF SwitchOf
      <4>3. CASE task'[t].at = "drop" /\ engine[Of[t]] # None /\ Recorded(engine[Of[t]])
        <5>1. PICK e \in Maybe : e = engine[Of[t]]
          BY <1>0 DEF TypeInv
        <5>2. disk[e] = "whole" /\ e # None
          BY <1>0, <4>3, <5>1 DEF EngineInv, LoadedStaysOnDisk
        <5>3. Kept(e)'
          BY <2>2, <4>3, <5>1, <5>2 DEF Kept
        <5> QED BY <4>1, <4>3, <5>1, <5>3 DEF SwitchOf
      <4> QED BY <4>1, <4>2, <4>3 DEF SwitchOf
    <3>9. CASE Drop(t)
      BY <3>2, <3>9, AtMoves DEF Drop, Moves
    <3>10. CASE Activate(t)
      <4>1. Moves(t, "leave") \/ Moves(t, "undo")
        BY <3>10, AtMoves DEF Activate
      <4>2. task[t].at = "activate" /\ engine' = engine /\ engine[Of[t]] # None
        BY <1>0, <3>10 DEF Activate, EngineOf
      <4> QED BY <3>2, <3>3, <4>1, <4>2 DEF Moves
    <3>11. CASE Undo(t)
      <4>0. task[t].at = "undo"
        BY <3>11 DEF Undo
      <4>1. CASE task' = [task EXCEPT ![t].at = "leave", ![t].owed = engine[Of[t]] = task[t].was] /\ UNCHANGED <<engine, lease>>
        <5>1. task'[t].at = "leave" /\ task'[t].was = task[t].was /\ task'[t].owed = (engine[Of[t]] = task[t].was)
          BY <4>1, UndoEndsMoves
        <5> QED BY <4>1, <5>1 DEF SwitchOf
      <4>2. CASE At(t, IF task[t].was # None /\ Known(task[t].was) THEN "regate" ELSE "leave")
        <5>1. CASE task[t].was # None /\ Known(task[t].was)
          BY <3>2, <4>0, <4>2, <5>1, AtMoves DEF Moves
        <5>2. CASE ~(task[t].was # None /\ Known(task[t].was))
          <6>1. task[t].was = None \/ ~task[t].owed
            BY <2>1, <4>0, <5>2 DEF SwitchOf, Kept, Recorded, Known
          <6> QED BY <4>2, <5>2, <6>1, AtMoves DEF Moves, SwitchOf
        <5> QED BY <5>1, <5>2
      <4> QED BY <3>11, <4>1, <4>2 DEF Undo
    <3> QED BY <1>1, <3>4, <3>5, <3>6, <3>7, <3>8, <3>9, <3>10, <3>11 DEF Other
  <2> QED BY <2>3, <2>4
<1>2. ASSUME NEW t \in Task, UNCHANGED <<disk, damages, engine>>, \A v \in Version : Recorded(v) => Recorded(v)',
             \A u \in Task : \/ task'[u] = task[u]
                             \/ task'[u].was = None
                             \/ task'[u].at \in {"sweep", "idle"}
      PROVE  \A u \in Task : SwitchOf(u)'
  <2>1. ASSUME NEW u \in Task, task'[u] = task[u] PROVE SwitchOf(u)'
    <3>1. SwitchOf(u) /\ task[u].was \in Maybe
      BY <1>0, <1>2 DEF SwitchInv
    <3> QED BY <1>2, <2>1, <3>1 DEF SwitchOf, Kept, Maybe
  <2> QED BY <1>2, <2>1 DEF SwitchOf
<1>3. ASSUME NEW t \in Task, BeginClean(t) PROVE \A u \in Task : SwitchOf(u)'
  BY <1>2, <1>3, BeginCleanMoves, BeginCleanRecords DEF BeginClean, Alone
<1>4. ASSUME NEW t \in Task, EndClean(t) PROVE \A u \in Task : SwitchOf(u)'
  BY <1>2, <1>4, EndRests, RestingIs, EndCleanRecords DEF EndClean, Rests, Alone
<1>5. ASSUME NEW t \in Task, Sweep(t) PROVE \A u \in Task : SwitchOf(u)'
  <2>1. PICK s \in Version : Sweeps(t, s)
    BY <1>5, SweepMoves
  <2>2. ASSUME NEW u \in Task PROVE SwitchOf(u)'
    <3>1. /\ task'[u].at = task[u].at /\ task'[u].was = task[u].was /\ (task'[u].owed => task[u].owed)
          /\ engine' = engine /\ damages = 0 /\ SwitchOf(u)
      BY <1>5, <2>1 DEF Sweep, Sweeps, SwitchInv
    <3>2. CASE u = t
      BY <1>5, <3>1, <3>2 DEF Sweep, SwitchOf
    <3>3. CASE u # t
      <4>1. task'[u].owed => (~InUse(s) /\ disk[s] # "absent" => task[u].was # s)
        BY <2>1, <3>3 DEF Sweeps
      <4>2. task[u].was # None => task[u].was \in Version
        BY <1>0 DEF Maybe
      <4>3. task'[u].owed /\ task[u].was # None /\ Kept(task[u].was) => Kept(task[u].was)'
        BY <1>5, <2>1, <3>1, <4>1, <4>2, SweepRecords DEF Kept
      <4> QED BY <3>1, <4>3 DEF SwitchOf
    <3> QED BY <3>2, <3>3
  <2> QED BY <2>2
<1>6. ASSUME NEW p \in Process, Die(p) PROVE \A u \in Task : SwitchOf(u)'
  <2>1. ASSUME NEW u \in Task, Of[u] # p PROVE SwitchOf(u)'
    <3>1. task'[u] = task[u] /\ SwitchOf(u) /\ engine'[Of[u]] = engine[Of[u]] /\ disk' = disk
      BY <1>0, <1>6, <2>1, DieIs DEF SwitchInv
    <3>2. task[u].was # None => task[u].was \in Version
      BY <1>0 DEF Maybe
    <3> QED BY <1>6, <3>1, <3>2, DieRecords DEF SwitchOf, Kept
  <2>2. ASSUME NEW u \in Task, Of[u] = p PROVE SwitchOf(u)'
    BY <1>6, <2>2, DieIs, RestingIs DEF SwitchOf
  <2> QED BY <2>1, <2>2
<1>7. CASE Damage
  BY <1>7 DEF Damage, TypeInv
<1>8. CASE UNCHANGED modelVars
  BY <1>8 DEF modelVars, SwitchInv, SwitchOf, Kept, Recorded
<1> QED BY <1>1, <1>3, <1>4, <1>5, <1>6, <1>7, <1>8, StepIs

-----------------------------------------------------------------------------
(* While nothing fails, what is there has a record or gets one.               *)

\* A version that stays goes on staying, unless its task fails to record it.
LEMMA OtherStays ==
  ASSUME TypeInv, CleanInv, NEW t \in Task, Other(t), faults' = faults, NEW v \in Version, Stays(v)
  PROVE  Stays(v)'
<1>1. CASE Recorded(v)
  BY <1>1, OtherRecords DEF Stays
<1>2. CASE BeingRecorded(v)
  <2>1. PICK u \in Task : task[u].at = "commit" /\ Newest[Of[u]] = v
    BY <1>2 DEF BeingRecorded
  <2>2. CASE u # t
    <3>1. task'[u] = task[u]
      BY <2>2, OtherSteps DEF Alone
    <3> QED BY <2>1, <3>1 DEF Stays, BeingRecorded
  <2>3. CASE u = t
    <3>1. Commit(t)
      BY <2>1, <2>3 DEF Other, Begin, TakeDownload, Check, Choose, Install, PrepareFails, Fault, LockEngine, LoadGate, LoadBuild,
         BeginSwitch, Drop, Activate, Undo, Leave, TypeInv
    <3>2. json = Nobody /\ json' = json /\ v \in installed'.versions
      BY <2>1, <2>3, <3>1, NewestIs DEF Commit, TypeInv
    <3> QED BY <3>2 DEF Stays, Recorded
  <2> QED BY <2>2, <2>3
<1> QED BY <1>1, <1>2 DEF Stays

LEMMA QuietOther ==
  ASSUME TypeInv, EngineInv, CleanInv, DownloadInv, Quiet, TypeInv',
         NEW t \in Task, Other(t), faults' = faults
  PROVE  Quiet'
<1>0. /\ Alone(t) /\ json' = json /\ task'[t].at # "sweep"
      /\ \A u \in Task : Of[u] \in Process /\ Newest[Of[u]] \in Version /\ EngineOf(u)
  BY OtherSteps, NewestIs DEF EngineInv
\* Only an installation changes files, and its version is about to be recorded.
<1>1. \/ disk' = disk
      \/ /\ disk' = [disk EXCEPT ![Newest[Of[t]]] = "whole"] /\ disk'[Newest[Of[t]]] = "whole"
         /\ BeingRecorded(Newest[Of[t]])' /\ installed' = installed /\ lease' = lease
  <2>1. CASE Install(t) /\ At(t, "commit") /\ disk' = [disk EXCEPT ![Newest[Of[t]]] = "whole"]
    <3>1. task'[t].at = "commit" /\ disk'[Newest[Of[t]]] = "whole"
      BY <1>0, <2>1, AtMoves DEF Moves, TypeInv
    <3> QED BY <2>1, <3>1 DEF Install, BeingRecorded
  <2> QED BY <2>1, OtherVersions
<1>2. ASSUME NEW v \in Version PROVE FilesQuiet(v)'
  <2>0. FilesQuiet(v)
    BY DEF Quiet
  <2>1. disk'[v] # "damaged" /\ (disk'[v] = disk[v] \/ (disk'[v] = "whole" /\ Stays(v)'))
    BY <1>1, <2>0 DEF FilesQuiet, TypeInv, Stays
  <2>2. CASE v \in installed.versions
    <3>1. disk'[v] # "absent" => Stays(v)'
      BY <2>0, <2>1, <2>2, OtherStays DEF FilesQuiet
    <3>2. CASE disk'[v] = "absent"
      <4>1. ~Recorded(v) /\ disk[v] = "absent"
        BY <2>0, <2>1, <2>2, <3>2 DEF FilesQuiet
      <4>2. ~(Commit(t) /\ v = Newest[Of[t]])
        BY <4>1 DEF Quiet, InstallQuiet, Commit
      <4>3. ~Recorded(v)'
        BY <4>1, <4>2, OtherRecords
      <4> QED BY <2>1, <3>1, <4>3 DEF FilesQuiet
    <3> QED BY <2>1, <3>1, <3>2 DEF FilesQuiet
  <2>3. CASE v \in installed'.versions /\ v \notin installed.versions
    <3>1. Commit(t) /\ json = Nobody /\ v = Newest[Of[t]]
      BY <2>3, OtherVersions
    <3>2. disk[v] = "whole"
      BY <3>1 DEF Quiet, InstallQuiet, Commit
    <3>3. Recorded(v)'
      BY <1>0, <2>3, <3>1 DEF Recorded
    <3> QED BY <2>1, <3>2, <3>3 DEF FilesQuiet, Stays
  <2>4. CASE v \notin installed'.versions
    BY <2>1, <2>4 DEF FilesQuiet
  <2> QED BY <2>2, <2>3, <2>4
<1>3. ASSUME NEW v \in Version PROVE LeaseQuiet(v)'
  <2>0. LeaseQuiet(v) /\ FilesQuiet(v)
    BY DEF Quiet
  <2>1. CASE InUse(v)' /\ disk'[v] # "absent" /\ disk'[v] = disk[v]
    <3>1. InUse(v) \/ v \in installed.versions
      <4>1. CASE LoadGate(t)
        <5> DEFINE w == IF task[t].at = "gate" THEN task[t].cand ELSE task[t].was
        <5>1. lease' = lease \/ (w \in installed.versions /\ lease' = [lease EXCEPT ![Of[t]] = w])
          BY <4>1 DEF LoadGate
        <5> HIDE DEF w
        <5> QED BY <2>1, <5>1 DEF InUse, TypeInv
      <4>2. CASE lease' = lease \/ lease' = [lease EXCEPT ![Of[t]] = None]
        <5>1. v # None
          BY ModelsAssumption
        <5> QED BY <2>1, <4>2, <5>1 DEF InUse, TypeInv
      <4> QED
        BY <4>1, <4>2 DEF Other, Begin, TakeDownload, Check, Choose, Install, Commit, PrepareFails, LockEngine, LoadBuild,
           BeginSwitch, Drop, Activate, Undo, Leave
    <3>2. Stays(v)
      BY <2>0, <2>1, <3>1 DEF LeaseQuiet, FilesQuiet
    <3> QED BY <3>2, OtherStays DEF LeaseQuiet
  <2>2. CASE disk'[v] # disk[v]
    <3>1. Stays(v)'
      BY <1>1, <2>2 DEF TypeInv, Stays
    <3> QED BY <3>1 DEF LeaseQuiet
  <2> QED BY <2>1, <2>2 DEF LeaseQuiet
<1>4. ASSUME NEW u \in Task PROVE InstallQuiet(u)'
  <2> DEFINE n == Newest[Of[u]]
  <2>0. InstallQuiet(u) /\ n \in Version
    BY NewestIs DEF Quiet
  <2>1. disk[n] = "whole" => disk'[n] = "whole"
    BY <1>1, <2>0 DEF TypeInv
  <2>2. CASE u # t
    <3>1. task'[u] = task[u]
      BY <1>0, <2>2 DEF Alone
    <3>2. task[u].at \in {"install", "commit"} => ~(Commit(t) /\ n = Newest[Of[t]])
      BY <2>2 DEF DownloadInv, Commit
    <3> QED BY <2>0, <2>1, <3>1, <3>2, OtherRecords DEF InstallQuiet
  <2>3. CASE u = t /\ Check(t)
    <3>1. CASE task'[t].at = "install" /\ ~Known(n)
      <4>1. ~Recorded(n)
        BY <2>0, <3>1 DEF Quiet, FilesQuiet, Known, Recorded, TypeInv
      <4>2. ~Commit(t)
        BY <2>3 DEF Check, Commit
      <4> QED BY <2>0, <2>3, <3>1, <4>1, <4>2, OtherRecords DEF InstallQuiet
    <3>2. CASE task'[t].at \in {"choose", "switch", "lock"}
      BY <2>3, <3>2 DEF InstallQuiet
    <3> QED BY <2>3, <3>1, <3>2, CheckIs
  <2>4. CASE u = t /\ Install(t)
    <3>1. CASE End(t)
      BY <2>4, <3>1, EndRests, RestingIs DEF InstallQuiet, Rests
    <3>2. CASE At(t, "commit") /\ disk' = [disk EXCEPT ![n] = "whole"]
      <4>1. ~Recorded(n) /\ disk'[n] = "whole" /\ ~Commit(t)
        BY <2>0, <2>4, <3>2 DEF InstallQuiet, Install, Commit, TypeInv
      <4> QED BY <2>0, <2>4, <4>1, OtherRecords DEF InstallQuiet
    <3> QED BY <2>4, <3>1, <3>2 DEF Install
  <2>5. CASE u = t /\ ~Check(t) /\ ~Install(t)
    <3>1. task'[t].at \notin {"install", "commit"}
      <4>1. CASE Begin(t)
        BY <4>1, BeginMoves
      <4>2. CASE TakeDownload(t)
        BY <4>2, AtMoves DEF TakeDownload, Moves
      <4>3. CASE Commit(t) \/ Choose(t)
        BY <4>3, PreparedMoves DEF Commit, Choose
      <4>4. CASE PrepareFails(t) \/ Leave(t)
        BY <4>4, EndRests, RestingIs DEF PrepareFails, Leave, Rests
      <4>5. CASE LockEngine(t)
        BY <4>5, LockEngineMoves
      <4>6. CASE LoadGate(t)
        BY <4>6, AtMoves DEF LoadGate, Failed, Moves
      <4>7. CASE LoadBuild(t)
        <5>1. task'[t].at = Loaded(t) \/ task'[t].at = Failed(t)
          <6>1. CASE At(t, Loaded(t))
            BY <6>1, AtMoves DEF Moves
          <6>2. CASE task' = [task EXCEPT ![t].at = Failed(t), ![t].owed = @ /\ (disk[lease[Of[t]]] = "whole" => task[t].at = "build")]
            <7>1. PICK b : b = (disk[lease[Of[t]]] = "whole" => task[t].at = "build")
              OBVIOUS
            <7>2. task' = [task EXCEPT ![t].at = Failed(t), ![t].owed = @ /\ b]
              BY <6>2, <7>1
            <7> QED BY ZenonT(40), <7>2, BuildFailsMoves
          <6> QED BY <4>7, <6>1, <6>2 DEF LoadBuild
        <5> QED BY <5>1 DEF Loaded, Failed
      <4>8. CASE BeginSwitch(t)
        BY <4>8, BeginSwitchMoves
      <4>9. CASE Drop(t) \/ Activate(t)
        BY <4>9, AtMoves DEF Drop, Activate, Moves
      <4>10. CASE Undo(t)
        <5>1. CASE task' = [task EXCEPT ![t].at = "leave", ![t].owed = engine[Of[t]] = task[t].was]
          BY <5>1, UndoEndsMoves
        <5>2. CASE At(t, IF task[t].was # None /\ Known(task[t].was) THEN "regate" ELSE "leave")
          BY <5>2, AtMoves DEF Moves
        <5> QED BY <4>10, <5>1, <5>2 DEF Undo
      <4> QED
        BY <2>5, <4>1, <4>2, <4>3, <4>4, <4>5, <4>6, <4>7, <4>8, <4>9, <4>10 DEF Other
    <3> QED BY <2>5, <3>1 DEF InstallQuiet
  <2> QED BY <2>2, <2>3, <2>4, <2>5
<1>5. ActiveQuiet'
  <2>1. ASSUME NEW v \in Version, disk[v] # "absent", Stays(v), installed'.active = v PROVE ActiveQuiet'
    <3>1. disk'[v] # "absent"
      BY <1>1, <2>1 DEF TypeInv
    <3> QED BY <2>1, <3>1, OtherStays DEF ActiveQuiet
  <2>2. CASE installed'.active = installed.active /\ overtaken' = overtaken
    <3>1. installed.active \notin {None, overtaken} => installed.active \in Version /\ disk[installed.active] # "absent" /\ Stays(installed.active)
      BY DEF Quiet, ActiveQuiet, TypeInv, Maybe
    <3> QED BY <2>1, <2>2, <3>1 DEF ActiveQuiet
  <2>3. CASE Choose(t)
    <3>1. PICK v \in Maybe : v = task[t].cand
      BY DEF TypeInv, Locals
    <3>2. CASE Foreign(Of[t])
      <4>1. installed'.active = v /\ json = Nobody
            /\ overtaken' = IF v \in installed.versions /\ disk[v] # "absent" THEN None ELSE v
        BY <2>3, <3>1, <3>2 DEF Choose, TypeInv
      <4>2. CASE v \in installed.versions /\ disk[v] # "absent"
        <5>1. v \in Version
          BY <4>2 DEF TypeInv
        <5> QED BY <2>1, <4>1, <4>2, <5>1 DEF Stays, Recorded
      <4>3. CASE ~(v \in installed.versions /\ disk[v] # "absent")
        BY <4>1, <4>3 DEF ActiveQuiet
      <4> QED BY <4>2, <4>3
    <3>3. CASE ~Foreign(Of[t])
      BY <2>2, <2>3, <3>3 DEF Choose
    <3> QED BY <3>2, <3>3
  <2>4. CASE Commit(t)
    <3>1. (installed'.active = installed.active /\ overtaken' = overtaken) \/ installed'.active = Newest[Of[t]]
      BY <2>4 DEF Commit, TypeInv
    <3>2. disk[Newest[Of[t]]] = "whole" /\ Stays(Newest[Of[t]])
      BY <2>4 DEF Quiet, InstallQuiet, Commit, Stays, BeingRecorded
    <3> QED BY <1>0, <2>1, <2>2, <3>1, <3>2
  <2>5. CASE Activate(t)
    <3>1. installed'.active = task[t].cand \/ (installed'.active = installed.active /\ overtaken' = overtaken)
      BY <2>5 DEF Activate, TypeInv
    <3>2. PICK v \in Version : v = task[t].cand /\ engine[Of[t]] = v /\ v # None
      BY <1>0, <2>5, ModelsAssumption DEF EngineOf, Activate, TypeInv, Maybe
    <3>3. lease[Of[t]] = v /\ disk[v] = "whole"
      BY <1>0, <3>2 DEF EngineInv, LoadedStaysOnDisk
    <3>4. Stays(v)
      BY <1>0, <3>3 DEF Quiet, LeaseQuiet, InUse
    <3> QED BY <2>1, <2>2, <3>1, <3>2, <3>3, <3>4
  <2>6. CASE UNCHANGED <<installed, overtaken>>
    BY <2>2, <2>6
  <2> QED
    BY <2>3, <2>4, <2>5, <2>6 DEF Other, Begin, TakeDownload, Check, Install, PrepareFails, LockEngine, LoadGate,
       LoadBuild, BeginSwitch, Drop, Undo, Leave
<1> QED BY <1>2, <1>3, <1>4, <1>5 DEF Quiet

LEMMA QuietStep == IInv /\ TypeInv' /\ [ModelsNext]_modelVars => QuietInv'
<1> SUFFICES ASSUME IInv, TypeInv', [ModelsNext]_modelVars, faults' + damages' = 0 PROVE Quiet'
  BY DEF QuietInv
<1>0. TypeInv /\ EngineInv /\ CleanInv /\ DownloadInv /\ Nobody \notin Task /\ faults' = 0 /\ damages' = 0
      /\ faults \in Nat /\ damages \in Nat
  <2>1. faults' \in Nat /\ damages' \in Nat /\ faults \in Nat /\ damages \in Nat
    BY DEF IInv, TypeInv
  <2>2. ASSUME NEW a \in Nat, NEW b \in Nat, a + b = 0 PROVE a = 0 /\ b = 0
    BY <2>2
  <2>3. faults' = 0 /\ damages' = 0
    BY <2>1, <2>2
  <2> QED BY <2>1, <2>3, ModelsAssumption DEF IInv
<1>00. faults = 0 /\ damages = 0 => Quiet
  BY DEF IInv, QuietInv
<1>1. ASSUME NEW t \in Task, Other(t) PROVE Quiet'
  <2>1. faults = 0 /\ damages = 0
    BY <1>0, <1>1, OtherVersions
  <2> QED BY <1>0, <1>00, <1>1, <2>1, QuietOther
\* Steps that keep leases and the active version, and no task comes to install.
<1>2. ASSUME NEW t \in Task, Quiet, UNCHANGED <<lease, overtaken>>, installed'.active = installed.active,
             installed'.versions \subseteq installed.versions,
             \A v \in Version : \/ (Recorded(v)' <=> Recorded(v)) /\ disk'[v] = disk[v]
                               \/ /\ ~InUse(v) /\ Recorded(v) /\ ~Recorded(v)' /\ disk'[v] = "absent"
                                  /\ v # installed.active,
             \A u \in Task : task'[u].at \in {"install", "commit"} <=> task[u].at \in {"install", "commit"},
             \A u \in Task : task'[u].at = "commit" <=> task[u].at = "commit"
      PROVE  Quiet'
  <2>1. ASSUME NEW v \in Version PROVE BeingRecorded(v)' <=> BeingRecorded(v)
    BY <1>2 DEF BeingRecorded
  <2>2. ASSUME NEW v \in Version PROVE FilesQuiet(v)' /\ LeaseQuiet(v)'
    <3>1. FilesQuiet(v) /\ LeaseQuiet(v) /\ (InUse(v)' <=> InUse(v))
      BY <1>2 DEF Quiet, InUse
    <3>2. CASE (Recorded(v)' <=> Recorded(v)) /\ disk'[v] = disk[v]
      BY <1>2, <2>1, <3>1, <3>2 DEF FilesQuiet, LeaseQuiet, Stays
    <3>3. CASE ~InUse(v) /\ Recorded(v) /\ ~Recorded(v)' /\ disk'[v] = "absent" /\ v # installed.active
      BY <3>1, <3>3 DEF FilesQuiet, LeaseQuiet
    <3> QED BY <1>2, <3>2, <3>3
  <2>3. ASSUME NEW u \in Task PROVE InstallQuiet(u)'
    <3>1. InstallQuiet(u) /\ Newest[Of[u]] \in Version
      BY <1>2, NewestIs DEF Quiet
    <3> QED BY <1>2, <3>1 DEF InstallQuiet
  <2>4. ActiveQuiet'
    <3>1. installed.active \notin {None, overtaken} => installed.active \in Version
      BY <1>0 DEF TypeInv, Maybe
    <3>2. ASSUME NEW v \in Version, v = installed.active, v \notin {None, overtaken} PROVE disk'[v] # "absent" /\ Stays(v)'
      BY <1>2, <2>1, <3>2 DEF Quiet, ActiveQuiet, Stays
    <3> QED BY <1>2, <3>1, <3>2 DEF ActiveQuiet
  <2> QED BY <2>2, <2>3, <2>4 DEF Quiet
<1>3. ASSUME NEW t \in Task, BeginClean(t) PROVE Quiet'
  <2>1. Quiet /\ UNCHANGED <<lease, overtaken, installed, disk>> /\ task[t].at = "json"
    BY <1>0, <1>00, <1>3 DEF BeginClean
  <2>2. \A u \in Task : task'[u].at = task[u].at \/ (u = t /\ task'[u].at = "sweep")
    BY <1>0, <1>3, BeginCleanMoves DEF Alone
  <2>3. \A v \in Version : Recorded(v)' <=> Recorded(v)
    BY <1>0, <1>3, BeginCleanRecords
  <2> QED BY <1>2, <2>1, <2>2, <2>3
<1>4. ASSUME NEW t \in Task, Sweep(t) PROVE Quiet'
  <2>1. PICK s \in Version : Sweeps(t, s)
    BY <1>0, <1>4, SweepMoves
  <2>2. Quiet /\ UNCHANGED <<lease, overtaken, installed>> /\ \A u \in Task : task'[u].at = task[u].at
    BY <1>0, <1>00, <1>4, <2>1 DEF Sweep, Sweeps
  <2>3. \A v \in Version : \/ (Recorded(v)' <=> Recorded(v)) /\ disk'[v] = disk[v]
                           \/ /\ ~InUse(v) /\ Recorded(v) /\ ~Recorded(v)' /\ disk'[v] = "absent"
                              /\ v # installed.active
    BY <1>0, <1>4, <2>1, SweepRecords
  <2> QED BY <1>2, <1>4, <2>2, <2>3
<1>5. ASSUME NEW t \in Task, EndClean(t) PROVE Quiet'
  <2>1. Quiet /\ UNCHANGED <<lease, overtaken, disk>> /\ task[t].at = "sweep" /\ Rests(t)
    BY <1>0, <1>00, <1>5, EndRests DEF EndClean
  <2>2. \A u \in Task : task'[u].at = task[u].at \/ (u = t /\ task'[u].at = "idle")
    BY <2>1, RestingIs DEF Rests, Alone
  <2>3. installed'.active = installed.active /\ installed'.versions = task[t].known
    BY <1>0, <1>5 DEF EndClean, TypeInv
  <2>4. task[t].known \subseteq installed.versions
    BY <1>0, <2>1 DEF CleanInv
  <2>5. \A v \in Version : Recorded(v)' <=> Recorded(v)
    BY <1>0, <1>5, EndCleanRecords
  <2> QED BY <1>2, <2>1, <2>2, <2>3, <2>4, <2>5
<1>6. ASSUME NEW p \in Process, Die(p) PROVE Quiet'
  BY <1>0, <1>6, DieIs
<1>7. CASE Damage
  BY <1>0, <1>7 DEF Damage
<1>8. CASE UNCHANGED modelVars
  BY <1>0, <1>00, <1>8 DEF modelVars, Quiet, FilesQuiet, LeaseQuiet, InstallQuiet, ActiveQuiet, Stays, Recorded, BeingRecorded, InUse
<1> QED BY <1>1, <1>3, <1>4, <1>5, <1>6, <1>7, <1>8, StepIs, <1>0

-----------------------------------------------------------------------------
LEMMA InvStep == IInv /\ [ModelsNext]_modelVars => IInv'
BY TypeStep, EngineStep, CleanStep, SwitchStep, DownloadStep, QuietStep DEF IInv

THEOREM InvCorrect == ModelsSpec => []IInv
BY InitIInv, InvStep, PTL DEF ModelsSpec

(* Locks and locals are what the code takes them for.                         *)
THEOREM ModelsTypeCorrect == ModelsSpec => []ModelsTypeOK
<1>1. IInv => ModelsTypeOK
  BY DEF IInv, TypeInv, ModelsTypeOK, Maybe, Locals
<1> QED BY <1>1, InvCorrect, PTL

(* No version that is loaded or active loses its files to a clean or an       *)
(* installation of any process, and no process its voice to a failed switch,  *)
(* whatever number of processes, tasks and versions there are.                *)
THEOREM VoiceStaysCorrect == ModelsSpec => []VoiceStays
<1>1. IInv => LoadedStaysOnDisk
  BY DEF IInv, EngineInv
<1>2. IInv => ActiveStaysOnDisk
  BY DEF IInv, QuietInv, Quiet, ActiveQuiet, Stays, Recorded, ActiveStaysOnDisk
<1>3. IInv => SwitchKeepsVoice
  BY DEF IInv, SwitchInv, SwitchOf, SwitchKeepsVoice
<1>4. IInv => VoiceStays
  BY <1>1, <1>2, <1>3 DEF VoiceStays
<1> QED BY <1>4, InvCorrect, PTL
=============================================================================
