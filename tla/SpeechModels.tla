---------------------------- MODULE SpeechModels -----------------------------
(* The installed versions of one speech model (TTS/service.py): processes     *)
(* that share a model directory prepare, update, roll back, clean and use it. *)
(*                                                                            *)
(* A gate lock is held for one step only; the locks that are held across      *)
(* steps are variables.  Voices of an external package are left out.          *)
EXTENDS Naturals

CONSTANTS Version,      \* versions in the catalog of every process
          Process,
          Task,         \* tasks of the processes
          Of,           \* the process of a task
          Family,       \* versions of the backend that a process selected
          Newest,       \* the one of them that its catalog names first
          MaxOps,       \* bound on operations
          MaxFaults,    \* bound on failed downloads, loads and writes and deaths
          MaxDamages    \* bound on damage to files at rest

None == "none"
Nobody == "nobody"

ASSUME ModelsAssumption ==
  /\ None \notin Version /\ Nobody \notin Task
  /\ Of \in [Task -> Process] /\ Family \in [Process -> SUBSET Version]
  /\ \A p \in Process : Newest[p] \in Family[p]
  /\ {MaxOps, MaxFaults, MaxDamages} \subseteq Nat

VARIABLES
  installed,  \* installed.json: versions, active, previous
  disk,       \* the directory of each version
  engine,     \* version loaded by each process
  lease,      \* version for which a process holds a use lock
  busy,       \* holder of each process's engine.lock
  download,   \* holder of the download lock of each version
  update,     \* holder of the update lock
  json,       \* clean, while it holds the lock of installed.json
  overtaken,  \* history: the active version, if a clean removed it before that write
  task,       \* place and locals of each task
  ops, faults, damages \* counters

modelVars == <<installed, disk, engine, lease, busy, download, update, json, overtaken, task, ops, faults, damages>>

\* Its `foreign' is whether the active version was of another backend when it
\* began.  Its `owed' is not in the code: whether it still has to give back to its
\* process the version `was' that it took from it.  It does not when that has
\* lost its files or its record to a clean, or loading it again has failed.
Resting == [at |-> "idle", op |-> None, cand |-> None, prior |-> None, was |-> None,
            foreign |-> FALSE, owed |-> TRUE, left |-> {}, known |-> {}]
Places == {"idle", "download", "check", "choose", "install", "commit", "lock", "gate", "build", "switch",
           "drop", "activate", "undo", "regate", "rebuild", "json", "sweep", "leave"}

ModelsTypeOK ==
  /\ installed.versions \subseteq Version /\ {installed.active, installed.previous} \subseteq Version \cup {None}
  /\ disk \in [Version -> {"absent", "whole", "damaged"}]
  /\ engine \in [Process -> Version \cup {None}] /\ lease \in [Process -> Version \cup {None}]
  /\ busy \in [Process -> Task \cup {Nobody}] /\ download \in [Version -> Task \cup {Nobody}]
  /\ {update, json} \subseteq Task \cup {Nobody} /\ overtaken \in Version \cup {None}
  /\ \A t \in Task : task[t].at \in Places

\* Nothing yet, or what an earlier release of the application installed.
ModelsInit ==
  /\ \E v \in Version \cup {None} :
       /\ installed = [versions |-> {v} \ {None}, active |-> v, previous |-> None]
       /\ disk = [w \in Version |-> IF w = v THEN "whole" ELSE "absent"]
  /\ engine = [p \in Process |-> None] /\ lease = [p \in Process |-> None]
  /\ busy = [p \in Process |-> Nobody] /\ download = [v \in Version |-> Nobody]
  /\ update = Nobody /\ json = Nobody /\ overtaken = None
  /\ task = [t \in Task |-> Resting]
  /\ ops = 0 /\ faults = 0 /\ damages = 0

At(t, place) == task' = [task EXCEPT ![t].at = place]
Fault == faults < MaxFaults /\ faults' = faults + 1
Known(v) == v \in installed.versions /\ disk[v] = "whole"
InUse(v) == \E p \in Process : lease[p] = v
\* It has a record that a clean under way will not drop.
Recorded(v) == v \in installed.versions /\ (json # Nobody => v \in task[json].known)

\* The active version is of a backend that the process did not select.
Foreign(p) == installed.active \in Version \ Family[p]

\* _usable: the active version if the process may use it, or another one.
Usable(p) ==
  LET own == {v \in Family[p] : Known(v)} IN
  IF installed.active \in own THEN installed.active
  ELSE IF Newest[p] \in own THEN Newest[p]
  ELSE IF own = {} THEN None ELSE CHOOSE v \in own : TRUE

\* An operation ends, well or not, and gives back what it holds.
End(t) ==
  /\ task' = [task EXCEPT ![t] = Resting]
  /\ busy' = [p \in Process |-> IF busy[p] = t THEN Nobody ELSE busy[p]]
  /\ download' = [v \in Version |-> IF download[v] = t THEN Nobody ELSE download[v]]
  /\ update' = IF update = t THEN Nobody ELSE update

-----------------------------------------------------------------------------
(* prepare and update: _prepare_one and _install.                             *)

Begin(t) ==
  /\ task[t].at = "idle" /\ ops < MaxOps
  /\ ops' = ops + 1
  /\ \/ \E op \in {"prepare", "use", "clean"} :
          /\ task' = [task EXCEPT ![t] = [Resting EXCEPT !.op = op, !.foreign = op = "prepare" /\ Foreign(Of[t]),
                        !.at = CASE op = "prepare" -> "download" [] op = "use" -> "lock" [] OTHER -> "json"]]
          /\ UNCHANGED update
     \/ /\ update = Nobody
        /\ update' = t
        /\ task' = [task EXCEPT ![t] = [Resting EXCEPT !.op = "update", !.at = "download",
                                                       !.foreign = Foreign(Of[t])]]
     \/ /\ installed.previous \in Family[Of[t]] \ {installed.active}
        /\ task' = [task EXCEPT ![t] = [Resting EXCEPT !.op = "rollback", !.at = "switch",
                                                       !.cand = installed.previous]]
        /\ UNCHANGED update
  /\ UNCHANGED <<installed, disk, engine, lease, busy, download, json, overtaken, faults, damages>>

TakeDownload(t) ==
  LET v == Newest[Of[t]] IN
  /\ task[t].at = "download" /\ download[v] = Nobody
  /\ download' = [download EXCEPT ![v] = t]
  /\ At(t, "check")
  /\ UNCHANGED <<installed, disk, engine, lease, busy, update, json, overtaken, ops, faults, damages>>

\* Its own family's voice is prepared, or has now been: load it, or switch to it.
Prepared(t, v) ==
  /\ task' = [task EXCEPT ![t].cand = v, ![t].at = IF task[t].op = "update" THEN "switch" ELSE "lock"]
  /\ download' = [download EXCEPT ![Newest[Of[t]]] = Nobody]

\* A version that is there and whole is taken.  If the active one belonged to
\* another backend when the preparation began, it is to be active first.
Check(t) ==
  LET p == Of[t]
      found == IF task[t].op = "prepare" THEN Usable(p)
               ELSE IF Known(Newest[p]) THEN Newest[p] ELSE None
  IN
  /\ task[t].at = "check"
  /\ \/ found = None /\ At(t, "install") /\ UNCHANGED download
     \/ found # None /\ task[t].foreign /\ UNCHANGED download
        /\ task' = [task EXCEPT ![t].cand = found, ![t].at = "choose"]
     \/ found # None /\ ~task[t].foreign /\ Prepared(t, found)
  /\ UNCHANGED <<installed, disk, engine, lease, busy, update, json, overtaken, ops, faults, damages>>

\* Mutant: it becomes active beside a clean.
ChooseAtOnce(t) ==
  LET v == task[t].cand IN
  /\ task[t].at = "choose"
  /\ IF Foreign(Of[t])
     THEN /\ installed' = [installed EXCEPT !.active = v]
          /\ overtaken' = IF v \in installed.versions /\ disk[v] # "absent" THEN None ELSE v
     ELSE UNCHANGED <<installed, overtaken>>
  /\ Prepared(t, v)
  /\ UNCHANGED <<disk, engine, lease, busy, update, json, ops, faults, damages>>

\* The write waits for a clean to end, and looks at nothing but the active one.
Choose(t) ==
  LET v == task[t].cand IN
  /\ task[t].at = "choose" /\ json = Nobody
  /\ IF Foreign(Of[t])
     THEN /\ installed' = [installed EXCEPT !.active = v]
          /\ overtaken' = IF v \in installed.versions /\ disk[v] # "absent" THEN None ELSE v
     ELSE UNCHANGED <<installed, overtaken>>
  /\ Prepared(t, v)
  /\ UNCHANGED <<disk, engine, lease, busy, update, json, ops, faults, damages>>

\* The archive is fetched, checked and unpacked beside; its directory appears at
\* once.  A damaged one is replaced unless somebody may be using it.
Install(t) ==
  LET v == Newest[Of[t]] IN
  /\ task[t].at = "install"
  /\ disk[v] = "damaged" => json = Nobody
  /\ IF disk[v] = "damaged" /\ InUse(v)
     THEN End(t) /\ UNCHANGED disk
     ELSE /\ disk' = [disk EXCEPT ![v] = "whole"]
          /\ At(t, "commit")
          /\ UNCHANGED <<busy, download, update>>
  /\ UNCHANGED <<installed, engine, lease, json, overtaken, ops, faults, damages>>

Commit(t) ==
  LET p == Of[t]
      v == Newest[p]
      keep == installed.active \in Family[p] /\ Known(installed.active)
  IN
  /\ task[t].at = "commit" /\ json = Nobody
  /\ installed' = [installed EXCEPT !.versions = @ \cup {v}, !.active = IF keep THEN @ ELSE v]
  /\ overtaken' = IF keep THEN overtaken ELSE None
  /\ Prepared(t, v)
  /\ UNCHANGED <<disk, engine, lease, busy, update, json, ops, faults, damages>>

\* Mutant: a preparation that fails keeps its download lock.
PrepareFailsHolding(t) ==
  /\ task[t].at \in {"choose", "install", "commit"} /\ Fault
  /\ task' = [task EXCEPT ![t] = Resting]
  /\ update' = IF update = t THEN Nobody ELSE update
  /\ UNCHANGED <<installed, disk, engine, lease, busy, download, json, overtaken, ops, damages>>

PrepareFails(t) ==
  /\ task[t].at \in {"choose", "install", "commit"} /\ Fault
  /\ End(t)
  /\ UNCHANGED <<installed, disk, engine, lease, json, overtaken, ops, damages>>

-----------------------------------------------------------------------------
(* acquire and prewarming: _ensure_loaded under engine.lock.                  *)

LockEngine(t) ==
  LET p == Of[t]
      v == IF task[t].cand # None THEN task[t].cand ELSE Usable(p)
  IN
  /\ task[t].at = "lock" /\ busy[p] = Nobody
  /\ busy' = [busy EXCEPT ![p] = t]
  /\ task' = [task EXCEPT ![t].cand = v,
                          ![t].at = IF engine[p] # None \/ v = None THEN "leave" ELSE "gate"]
  /\ UNCHANGED <<installed, disk, engine, lease, download, update, json, overtaken, ops, faults, damages>>

\* Where a failed load leads: a switch is undone, anything else ends.
Failed(t) == CASE task[t].op \in {"update", "rollback"} /\ task[t].at \in {"gate", "build"} -> "undo"
               [] OTHER -> "leave"

\* _load_on_worker: under the gate lock, the version is there and is leased ...
LoadGate(t) ==
  LET p == Of[t] v == IF task[t].at = "gate" THEN task[t].cand ELSE task[t].was IN
  /\ task[t].at \in {"gate", "regate"}
  /\ IF v \in installed.versions
     THEN /\ lease' = [lease EXCEPT ![p] = v]
          /\ At(t, IF task[t].at = "gate" THEN "build" ELSE "rebuild")
     ELSE At(t, Failed(t)) /\ UNCHANGED lease
  /\ UNCHANGED <<installed, disk, engine, busy, download, update, json, overtaken, ops, faults, damages>>

Loaded(t) == IF task[t].at = "build" /\ task[t].op \in {"update", "rollback"} THEN "activate" ELSE "leave"

\* ... and then loaded and warmed up.
LoadBuild(t) ==
  LET p == Of[t] v == lease[p] IN
  /\ task[t].at \in {"build", "rebuild"}
  /\ \/ /\ disk[v] = "whole"
        /\ engine' = [engine EXCEPT ![p] = v]
        /\ At(t, Loaded(t))
        /\ UNCHANGED <<lease, faults>>
     \/ /\ IF disk[v] = "whole" THEN Fault ELSE UNCHANGED faults
        /\ lease' = [lease EXCEPT ![p] = None]
        /\ task' = [task EXCEPT ![t].at = Failed(t),
                                ![t].owed = @ /\ (disk[v] = "whole" => task[t].at = "build")]
        /\ UNCHANGED engine
  /\ UNCHANGED <<installed, disk, busy, download, update, json, overtaken, ops, damages>>

-----------------------------------------------------------------------------
(* _switch: the old engine goes first, the new one is active once it is loaded.*)

BeginSwitch(t) ==
  LET p == Of[t] c == task[t].cand IN
  /\ task[t].at = "switch" /\ busy[p] = Nobody
  /\ busy' = [busy EXCEPT ![p] = t]
  /\ task' = [task EXCEPT ![t].was = engine[p], ![t].owed = Recorded(engine[p]),
                          ![t].prior = IF engine[p] # None THEN engine[p] ELSE Usable(p),
                          ![t].at = IF (c = installed.active /\ c = engine[p]) \/ ~Known(c) THEN "leave" ELSE "drop"]
  /\ UNCHANGED <<installed, disk, engine, lease, download, update, json, overtaken, ops, faults, damages>>

Drop(t) ==
  /\ task[t].at = "drop"
  /\ engine' = [engine EXCEPT ![Of[t]] = None]
  /\ lease' = [lease EXCEPT ![Of[t]] = None]
  /\ At(t, "gate")
  /\ UNCHANGED <<installed, disk, busy, download, update, json, overtaken, ops, faults, damages>>

Activate(t) ==
  /\ task[t].at = "activate" /\ json = Nobody
  /\ \/ /\ installed' = [installed EXCEPT !.active = task[t].cand,
                                          !.previous = IF task[t].prior \in {None, task[t].cand} THEN @ ELSE task[t].prior]
        /\ overtaken' = None
        /\ At(t, "leave")
        /\ UNCHANGED faults
     \/ /\ Fault
        /\ At(t, "undo")
        /\ UNCHANGED <<installed, overtaken>>
  /\ UNCHANGED <<disk, engine, lease, busy, download, update, json, ops, damages>>

Undo(t) ==
  LET p == Of[t] was == task[t].was IN
  /\ task[t].at = "undo"
  /\ IF engine[p] # was /\ installed.active # task[t].cand
     THEN /\ engine' = [engine EXCEPT ![p] = None]
          /\ lease' = [lease EXCEPT ![p] = None]
          /\ At(t, IF was # None /\ Known(was) THEN "regate" ELSE "leave")
     ELSE task' = [task EXCEPT ![t].at = "leave", ![t].owed = engine[p] = was] /\ UNCHANGED <<engine, lease>>
  /\ UNCHANGED <<installed, disk, busy, download, update, json, overtaken, ops, faults, damages>>

Leave(t) ==
  /\ task[t].at = "leave"
  /\ End(t)
  /\ UNCHANGED <<installed, disk, engine, lease, json, overtaken, ops, faults, damages>>

-----------------------------------------------------------------------------
(* _clean_sync, under the lock of installed.json; it gives way to an update.  *)

BeginClean(t) ==
  /\ task[t].at = "json" /\ json = Nobody
  /\ json' = t
  /\ task' = [task EXCEPT ![t].at = "sweep", ![t].known = installed.versions,
                          ![t].left = IF update # Nobody THEN {}
                                      ELSE installed.versions \ {installed.active, installed.previous}]
  /\ update' = IF update # Nobody THEN update ELSE t
  /\ UNCHANGED <<installed, disk, engine, lease, busy, download, overtaken, ops, faults, damages>>

Sweep(t) ==
  /\ task[t].at = "sweep"
  /\ \E v \in task[t].left :
       LET gone == ~InUse(v) /\ disk[v] # "absent" IN
       /\ disk' = IF gone THEN [disk EXCEPT ![v] = "absent"] ELSE disk
       /\ task' = [u \in Task |->
                     IF u = t THEN [task[t] EXCEPT !.left = @ \ {v}, !.known = IF gone THEN @ \ {v} ELSE @]
                     ELSE [task[u] EXCEPT !.owed = @ /\ (gone => task[u].was # v)]]
  /\ UNCHANGED <<installed, engine, lease, busy, download, update, json, overtaken, ops, faults, damages>>

EndClean(t) ==
  /\ task[t].at = "sweep" /\ task[t].left = {}
  /\ installed' = [installed EXCEPT !.versions = task[t].known]
  /\ json' = Nobody
  /\ End(t)
  /\ UNCHANGED <<disk, engine, lease, overtaken, ops, faults, damages>>

-----------------------------------------------------------------------------
Die(p) ==
  LET mine == {t \in Task : Of[t] = p} IN
  /\ \E t \in mine : task[t].at # "idle"
  /\ Fault
  /\ task' = [t \in Task |-> IF t \in mine THEN Resting ELSE task[t]]
  /\ engine' = [engine EXCEPT ![p] = None] /\ lease' = [lease EXCEPT ![p] = None]
  /\ busy' = [busy EXCEPT ![p] = Nobody]
  /\ download' = [v \in Version |-> IF download[v] \in mine THEN Nobody ELSE download[v]]
  /\ update' = IF update \in mine THEN Nobody ELSE update
  /\ json' = IF json \in mine THEN Nobody ELSE json
  /\ UNCHANGED <<installed, disk, overtaken, ops, damages>>

\* Files that nobody uses are damaged by something else.
Damage ==
  /\ damages < MaxDamages /\ damages' = damages + 1
  /\ \E v \in Version : disk[v] = "whole" /\ ~InUse(v) /\ disk' = [disk EXCEPT ![v] = "damaged"]
  /\ UNCHANGED <<installed, engine, lease, busy, download, update, json, task, overtaken, ops, faults>>

Step(t) ==
  \/ TakeDownload(t) \/ Check(t) \/ Choose(t) \/ Install(t) \/ Commit(t) \/ LockEngine(t) \/ LoadGate(t) \/ LoadBuild(t)
  \/ BeginSwitch(t) \/ Drop(t) \/ Activate(t) \/ Undo(t) \/ Leave(t)
  \/ BeginClean(t) \/ Sweep(t) \/ EndClean(t)

ModelsNext ==
  \/ \E t \in Task : Begin(t) \/ Step(t) \/ PrepareFails(t)
  \/ \E p \in Process : Die(p)
  \/ Damage

ModelsSpec == ModelsInit /\ [][ModelsNext]_modelVars

-----------------------------------------------------------------------------
(* The files of a loaded model are there as long as it is loaded, whatever    *)
(* other processes clean, replace or switch to.                               *)
LoadedStaysOnDisk ==
  \A p \in Process : engine[p] # None => lease[p] = engine[p] /\ disk[engine[p]] = "whole"

(* The active version stays on disk: a clean that read another state, or runs *)
(* beside an installation or a switch, does not remove it.                    *)
ActiveOnDisk ==
  installed.active # None => installed.active \in installed.versions /\ disk[installed.active] # "absent"

(* Its installation is about to record it. *)
BeingRecorded(v) == \E t \in Task : task[t].at = "commit" /\ Newest[Of[t]] = v

(* That, as long as no file was damaged and no clean died between removing    *)
(* files and saving so: then an installation may replace files that are still *)
(* recorded, and a clean remove them again before they are active.  A version *)
(* whose record a clean dropped may be loaded, and become active, once an     *)
(* installation has brought its files back and before it has recorded them.   *)
(* And as long as it was not removed between the check that found it whole    *)
(* and the write that made it active, which waits for a clean (README, 6).    *)
ActiveStaysOnDisk ==
  faults + damages = 0 /\ installed.active \notin {None, overtaken} =>
    /\ disk[installed.active] # "absent"
    /\ installed.active \in installed.versions \/ BeingRecorded(installed.active)

(* A switch that failed once restored what the process had loaded.            *)
SwitchRestores ==
  \A t \in Task :
    /\ task[t].at = "leave" /\ task[t].was # None
    /\ faults <= 1 /\ damages = 0
    => engine[Of[t]] # None

(* A switch that failed, however often, restored what the process had loaded, *)
(* unless that, which need not be one of the versions that are kept, was      *)
(* cleaned meanwhile, loading it again failed too, or the candidate was found *)
(* active: another process may have switched to it, or its installation made  *)
(* it active; a failed load then counts as a switch that got that far.        *)
SwitchKeepsVoice ==
  damages = 0 =>
    \A t \in Task : task[t].at = "leave" /\ task[t].was # None /\ task[t].owed => engine[Of[t]] # None

(* No version that is loaded or active loses its files to a clean or an       *)
(* installation of any process, and no process its voice to a failed switch.  *)
VoiceStays == LoadedStaysOnDisk /\ ActiveStaysOnDisk /\ SwitchKeepsVoice

(* The locks of engines, downloads, updates and installed.json never wait for *)
(* each other in a circle: while an operation is open, some operation can go  *)
(* on, whatever failed or died before.                                        *)
SomeOperationGoesOn ==
  (\E t \in Task : task[t].at # "idle") => ENABLED (\E t \in Task : Step(t))
=============================================================================
