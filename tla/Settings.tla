------------------------------ MODULE Settings -------------------------------
(* The settings of runtime/config.py: three files, read field by field and    *)
(* only as far as needed, and changed under locks by several processes, while *)
(* their user edits the .env file or adds the file of the project.            *)
(*                                                                            *)
(* Fields are connection fields and model names, whose blank values are       *)
(* looked for further on; a value is the number of the change that made it.   *)
EXTENDS Naturals

CONSTANTS Field, Writer, Reader,
          MaxUpdates,  \* bound on changes by commands and dialogs
          MaxByHand    \* bound on what the user does to the files

VARIABLES
  files,    \* local (config.json of the project), env, global
  locks,    \* the writers' locks of local and global
  update,   \* each update_config: place, paths to lock, what it read, what it wants
  reading,     \* each use of settings(): the layers it has read, what it found
  changes,  \* number of values that were made, by the user too
  byHand,   \* number of interventions of the user
  meant,    \* history: the files if each update had changed its own fields only
  latest,   \* history: the last value an update gave to a field
  seen,     \* history: the effective values that were valid at some time
  excused   \* history: what the user's hand crossed

settingVars == <<files, locks, update, reading, changes, byHand, meant, latest, seen, excused>>

None == 0
Blank == [f \in Field |-> None]
Layer == {"local", "env", "global"}
NoFile == [there |-> FALSE, has |-> Blank]
Having(values) == [there |-> TRUE, has |-> values]
Nobody == "nobody"

ASSUME SettingsAssumption ==
  /\ {MaxUpdates, MaxByHand} \subseteq Nat
  /\ Nobody \notin Writer

Unread == [local |-> FALSE, env |-> FALSE, global |-> FALSE]

\* The first layer that has something to say.
Effective(layers, f) ==
  IF layers.local.has[f] # None THEN layers.local.has[f]
  ELSE IF layers.env.has[f] # None THEN layers.env.has[f] ELSE layers.global.has[f]
Effects(layers) == [f \in Field |-> Effective(layers, f)]

\* config_file: an existing local file, else the global one.
Target(there) == IF there.local.there THEN "local" ELSE "global"

Quiet == [at |-> "off", paths |-> {}, target |-> "global", raw |-> Blank,
          layers |-> [l \in Layer |-> NoFile], early |-> FALSE, wants |-> Blank]
Asleep == [at |-> "off", read |-> Unread, layers |-> [l \in Layer |-> NoFile], got |-> Blank, found |-> {}, crossed |-> FALSE]

SettingsInit ==
  /\ \E l, e, g \in {NoFile, Having([f \in Field |-> 1])} \cup {Having([Blank EXCEPT ![f] = 1]) : f \in Field} :
       files = [local |-> l, env |-> e, global |-> g]
  /\ locks = [p \in {"local", "global"} |-> Nobody]
  /\ update = [w \in Writer |-> Quiet] /\ reading = [r \in Reader |-> Asleep]
  /\ changes = 1 /\ byHand = 0
  /\ meant = files /\ latest = Blank /\ seen = {Effects(files)}
  /\ excused = [fields |-> {}, locks |-> FALSE]

-----------------------------------------------------------------------------
(* update_config.                                                             *)

\* Which locks it will take is decided before it has any.
Plan(w) ==
  /\ update[w].at = "off" /\ changes - byHand < MaxUpdates
  /\ update' = [update EXCEPT ![w] = [Quiet EXCEPT !.at = "lock",
                  !.paths = {p \in {"local", "global"} : files[p].there} \cup {Target(files)}]]
  /\ UNCHANGED <<files, locks, reading, changes, byHand, meant, latest, seen, excused>>

\* One after the other, in their order.
TakeNext(w) ==
  LET p == IF "local" \in update[w].paths THEN "local" ELSE "global"
  IN  /\ update[w].at = "lock" /\ update[w].paths # {} /\ locks[p] = Nobody
      /\ locks' = [locks EXCEPT ![p] = w]
      /\ update' = [update EXCEPT ![w].paths = @ \ {p}]
      /\ UNCHANGED <<files, reading, changes, byHand, meant, latest, seen, excused>>

\* Mutant: the latest values are read before the locks are taken.
ReadBeforeLocks(w) ==
  /\ update[w].at = "lock" /\ \A p \in update[w].paths : files[p].there \/ p = Target(files)
  /\ update' = [update EXCEPT ![w] = [@ EXCEPT !.at = "change", !.target = Target(files),
                                               !.raw = files[Target(files)].has, !.layers.local = files.local]]
  /\ UNCHANGED <<files, locks, reading, changes, byHand, meant, latest, seen, excused>>

\* The file to write, and before and after, of which only the local layer is read.
ReadLatest(w) ==
  /\ update[w].at = "lock" /\ update[w].paths = {}
  /\ update' = [update EXCEPT ![w] = [@ EXCEPT !.at = "change", !.target = Target(files),
                                               !.raw = files[Target(files)].has, !.layers.local = files.local]]
  /\ UNCHANGED <<files, locks, reading, changes, byHand, meant, latest, seen, excused>>

\* change(after): some fields get a new value; those that look at after first
\* read its lower layers.
Change(w) ==
  /\ update[w].at = "change" /\ changes - byHand < MaxUpdates /\ changes' = changes + 1
  /\ \E set \in (SUBSET Field) \ {{}}, looks \in BOOLEAN :
       update' = [update EXCEPT ![w] = [@ EXCEPT !.at = "persist", !.early = looks,
                    !.layers = IF looks THEN [files EXCEPT !.local = update[w].layers.local]
                              ELSE update[w].layers,
                    !.wants = [f \in Field |-> IF f \in set THEN changes + 1 ELSE None]]]
  /\ UNCHANGED <<files, locks, reading, byHand, meant, latest, seen, excused>>

\* Or it refuses what it finds, or its process dies.
Refuse(w) ==
  /\ update[w].at = "change" /\ update' = [update EXCEPT ![w].at = "off"]
  /\ locks' = [p \in DOMAIN locks |-> IF locks[p] = w THEN Nobody ELSE locks[p]]
  /\ UNCHANGED <<files, reading, changes, byHand, meant, latest, seen, excused>>

\* _persist_changes: what differs between before and after, into the layer
\* that is written; the lower layers of before are read only now.
Persist(w) ==
  LET u == update[w]
      before == [files EXCEPT !.local = u.layers.local]
      after == IF u.early THEN u.layers ELSE before
      was(f) == Effective(before, f)
      is(f) == IF u.wants[f] # None THEN u.wants[f] ELSE Effective(after, f)
      new == [f \in Field |-> IF is(f) # was(f) THEN is(f) ELSE u.raw[f]]
      own == [f \in Field |-> IF u.wants[f] # None THEN u.wants[f] ELSE meant[u.target].has[f]]
  IN  /\ u.at = "persist" /\ update' = [update EXCEPT ![w] = Quiet]
      /\ files' = [files EXCEPT ![u.target] = Having(new)]
      /\ meant' = [meant EXCEPT ![u.target] = Having(own)]
      /\ latest' = [f \in Field |-> IF u.wants[f] # None THEN u.wants[f] ELSE latest[f]]
      /\ seen' = seen \cup {Effects(files')}
      /\ locks' = [p \in DOMAIN locks |-> IF locks[p] = w THEN Nobody ELSE locks[p]]
      /\ UNCHANGED <<reading, changes, byHand, excused>>

-----------------------------------------------------------------------------
(* settings(): the local file at once, the others when a field needs them.    *)
Open(r) ==
  /\ reading[r].at = "off"
  /\ reading' = [reading EXCEPT ![r] = [Asleep EXCEPT !.at = "open", !.read.local = TRUE, !.layers.local = files.local]]
  /\ UNCHANGED <<files, locks, update, changes, byHand, meant, latest, seen, excused>>

\* The layer that the search for f comes to next.
NextLayer(s, f) ==
  IF s.layers.local.has[f] # None THEN "none"
  ELSE IF ~s.read.env THEN "env"
  ELSE IF s.layers.env.has[f] = None /\ ~s.read.global THEN "global" ELSE "none"

Look(r) ==
  \E f \in Field \ reading[r].found :
    LET s == reading[r]
        layer == NextLayer(s, f)
    IN  /\ s.at = "open"
        /\ reading' = [reading EXCEPT ![r] =
             IF layer # "none"
             THEN [s EXCEPT !.read[layer] = TRUE, !.layers[layer] = files[layer]]
             ELSE [s EXCEPT !.got[f] = Effective(s.layers, f), !.found = s.found \cup {f}]]
        /\ UNCHANGED <<files, locks, update, changes, byHand, meant, latest, seen, excused>>

-----------------------------------------------------------------------------
(* The user.                                                                  *)
Crossed == [r \in Reader |-> [reading[r] EXCEPT !.crossed = @ \/ reading[r].at = "open"]]

EditEnv ==
  /\ byHand < MaxByHand /\ byHand' = byHand + 1 /\ changes' = changes + 1
  /\ \E f \in Field, v \in {None, changes + 1} :
       /\ files' = [files EXCEPT !.env = Having([@.has EXCEPT ![f] = v])]
       /\ excused' = [excused EXCEPT !.fields =
                        @ \cup IF \E w \in Writer : update[w].at = "persist" /\ update[w].early THEN {f} ELSE {}]
  /\ meant' = [meant EXCEPT !.env = files'.env] /\ seen' = seen \cup {Effects(files')} /\ reading' = Crossed
  /\ UNCHANGED <<locks, update, latest>>

AddLocal ==
  /\ byHand < MaxByHand /\ byHand' = byHand + 1 /\ ~files.local.there /\ changes' = changes + 1
  /\ \E f \in Field : files' = [files EXCEPT !.local = Having([Blank EXCEPT ![f] = changes + 1])]
  /\ meant' = [meant EXCEPT !.local = files'.local] /\ seen' = seen \cup {Effects(files')} /\ reading' = Crossed
  /\ latest' = Blank
  /\ excused' = [excused EXCEPT !.locks = @ \/ \E w \in Writer : update[w].at # "off"]
  /\ UNCHANGED <<locks, update>>

SettingsNext ==
  \/ \E w \in Writer : Plan(w) \/ TakeNext(w) \/ ReadLatest(w) \/ Change(w) \/ Refuse(w) \/ Persist(w)
  \/ \E r \in Reader : Open(r) \/ Look(r)
  \/ EditEnv \/ AddLocal

SettingsSpec == SettingsInit /\ [][SettingsNext]_settingVars

-----------------------------------------------------------------------------
(* Every update is in its file and has changed nothing but its own fields,    *)
(* whatever other processes update at the same time; unless the user edited   *)
(* the field in .env while it was compared, or added the project's file while *)
(* updates were under way.                                                    *)
UpdatesAreKept ==
  ~excused.locks => \A p \in Layer, f \in Field : files[p].has[f] = meant[p].has[f] \/ f \in excused.fields

(* What was set last is what is read from then on, unless .env has the field. *)
LatestCounts ==
  ~excused.locks => \A f \in Field \ excused.fields :
    latest[f] # None => Effective(files, f) = latest[f] \/ files.env.has[f] # None

(* What one snapshot tells was valid at one time, although it reads the files *)
(* at different times; unless the user changed them in between, or added the  *)
(* project's file while updates were under way.                               *)
SnapshotsAreOfOneTime ==
  ~excused.locks =>
    \A r \in Reader : reading[r].found = Field /\ ~reading[r].crossed => reading[r].got \in seen

SettingsAreKept == UpdatesAreKept /\ LatestCounts /\ SnapshotsAreOfOneTime
=============================================================================
