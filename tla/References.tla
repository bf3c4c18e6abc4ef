----------------------------- MODULE References ------------------------------
(* Reference files (tools/references.py): copied by their digest, entered in  *)
(* a manifest, read into parts once, shown to the model, and linked from the  *)
(* records of a session instead of their bytes, by jobs of several processes  *)
(* that share one directory, may be cancelled at any await and may die.       *)
(*                                                                            *)
(* A content is what two reads of a file saw; its digest is the content       *)
(* itself.  Everything read from the same bytes shares a directory, whatever  *)
(* its name and media type; page images stand for all files a reader writes.  *)
EXTENDS Naturals, FiniteSets

CONSTANTS Job,        \* uses of a reference, each in a process of its own
          Key,        \* media types a file is read as
          MaxWrites,  \* bound on changes of the file by its user
          MaxCalls,   \* bound on uses
          MaxStops    \* bound on failures, cancellations and deaths

VARIABLES
  original,   \* version of the user's file
  blobs,      \* per digest: source.*, source.bin, lock files, page images, parts-*.json
  manifests,  \* per reference: missing, captured, or with its parts
  builder,    \* who holds .build.lock of a digest
  keeper,     \* who holds the lock of a manifest
  use,        \* each use: place, what it read and as what, where it links
  messages,   \* what the records link
  overlaid,   \* history: digests whose images were written again for another key
  spent       \* counters of the bounds

referenceVars ==
  <<original, blobs, manifests, builder, keeper, use, messages, overlaid, spent>>

Version == 0..MaxWrites
Content == {c \in Version \X Version : c[1] <= c[2]}
Reference == Key \X Content
Nothing == <<>>
NoUse == "nobody"

ASSUME ReferenceAssumption ==
  /\ {MaxWrites, MaxCalls, MaxStops} \subseteq Nat
  /\ NoUse \notin Job

Resting == [at |-> "idle", key |-> "", content |-> <<0, 0>>, place |-> "", got |-> ""]

ReferenceInit ==
  /\ original = 0
  /\ blobs = [c \in Content |-> [source |-> Nothing, bin |-> Nothing, locks |-> {}, image |-> "none", parts |-> {}]]
  /\ manifests = [r \in Reference |-> "none"]
  /\ builder = [c \in Content |-> NoUse] /\ keeper = [r \in Reference |-> NoUse]
  /\ use = [t \in Job |-> Resting] /\ messages = {} /\ overlaid = {}
  /\ spent = [writes |-> 0, calls |-> 0, stops |-> 0]

\* Each step of a use leaves out what it does not touch.
Ref(t) == <<use[t].key, use[t].content>>
Blob(t) == blobs[use[t].content]
Goes(t, place) == use' = [use EXCEPT ![t].at = place]
Writes(t, file, value) == blobs' = [blobs EXCEPT ![use[t].content][file] = value]
Pay(what, limit) == spent[what] < limit /\ spent' = [spent EXCEPT ![what] = @ + 1]
\* What a use held; a file lock falls with its process.
Released(locks, t) == [l \in DOMAIN locks |-> IF locks[l] = t THEN NoUse ELSE locks[l]]

Edit ==
  /\ Pay("writes", MaxWrites) /\ original' = original + 1
  /\ UNCHANGED <<blobs, manifests, builder, keeper, use, messages, overlaid>>

\* A file, bytes (attachments, downloads), a reference that is known, or bytes
\* of a message that is recorded without one.
Use(t) ==
  /\ use[t].at \in {"idle", "done"} /\ Pay("calls", MaxCalls)
  /\ \E k \in Key, c \in Content :
       /\ \/ c = <<original, original>>
          \/ manifests[<<k, c>>] # "none"
       /\ \E place \in {"copy", "put", "link"} \cup IF manifests[<<k, c>>] # "none" THEN {"open"} ELSE {} :
            /\ place \in {"copy", "put"} => c = <<original, original>>
            /\ use' = [use EXCEPT ![t] = [Resting EXCEPT !.at = place, !.key = k, !.content = c]]
  /\ UNCHANGED <<original, blobs, manifests, builder, keeper, messages, overlaid>>

\* capture_file: the digest is of the bytes that were copied, and the file may
\* change under the copy.
Copy(t) ==
  /\ use[t].at = "copy"
  /\ use' = [use EXCEPT ![t].at = "put", ![t].content = <<@[1], original>>]
  /\ UNCHANGED <<original, blobs, manifests, builder, keeper, messages, overlaid, spent>>

\* _register_snapshot: under .build.lock, whole or not at all, and only once.
Put(t) ==
  /\ use[t].at = "put" /\ builder[use[t].content] = NoUse
  /\ Writes(t, "source", IF Blob(t).source = Nothing THEN use[t].content ELSE Blob(t).source)
  /\ Goes(t, "enter")
  /\ UNCHANGED <<original, manifests, builder, keeper, messages, overlaid, spent>>

\* Mutant: the manifest of a known reference is written again.
EnterAnew(t) ==
  /\ use[t].at = "enter" /\ keeper[Ref(t)] = NoUse
  /\ manifests' = [manifests EXCEPT ![Ref(t)] = "captured"]
  /\ Goes(t, "open")
  /\ UNCHANGED <<original, blobs, builder, keeper, messages, overlaid, spent>>

\* Its manifest, unless there is one, under the manifest's lock.
Enter(t) ==
  /\ use[t].at = "enter" /\ keeper[Ref(t)] = NoUse
  /\ manifests' = [manifests EXCEPT ![Ref(t)] = IF @ = "none" THEN "captured" ELSE @]
  /\ Goes(t, "open")
  /\ UNCHANGED <<original, blobs, builder, keeper, messages, overlaid, spent>>

\* parse: what was read once is read no more.
Parse(t) ==
  /\ use[t].at = "open" /\ keeper[Ref(t)] = NoUse
  /\ IF manifests[Ref(t)] = "parsed"
     THEN Goes(t, "prompt") /\ UNCHANGED keeper
     ELSE Goes(t, "build") /\ keeper' = [keeper EXCEPT ![Ref(t)] = t]
  /\ UNCHANGED <<original, blobs, manifests, builder, messages, overlaid, spent>>

\* With both locks; another reference to the same bytes may have left its parts.
Build(t) ==
  /\ use[t].at = "build" /\ builder[use[t].content] = NoUse
  /\ IF use[t].key \in Blob(t).parts
     THEN Goes(t, "keep") /\ UNCHANGED builder
     ELSE Goes(t, "convert") /\ builder' = [builder EXCEPT ![use[t].content] = t]
  /\ UNCHANGED <<original, blobs, manifests, keeper, messages, overlaid, spent>>

\* An old Office document is converted first, in a process and a profile of
\* their own, which a cancellation ends and removes.
Convert(t) ==
  /\ use[t].at = "convert"
  /\ Goes(t, "render") /\ Writes(t, "image", "torn")
  /\ overlaid' = IF Blob(t).parts = {} THEN overlaid ELSE overlaid \cup {use[t].content}
  /\ UNCHANGED <<original, manifests, builder, keeper, messages, spent>>

\* DocumentReader in its thread, or the media itself: files next to the
\* source, written in place.
Render(t) ==
  /\ use[t].at = "render" /\ Goes(t, "publish") /\ Writes(t, "image", "whole")
  /\ UNCHANGED <<original, manifests, builder, keeper, messages, overlaid, spent>>

Publish(t) ==
  /\ use[t].at = "publish" /\ Goes(t, "keep")
  /\ Writes(t, "parts", Blob(t).parts \cup {use[t].key})
  /\ builder' = [builder EXCEPT ![use[t].content] = NoUse]
  /\ UNCHANGED <<original, manifests, keeper, messages, overlaid, spent>>

Keep(t) ==
  /\ use[t].at = "keep" /\ Goes(t, "prompt")
  /\ manifests' = [manifests EXCEPT ![Ref(t)] = "parsed"]
  /\ keeper' = [keeper EXCEPT ![Ref(t)] = NoUse]
  /\ UNCHANGED <<original, blobs, builder, messages, overlaid, spent>>

\* to_prompt reads the files of the parts, with no lock.
Prompt(t) ==
  /\ use[t].at = "prompt"
  /\ use' = [use EXCEPT ![t].at = "store", ![t].got = Blob(t).image]
  /\ UNCHANGED <<original, blobs, manifests, builder, keeper, messages, overlaid, spent>>

\* reference_message_data, for a part: the file its manifest names, and the
\* digest of the bytes in the message.
Store(t) ==
  /\ use[t].at = "store" /\ Goes(t, "done")
  /\ messages' = messages \cup {[content |-> use[t].content, place |-> "image", got |-> use[t].got]}
  /\ UNCHANGED <<original, blobs, manifests, builder, keeper, overlaid, spent>>

\* For other bytes: whichever source.* the directory lists first, a lock file
\* of an earlier link among them, or source.bin.
Listed(b) == {f \in {"source", "bin"} : b[f] # Nothing} \cup b.locks
Lock == [source |-> "source.lock", bin |-> "bin.lock"]

PickLink(t) ==
  /\ use[t].at = "link"
  /\ \E f \in IF Listed(Blob(t)) = {} THEN {"bin"} ELSE Listed(Blob(t)) :
       /\ use' = [use EXCEPT ![t].at = "linking", ![t].place = f]
       /\ IF f \in DOMAIN Lock THEN Writes(t, "locks", Blob(t).locks \cup {Lock[f]}) ELSE UNCHANGED blobs
  /\ UNCHANGED <<original, manifests, builder, keeper, messages, overlaid, spent>>

\* Under that lock; its file stays or goes with the system.
Link(t) ==
  LET f == use[t].place
      filled == IF f = "bin" /\ Blob(t).bin = Nothing THEN [Blob(t) EXCEPT !.bin = use[t].content] ELSE Blob(t)
      others == \E u \in Job \ {t} : use[u].at = "linking" /\ use[u].content = use[t].content /\ use[u].place = f
  IN  /\ use[t].at = "linking" /\ Goes(t, "done")
      /\ \E gone \in IF f \in DOMAIN Lock /\ ~others THEN {{}, {Lock[f]}} ELSE {{}} :
           blobs' = [blobs EXCEPT ![use[t].content] = [filled EXCEPT !.locks = filled.locks \ gone]]
      /\ messages' = messages \cup {[content |-> use[t].content, place |-> f, got |-> "whole"]}
      /\ UNCHANGED <<original, manifests, builder, keeper, overlaid, spent>>

\* It fails, or is cancelled; a thread at work is waited for first, unless it
\* fails itself or the process dies.  What it had written stays.
GiveUp(t) ==
  /\ use[t].at \notin {"idle", "done"} /\ Pay("stops", MaxStops)
  /\ Goes(t, "done") /\ builder' = Released(builder, t) /\ keeper' = Released(keeper, t)
  /\ UNCHANGED <<original, blobs, manifests, messages, overlaid>>

ReferenceNext ==
  \/ Edit
  \/ \E t \in Job : \/ Use(t) \/ Copy(t) \/ Put(t) \/ Enter(t) \/ Parse(t) \/ Build(t) \/ Convert(t) \/ Render(t)
                    \/ Publish(t) \/ Keep(t) \/ Prompt(t) \/ Store(t) \/ PickLink(t) \/ Link(t) \/ GiveUp(t)

ReferenceSpec == ReferenceInit /\ [][ReferenceNext]_referenceVars

-----------------------------------------------------------------------------
(* A digest names its bytes, also those of a file that changed under the copy.*)
DigestIsOfBytes ==
  \A c \in Content : {blobs[c].source, blobs[c].bin} \subseteq {Nothing, c}

(* What a use shows and records is in the manifest of its reference, and its  *)
(* files are complete, unless they are being read as another media type.      *)
ShownIsOnFile ==
  \A t \in Job : use[t].at \in {"prompt", "store"} =>
    /\ manifests[Ref(t)] = "parsed" /\ use[t].key \in Blob(t).parts
    /\ Blob(t).image = "whole" \/ use[t].content \in overlaid

(* What a record links can be restored: the file is there with the digest of  *)
(* the bytes that were in the message; unless the same bytes were read as     *)
(* another media type since, or the link is to a lock file.                   *)
RecordedIsRestored ==
  \A m \in messages :
    \/ m.place = "image" /\ (m.content \in overlaid \/ (m.got = "whole" /\ blobs[m.content].image = "whole"))
    \/ m.place \in {"source", "bin"} /\ blobs[m.content][m.place] = m.content
    \/ m.place \in {Lock[f] : f \in DOMAIN Lock}

ReferencesAreKept == DigestIsOfBytes /\ ShownIsOnFile /\ RecordedIsRestored
=============================================================================
