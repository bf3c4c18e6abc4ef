---------------------------- MODULE TurnWorkProofs ----------------------------
(***************************************************************************)
(* Proofs about what a turn has at work: References, Settings and          *)
(* ToolProcesses, for any uses, writers, readers, calls and bounds.        *)
(*                                                                         *)
(* Part A: a reference is known by its digest, and what is on file of a    *)
(* digest only grows, but for its images while they are written again.     *)
(*                                                                         *)
(* Part B: a value is the number of the change that made it, so that what  *)
(* an update sets is unlike anything it read, and _persist_changes can     *)
(* tell its own fields by comparing; while it compares it has the lock of  *)
(* the file that is written, which every other writer needs too.           *)
(*                                                                         *)
(* Part C: a call in its place has its scope, its processes and its lock;  *)
(* the browser's fields are its processes while an action is under way.    *)
(***************************************************************************)
EXTENDS References, Settings, ToolProcesses, TLAPS

-----------------------------------------------------------------------------
(* Part A: References.                                                  *)
\* What a record of a session can link to of a digest.
LinkPlace == {"source", "bin", "source.lock", "bin.lock"}
Image == {"none", "torn", "whole"}

\* The variables of References by their types.
BlobShape == [source : {Nothing} \cup Content, bin : {Nothing} \cup Content, locks : SUBSET {"source.lock", "bin.lock"},
              image : Image, parts : SUBSET Key]
UsePlace == {"idle", "done", "copy", "put", "enter", "open", "build", "convert", "render", "publish",
             "keep", "prompt", "store", "link", "linking"}
UseShape == [at : UsePlace, key : Key \cup {""}, content : Content, place : LinkPlace \cup {""},
             got : Image \cup {""}]

RefShape ==
  /\ original \in Nat
  /\ blobs \in [Content -> BlobShape] /\ use \in [Job -> UseShape]
  /\ manifests \in [Reference -> {"none", "captured", "parsed"}]
  /\ builder \in [Content -> Job \cup {NoUse}] /\ keeper \in [Reference -> Job \cup {NoUse}]
  /\ overlaid \subseteq Content /\ spent \in [writes : Nat, calls : Nat, stops : Nat]
  /\ original = spent.writes /\ original <= MaxWrites

Building == {"convert", "render", "publish"}

\* Where a use is tells what it holds and what is there: its lock while it
\* builds, its parts and its manifest before it shows or records them.
UseOK(t) ==
  /\ use[t].at \notin {"idle", "done"} => use[t].key \in Key
  /\ use[t].at = "copy" => use[t].content[1] <= original
  /\ use[t].at \in Building => builder[use[t].content] = t
  /\ use[t].at = "publish" => Blob(t).image = "whole"
  /\ use[t].at = "keep" => use[t].key \in Blob(t).parts
  /\ use[t].at \in {"prompt", "store"} => manifests[Ref(t)] = "parsed"
  /\ use[t].at = "store" => use[t].got = "whole" \/ use[t].content \in overlaid
  /\ use[t].at = "linking" =>
       /\ use[t].place \in LinkPlace
       /\ use[t].place = "source" => Blob(t).source = use[t].content

\* What is on file of a digest is of its bytes; parts have whole images, and a
\* manifest with parts has them on file.
BlobOK(c) ==
  /\ {blobs[c].source, blobs[c].bin} \subseteq {Nothing, c}
  /\ blobs[c].parts # {} => blobs[c].image = "whole" \/ c \in overlaid
  /\ \A k \in Key : manifests[<<k, c>>] = "parsed" => k \in blobs[c].parts

\* What a record links to does not go away.
MessageOK(m) ==
  /\ m.content \in Content /\ m.place \in LinkPlace \cup {"image"}
  /\ m.place = "image" => blobs[m.content].parts # {} /\ (m.got = "whole" \/ m.content \in overlaid)
  /\ m.place \in {"source", "bin"} => blobs[m.content][m.place] = m.content

\* The inductive invariant.
RefInv ==
  /\ RefShape
  /\ \A t \in Job : UseOK(t)
  /\ \A c \in Content : BlobOK(c)
  /\ \A m \in messages : MessageOK(m)

\* The lock files of a link.
LEMMA LockNames == DOMAIN Lock = {"source", "bin"} /\ Lock["source"] = "source.lock" /\ Lock["bin"] = "bin.lock"
  BY DEF Lock

\* Versions, and the contents that two reads of a file can see.
LEMMA VersionFacts ==
  /\ Version \subseteq Nat
  /\ <<0, 0>> \in Content
  /\ \A c \in Content : c = <<c[1], c[2]>> /\ c[1] \in Version /\ c[2] \in Version
  /\ \A u, v \in Version : u <= v => <<u, v>> \in Content
  /\ Nothing \notin Content
  BY ReferenceAssumption DEF Version, Content, Nothing

\* A use at rest, and one that begins.
LEMMA RestingShape ==
  /\ Resting \in UseShape
  /\ \A p \in UsePlace, k \in Key, c \in Content :
       [Resting EXCEPT !.at = p, !.key = k, !.content = c] \in UseShape
<1>1. ASSUME NEW p \in UsePlace, NEW k \in Key \cup {""}, NEW c \in Content, NEW r, NEW s,
             r = [at |-> p, key |-> k, content |-> c, place |-> "", got |-> ""]
      PROVE  r \in UseShape
  BY <1>1 DEF UseShape, UsePlace
<1>2. ASSUME NEW r \in UseShape, NEW p \in UsePlace, NEW k \in Key, NEW c \in Content
      PROVE  [r EXCEPT !.at = p, !.key = k, !.content = c] \in UseShape
  <2>1. [r EXCEPT !.at = p] \in UseShape
    BY DEF UseShape
  <2>2. [[r EXCEPT !.at = p] EXCEPT !.key = k] \in UseShape
    BY <2>1 DEF UseShape
  <2> QED BY <2>2 DEF UseShape
<1>3. Resting = [at |-> "idle", key |-> "", content |-> <<0, 0>>, place |-> "", got |-> ""]
  BY DEF Resting
<1>4. Resting \in UseShape
  BY <1>1, <1>3, VersionFacts DEF UsePlace
<1> QED BY <1>2, <1>4

\* Nothing was used yet.
LEMMA RefInit == ReferenceInit => RefInv
<1> SUFFICES ASSUME ReferenceInit PROVE RefInv
  OBVIOUS
<1>1. RefShape
  <2>1. use \in [Job -> UseShape]
    BY RestingShape DEF ReferenceInit
  <2>2. blobs \in [Content -> BlobShape]
    BY DEF ReferenceInit, BlobShape, Image
  <2>3. builder \in [Content -> Job \cup {NoUse}] /\ keeper \in [Reference -> Job \cup {NoUse}]
    BY DEF ReferenceInit
  <2>4. manifests \in [Reference -> {"none", "captured", "parsed"}]
    BY DEF ReferenceInit
  <2>5. original \in Nat /\ original <= MaxWrites /\ overlaid \subseteq Content
    BY ReferenceAssumption DEF ReferenceInit
  <2>6. spent \in [writes : Nat, calls : Nat, stops : Nat] /\ original = spent.writes
    BY DEF ReferenceInit
  <2> QED BY <2>1, <2>2, <2>3, <2>4, <2>5, <2>6 DEF RefShape
<1>2. \A t \in Job : UseOK(t)
  BY DEF ReferenceInit, UseOK, Resting, Building
<1>3. \A c \in Content : BlobOK(c)
  BY DEF ReferenceInit, BlobOK, Reference
<1> QED BY <1>1, <1>2, <1>3 DEF RefInv, ReferenceInit

\* The invariant is as strong as the property.
LEMMA RefProperties == RefInv => ReferencesAreKept
<1> SUFFICES ASSUME RefInv PROVE ReferencesAreKept
  OBVIOUS
<1>1. DigestIsOfBytes
  BY DEF RefInv, BlobOK, DigestIsOfBytes
<1>2. ShownIsOnFile
  BY DEF RefInv, RefShape, UseShape, UseOK, BlobOK, ShownIsOnFile, Blob, Ref
<1>3. RecordedIsRestored
  <2> SUFFICES ASSUME NEW m \in messages
               PROVE  \/ m.place = "image" /\ (m.content \in overlaid \/ (m.got = "whole" /\ blobs[m.content].image = "whole"))
                      \/ m.place \in {"source", "bin"} /\ blobs[m.content][m.place] = m.content
                      \/ m.place \in {"source.lock", "bin.lock"}
    BY LockNames DEF RecordedIsRestored
  <2> QED BY DEF RefInv, MessageOK, BlobOK, LinkPlace
<1> QED BY <1>1, <1>2, <1>3 DEF ReferencesAreKept

\* What a step of t leaves to the other uses.
RefOthers(t) == \A u \in Job \ {t} : use'[u] = use[u]

\* A use that moves to a place and changes nothing else of itself.
LEMMA RefGoes ==
  ASSUME RefShape, NEW t \in Job, NEW p \in UsePlace, Goes(t, p)
  PROVE  use' \in [Job -> UseShape] /\ RefOthers(t) /\ use'[t] = [use[t] EXCEPT !.at = p]
<1>1. use[t] \in UseShape
  BY DEF RefShape
<1>2. [use[t] EXCEPT !.at = p] \in UseShape
  BY <1>1 DEF UseShape
<1>3. use' = [use EXCEPT ![t] = [use[t] EXCEPT !.at = p]]
  BY DEF Goes, RefShape
<1> QED BY <1>2, <1>3 DEF RefShape, RefOthers

\* The user changes the file: what was copied of it stays.
LEMMA RefEdit ==
  ASSUME RefInv, Edit
  PROVE  RefInv'
<1>1. RefShape'
  BY ReferenceAssumption DEF RefInv, RefShape, Edit, Pay
<1>2. \A t \in Job : UseOK(t)'
  <2> SUFFICES ASSUME NEW t \in Job PROVE UseOK(t)'
    OBVIOUS
  <2>1. use[t].content[1] \in Nat
    BY VersionFacts DEF RefInv, RefShape, UseShape
  <2>2. use[t].at = "copy" => use[t].content[1] <= original'
    BY <2>1 DEF RefInv, RefShape, UseOK, Edit
  <2> QED BY <2>2 DEF RefInv, UseOK, Edit, Ref, Blob
<1>3. \A c \in Content : BlobOK(c)'
  BY DEF RefInv, BlobOK, Edit
<1>4. \A m \in messages' : MessageOK(m)'
  BY DEF RefInv, MessageOK, Edit
<1> QED BY <1>1, <1>2, <1>3, <1>4 DEF RefInv

\* A use begins.
LEMMA RefUse ==
  ASSUME RefInv, NEW t \in Job, Use(t)
  PROVE  RefInv'
<1>1. PICK k \in Key, c \in Content, p \in {"copy", "put", "link", "open"} :
         /\ p \in {"copy", "put"} => c = <<original, original>>
         /\ use' = [use EXCEPT ![t] = [Resting EXCEPT !.at = p, !.key = k, !.content = c]]
  BY DEF Use
<1>2. use' \in [Job -> UseShape] /\ RefOthers(t)
  BY <1>1, RestingShape DEF RefInv, RefShape, RefOthers, UsePlace
<1>3. use'[t].at = p /\ use'[t].key = k /\ use'[t].content = c
  BY <1>1 DEF RefInv, RefShape, UseShape, Resting
<1>4. UNCHANGED <<original, blobs, manifests, builder, keeper, messages, overlaid>>
  BY DEF Use
<1>5. RefShape'
  <2> spent' \in [writes : Nat, calls : Nat, stops : Nat] /\ spent'.writes = spent.writes
    BY DEF RefInv, RefShape, Use, Pay
  <2> QED BY <1>2, <1>4 DEF RefInv, RefShape
<1>6. \A u \in Job : UseOK(u)'
  <2> SUFFICES ASSUME NEW u \in Job PROVE UseOK(u)'
    OBVIOUS
  <2>1. CASE u = t
    BY <2>1, <1>1, <1>3, <1>4 DEF UseOK, Building, RefInv, RefShape
  <2>2. CASE u # t
    BY <2>2, <1>2, <1>4 DEF UseOK, RefInv, Blob, Ref, RefOthers
  <2> QED BY <2>1, <2>2
<1>7. \A d \in Content : BlobOK(d)'
  BY <1>4 DEF RefInv, BlobOK
<1>8. \A m \in messages' : MessageOK(m)'
  BY <1>4 DEF RefInv, MessageOK
<1> QED BY <1>5, <1>6, <1>7, <1>8 DEF RefInv

\* A manifest that is there already is left alone.
LEMMA RefEnter ==
  ASSUME RefInv, NEW t \in Job, Enter(t)
  PROVE  RefInv'
<1>1. use' \in [Job -> UseShape] /\ RefOthers(t) /\ use'[t] = [use[t] EXCEPT !.at = "open"]
  BY RefGoes DEF Enter, RefInv, UsePlace
<1>2. use[t] \in UseShape /\ use[t].content \in Content /\ UseOK(t) /\ BlobOK(use[t].content)
  BY DEF RefInv, RefShape, UseShape
<1>5. RefShape'
  BY <1>1, <1>2 DEF RefInv, RefShape, Reference, Ref, Enter
<1>6. \A u \in Job : UseOK(u)'
  <2> SUFFICES ASSUME NEW u \in Job PROVE UseOK(u)'
    OBVIOUS
  <2>1. CASE u = t
    BY <2>1, <1>1, <1>2 DEF RefShape, UseShape, UseOK, Building, Ref, Blob, Enter
  <2>2. CASE u # t
    BY <2>2, <1>1, <1>2 DEF RefInv, RefShape, UseOK, Building, Ref, Blob, RefOthers, Enter
  <2> QED BY <2>1, <2>2
<1>7. ASSUME NEW c \in Content PROVE BlobOK(c)'
  BY <1>2 DEF RefInv, RefShape, Reference, BlobOK, Ref, UseOK, Enter
<1>8. ASSUME NEW m \in messages' PROVE MessageOK(m)'
  BY DEF RefInv, MessageOK, Enter
<1> QED BY <1>5, <1>6, <1>7, <1>8 DEF RefInv

\* The manifest names its parts, which are on file.
LEMMA RefKeep ==
  ASSUME RefInv, NEW t \in Job, Keep(t)
  PROVE  RefInv'
<1>1. use' \in [Job -> UseShape] /\ RefOthers(t) /\ use'[t] = [use[t] EXCEPT !.at = "prompt"]
  BY RefGoes DEF Keep, RefInv, UsePlace
<1>2. use[t] \in UseShape /\ use[t].content \in Content /\ UseOK(t) /\ BlobOK(use[t].content)
  BY DEF RefInv, RefShape, UseShape
<1>5. RefShape'
  BY <1>1, <1>2 DEF RefInv, RefShape, Reference, Ref, Keep
<1>6. \A u \in Job : UseOK(u)'
  <2> SUFFICES ASSUME NEW u \in Job PROVE UseOK(u)'
    OBVIOUS
  <2>1. CASE u = t
    BY <2>1, <1>1, <1>2 DEF RefInv, RefShape, Reference, UseShape, UseOK, Building, Ref, Blob, Keep
  <2>2. CASE u # t
    BY <2>2, <1>1, <1>2 DEF RefInv, RefShape, UseOK, Building, Ref, Blob, RefOthers, Keep
  <2> QED BY <2>1, <2>2
<1>7. ASSUME NEW c \in Content PROVE BlobOK(c)'
  BY <1>2 DEF RefInv, RefShape, Reference, UseShape, BlobOK, Ref, UseOK, Keep, Blob
<1>8. ASSUME NEW m \in messages' PROVE MessageOK(m)'
  BY DEF RefInv, MessageOK, Keep
<1> QED BY <1>5, <1>6, <1>7, <1>8 DEF RefInv

\* The bytes are put under their digest.
LEMMA RefPut ==
  ASSUME RefInv, NEW t \in Job, Put(t)
  PROVE  RefInv'
<1>1. use' \in [Job -> UseShape] /\ RefOthers(t) /\ use'[t] = [use[t] EXCEPT !.at = "enter"]
  BY RefGoes DEF Put, RefInv, UsePlace
<1>2. use[t] \in UseShape /\ use[t].content \in Content /\ UseOK(t) /\ BlobOK(use[t].content)
  BY DEF RefInv, RefShape, UseShape
<1> DEFINE d == use[t].content
<1>a. Blob(t) \in BlobShape /\ blobs' = [blobs EXCEPT ![d] = [Blob(t) EXCEPT !.source = (IF Blob(t).source = Nothing THEN use[t].content ELSE Blob(t).source)]]
  BY <1>2 DEF RefInv, RefShape, Writes, Blob, Put
<1>b. (IF Blob(t).source = Nothing THEN use[t].content ELSE Blob(t).source) = use[t].content /\ use[t].content \in {Nothing} \cup Content
  BY <1>2, <1>a DEF BlobShape, Image, UseOK, BlobOK, Blob, Put
<1>c. PICK b \in BlobShape :
         /\ b = [Blob(t) EXCEPT !.source = (IF Blob(t).source = Nothing THEN use[t].content ELSE Blob(t).source)]
         /\ b.source = (IF Blob(t).source = Nothing THEN use[t].content ELSE Blob(t).source)
         /\ b.bin = Blob(t).bin
         /\ b.locks = Blob(t).locks
         /\ b.image = Blob(t).image
         /\ b.parts = Blob(t).parts
  BY <1>a, <1>b DEF BlobShape
<1>3. blobs' \in [Content -> BlobShape] /\ blobs'[d] = b /\ \A c \in Content \ {d} : blobs'[c] = blobs[c]
  BY <1>a, <1>c, <1>2 DEF RefInv, RefShape
<1>4. /\ use[t].at = "put" /\ blobs[d] = Blob(t) /\ d \in Content /\ use[t].content = d /\ use'[t].content = d /\ BlobOK(d)
      /\ b.source = d
  BY <1>1, <1>2, <1>b, <1>c DEF Blob, UseShape, Put
<1>d. UNCHANGED <<original, manifests, builder, keeper, messages, overlaid>>
  BY DEF Put
<1> HIDE DEF d
<1>5. RefShape'
  BY <1>1, <1>2, <1>3, <1>4, <1>c DEF RefInv, RefShape, Put
<1>6. \A u \in Job : UseOK(u)'
  <2> SUFFICES ASSUME NEW u \in Job PROVE UseOK(u)'
    OBVIOUS
  <2>1. CASE u = t
    <3>1. use'[t].at = "enter" /\ use'[t].key = use[t].key
      BY <1>1, <1>2 DEF UseShape
    <3>2. use'[t].content = d /\ blobs'[d] = b
      BY <1>3, <1>4
    <3>3. use'[t].at \in Building => builder'[d] = t
      BY <3>1, <1>2, <1>4, <1>d DEF UseOK, Building
    <3> QED BY <2>1, <3>1, <3>2, <3>3, <1>2, <1>4, <1>c, <1>d DEF UseOK, Ref, Blob
  <2>2. CASE u # t
    <3>1. UseOK(u) /\ use[u] \in UseShape /\ use'[u] = use[u]
      BY <2>2, <1>1 DEF RefInv, RefShape, RefOthers
    <3>2. CASE use[u].content = d
      BY <3>1, <3>2, <2>2, <1>2, <1>3, <1>4, <1>c, <1>d DEF RefInv, RefShape, UseOK, Building, Ref, Blob
    <3>3. CASE use[u].content # d
      <4>1. blobs'[use[u].content] = blobs[use[u].content]
        BY <3>1, <3>3, <1>3 DEF UseShape
      <4> QED BY <3>1, <3>3, <4>1, <2>2, <1>d, <1>4 DEF RefInv, RefShape, UseOK, Building, Ref, Blob
    <3> QED BY <3>2, <3>3
  <2> QED BY <2>1, <2>2
<1>7. ASSUME NEW c \in Content PROVE BlobOK(c)'
  <2>1. CASE c = d
    BY SMTT(40), <2>1, <1>2, <1>3, <1>4, <1>c, <1>d DEF UseOK, BlobShape, BlobOK, Blob
  <2>2. CASE c # d
    BY <2>2, <1>3, <1>4, <1>d DEF RefInv, BlobOK
  <2> QED BY <2>1, <2>2
<1>8. ASSUME NEW m \in messages' PROVE MessageOK(m)'
  <2>0. m \in messages /\ MessageOK(m)
    BY <1>d DEF RefInv
  <2>1. CASE m.content = d
    BY SMTT(40), <2>0, <2>1, <1>3, <1>4, <1>c, <1>d DEF BlobShape, BlobOK, Blob, MessageOK
  <2>2. CASE m.content # d
    <3>1. blobs'[m.content] = blobs[m.content]
      BY <2>0, <2>2, <1>3 DEF MessageOK
    <3> QED BY <2>0, <2>2, <3>1, <1>d DEF MessageOK
  <2> QED BY <2>1, <2>2
<1> QED BY <1>5, <1>6, <1>7, <1>8 DEF RefInv

\* The images are torn while they are written; readers of other keys are told
\* by overlaid.
LEMMA RefConvert ==
  ASSUME RefInv, NEW t \in Job, Convert(t)
  PROVE  RefInv'
<1>1. use' \in [Job -> UseShape] /\ RefOthers(t) /\ use'[t] = [use[t] EXCEPT !.at = "render"]
  BY RefGoes DEF Convert, RefInv, UsePlace
<1>2. use[t] \in UseShape /\ use[t].content \in Content /\ UseOK(t) /\ BlobOK(use[t].content)
  BY DEF RefInv, RefShape, UseShape
<1> DEFINE d == use[t].content
<1>a. Blob(t) \in BlobShape /\ blobs' = [blobs EXCEPT ![d] = [Blob(t) EXCEPT !.image = "torn"]]
  BY <1>2 DEF RefInv, RefShape, Writes, Blob, Convert
<1>b. "torn" \in Image
  BY <1>2, <1>a DEF BlobShape, Image, UseOK, BlobOK, Blob, Convert
<1>c. PICK b \in BlobShape :
         /\ b = [Blob(t) EXCEPT !.image = "torn"]
         /\ b.image = "torn"
         /\ b.source = Blob(t).source
         /\ b.bin = Blob(t).bin
         /\ b.locks = Blob(t).locks
         /\ b.parts = Blob(t).parts
  BY <1>a, <1>b DEF BlobShape
<1>3. blobs' \in [Content -> BlobShape] /\ blobs'[d] = b /\ \A c \in Content \ {d} : blobs'[c] = blobs[c]
  BY <1>a, <1>c, <1>2 DEF RefInv, RefShape
<1>4. /\ use[t].at = "convert" /\ blobs[d] = Blob(t) /\ d \in Content /\ use[t].content = d /\ use'[t].content = d /\ BlobOK(d)
      
  BY <1>1, <1>2, <1>b, <1>c DEF Blob, UseShape, Convert
<1>d. /\ UNCHANGED <<original, manifests, builder, keeper, messages>>
      /\ overlaid' = IF Blob(t).parts = {} THEN overlaid ELSE overlaid \cup {d}
  BY DEF Convert
<1> HIDE DEF d
<1>5. RefShape'
  BY <1>1, <1>2, <1>3, <1>4, <1>c DEF RefInv, RefShape, Convert
<1>6. \A u \in Job : UseOK(u)'
  <2> SUFFICES ASSUME NEW u \in Job PROVE UseOK(u)'
    OBVIOUS
  <2>1. CASE u = t
    <3>1. use'[t].at = "render" /\ use'[t].key = use[t].key
      BY <1>1, <1>2 DEF UseShape
    <3>2. use'[t].content = d /\ blobs'[d] = b
      BY <1>3, <1>4
    <3>3. use'[t].at \in Building => builder'[d] = t
      BY <3>1, <1>2, <1>4, <1>d DEF UseOK, Building
    <3> QED BY <2>1, <3>1, <3>2, <3>3, <1>2, <1>4, <1>c, <1>d DEF UseOK, Ref, Blob
  <2>2. CASE u # t
    <3>1. UseOK(u) /\ use[u] \in UseShape /\ use'[u] = use[u]
      BY <2>2, <1>1 DEF RefInv, RefShape, RefOthers
    <3>2. CASE use[u].content = d
      BY <3>1, <3>2, <2>2, <1>2, <1>3, <1>4, <1>c, <1>d DEF RefInv, RefShape, UseOK, Building, Ref, Blob
    <3>3. CASE use[u].content # d
      <4>1. blobs'[use[u].content] = blobs[use[u].content]
        BY <3>1, <3>3, <1>3 DEF UseShape
      <4> QED BY <3>1, <3>3, <4>1, <2>2, <1>d, <1>4 DEF RefInv, RefShape, UseOK, Building, Ref, Blob
    <3> QED BY <3>2, <3>3
  <2> QED BY <2>1, <2>2
<1>7. ASSUME NEW c \in Content PROVE BlobOK(c)'
  <2>1. CASE c = d
    BY SMTT(40), <2>1, <1>2, <1>3, <1>4, <1>c, <1>d DEF UseOK, BlobShape, BlobOK, Blob
  <2>2. CASE c # d
    BY <2>2, <1>3, <1>4, <1>d DEF RefInv, BlobOK
  <2> QED BY <2>1, <2>2
<1>8. ASSUME NEW m \in messages' PROVE MessageOK(m)'
  <2>0. m \in messages /\ MessageOK(m)
    BY <1>d DEF RefInv
  <2>1. CASE m.content = d
    BY <2>0, <2>1, <1>3, <1>4, <1>c, <1>d DEF BlobShape, BlobOK, Blob, MessageOK
  <2>2. CASE m.content # d
    <3>1. blobs'[m.content] = blobs[m.content]
      BY <2>0, <2>2, <1>3 DEF MessageOK
    <3> QED BY <2>0, <2>2, <3>1, <1>d DEF MessageOK
  <2> QED BY <2>1, <2>2
<1> QED BY <1>5, <1>6, <1>7, <1>8 DEF RefInv

\* The images are whole again.
LEMMA RefRender ==
  ASSUME RefInv, NEW t \in Job, Render(t)
  PROVE  RefInv'
<1>1. use' \in [Job -> UseShape] /\ RefOthers(t) /\ use'[t] = [use[t] EXCEPT !.at = "publish"]
  BY RefGoes DEF Render, RefInv, UsePlace
<1>2. use[t] \in UseShape /\ use[t].content \in Content /\ UseOK(t) /\ BlobOK(use[t].content)
  BY DEF RefInv, RefShape, UseShape
<1> DEFINE d == use[t].content
<1>a. Blob(t) \in BlobShape /\ blobs' = [blobs EXCEPT ![d] = [Blob(t) EXCEPT !.image = "whole"]]
  BY <1>2 DEF RefInv, RefShape, Writes, Blob, Render
<1>b. "whole" \in Image
  BY <1>2, <1>a DEF BlobShape, Image, UseOK, BlobOK, Blob, Render
<1>c. PICK b \in BlobShape :
         /\ b = [Blob(t) EXCEPT !.image = "whole"]
         /\ b.image = "whole"
         /\ b.source = Blob(t).source
         /\ b.bin = Blob(t).bin
         /\ b.locks = Blob(t).locks
         /\ b.parts = Blob(t).parts
  BY <1>a, <1>b DEF BlobShape
<1>3. blobs' \in [Content -> BlobShape] /\ blobs'[d] = b /\ \A c \in Content \ {d} : blobs'[c] = blobs[c]
  BY <1>a, <1>c, <1>2 DEF RefInv, RefShape
<1>4. /\ use[t].at = "render" /\ blobs[d] = Blob(t) /\ d \in Content /\ use[t].content = d /\ use'[t].content = d /\ BlobOK(d)
      
  BY <1>1, <1>2, <1>b, <1>c DEF Blob, UseShape, Render
<1>d. UNCHANGED <<original, manifests, builder, keeper, messages, overlaid>>
  BY DEF Render
<1> HIDE DEF d
<1>5. RefShape'
  BY <1>1, <1>2, <1>3, <1>4, <1>c DEF RefInv, RefShape, Render
<1>6. \A u \in Job : UseOK(u)'
  <2> SUFFICES ASSUME NEW u \in Job PROVE UseOK(u)'
    OBVIOUS
  <2>1. CASE u = t
    <3>1. use'[t].at = "publish" /\ use'[t].key = use[t].key
      BY <1>1, <1>2 DEF UseShape
    <3>2. use'[t].content = d /\ blobs'[d] = b
      BY <1>3, <1>4
    <3>3. use'[t].at \in Building => builder'[d] = t
      BY <3>1, <1>2, <1>4, <1>d DEF UseOK, Building
    <3> QED BY <2>1, <3>1, <3>2, <3>3, <1>2, <1>4, <1>c, <1>d DEF UseOK, Ref, Blob
  <2>2. CASE u # t
    <3>1. UseOK(u) /\ use[u] \in UseShape /\ use'[u] = use[u]
      BY <2>2, <1>1 DEF RefInv, RefShape, RefOthers
    <3>2. CASE use[u].content = d
      BY <3>1, <3>2, <2>2, <1>2, <1>3, <1>4, <1>c, <1>d DEF RefInv, RefShape, UseOK, Building, Ref, Blob
    <3>3. CASE use[u].content # d
      <4>1. blobs'[use[u].content] = blobs[use[u].content]
        BY <3>1, <3>3, <1>3 DEF UseShape
      <4> QED BY <3>1, <3>3, <4>1, <2>2, <1>d, <1>4 DEF RefInv, RefShape, UseOK, Building, Ref, Blob
    <3> QED BY <3>2, <3>3
  <2> QED BY <2>1, <2>2
<1>7. ASSUME NEW c \in Content PROVE BlobOK(c)'
  <2>1. CASE c = d
    BY <2>1, <1>2, <1>3, <1>4, <1>c, <1>d DEF UseOK, BlobShape, BlobOK, Blob
  <2>2. CASE c # d
    BY <2>2, <1>3, <1>4, <1>d DEF RefInv, BlobOK
  <2> QED BY <2>1, <2>2
<1>8. ASSUME NEW m \in messages' PROVE MessageOK(m)'
  <2>0. m \in messages /\ MessageOK(m)
    BY <1>d DEF RefInv
  <2>1. CASE m.content = d
    BY <2>0, <2>1, <1>3, <1>4, <1>c, <1>d DEF BlobShape, BlobOK, Blob, MessageOK
  <2>2. CASE m.content # d
    <3>1. blobs'[m.content] = blobs[m.content]
      BY <2>0, <2>2, <1>3 DEF MessageOK
    <3> QED BY <2>0, <2>2, <3>1, <1>d DEF MessageOK
  <2> QED BY <2>1, <2>2
<1> QED BY <1>5, <1>6, <1>7, <1>8 DEF RefInv

\* The parts are on file once the images are whole.
LEMMA RefPublish ==
  ASSUME RefInv, NEW t \in Job, Publish(t)
  PROVE  RefInv'
<1>1. use' \in [Job -> UseShape] /\ RefOthers(t) /\ use'[t] = [use[t] EXCEPT !.at = "keep"]
  BY RefGoes DEF Publish, RefInv, UsePlace
<1>2. use[t] \in UseShape /\ use[t].content \in Content /\ UseOK(t) /\ BlobOK(use[t].content)
  BY DEF RefInv, RefShape, UseShape
<1> DEFINE d == use[t].content
<1>a. Blob(t) \in BlobShape /\ blobs' = [blobs EXCEPT ![d] = [Blob(t) EXCEPT !.parts = (Blob(t).parts \cup {use[t].key})]]
  BY <1>2 DEF RefInv, RefShape, Writes, Blob, Publish
<1>b. Blob(t).parts \cup {use[t].key} \in SUBSET Key
  BY <1>2, <1>a DEF BlobShape, Image, UseOK, BlobOK, Blob, Publish
<1>c. PICK b \in BlobShape :
         /\ b = [Blob(t) EXCEPT !.parts = (Blob(t).parts \cup {use[t].key})]
         /\ b.parts = (Blob(t).parts \cup {use[t].key})
         /\ b.source = Blob(t).source
         /\ b.bin = Blob(t).bin
         /\ b.locks = Blob(t).locks
         /\ b.image = Blob(t).image
  BY <1>a, <1>b DEF BlobShape
<1>3. blobs' \in [Content -> BlobShape] /\ blobs'[d] = b /\ \A c \in Content \ {d} : blobs'[c] = blobs[c]
  BY <1>a, <1>c, <1>2 DEF RefInv, RefShape
<1>4. /\ use[t].at = "publish" /\ blobs[d] = Blob(t) /\ d \in Content /\ use[t].content = d /\ use'[t].content = d /\ BlobOK(d)
      
  BY <1>1, <1>2, <1>b, <1>c DEF Blob, UseShape, Publish
<1>d. /\ UNCHANGED <<original, manifests, keeper, messages, overlaid>>
      /\ builder' = [builder EXCEPT ![d] = NoUse]
  BY DEF Publish
<1> HIDE DEF d
<1>5. RefShape'
  BY <1>1, <1>2, <1>3, <1>4, <1>c DEF RefInv, RefShape, Publish
<1>6. \A u \in Job : UseOK(u)'
  <2> SUFFICES ASSUME NEW u \in Job PROVE UseOK(u)'
    OBVIOUS
  <2>1. CASE u = t
    <3>1. use'[t].at = "keep" /\ use'[t].key = use[t].key
      BY <1>1, <1>2 DEF UseShape
    <3>2. use'[t].content = d /\ blobs'[d] = b
      BY <1>3, <1>4
    <3>3. use'[t].at \in Building => builder'[d] = t
      BY <3>1, <1>2, <1>4, <1>d DEF UseOK, Building
    <3> QED BY <2>1, <3>1, <3>2, <3>3, <1>2, <1>4, <1>c, <1>d DEF UseOK, Ref, Blob
  <2>2. CASE u # t
    <3>1. UseOK(u) /\ use[u] \in UseShape /\ use'[u] = use[u]
      BY <2>2, <1>1 DEF RefInv, RefShape, RefOthers
    <3>2. CASE use[u].content = d
      BY <3>1, <3>2, <2>2, <1>2, <1>3, <1>4, <1>c, <1>d DEF RefInv, RefShape, UseOK, Building, Ref, Blob
    <3>3. CASE use[u].content # d
      <4>1. blobs'[use[u].content] = blobs[use[u].content]
        BY <3>1, <3>3, <1>3 DEF UseShape
      <4> QED BY <3>1, <3>3, <4>1, <2>2, <1>d, <1>4 DEF RefInv, RefShape, UseOK, Building, Ref, Blob
    <3> QED BY <3>2, <3>3
  <2> QED BY <2>1, <2>2
<1>7. ASSUME NEW c \in Content PROVE BlobOK(c)'
  <2>1. CASE c = d
    BY SMTT(40), <2>1, <1>2, <1>3, <1>4, <1>c, <1>d DEF UseOK, BlobShape, BlobOK, Blob
  <2>2. CASE c # d
    BY <2>2, <1>3, <1>4, <1>d DEF RefInv, BlobOK
  <2> QED BY <2>1, <2>2
<1>8. ASSUME NEW m \in messages' PROVE MessageOK(m)'
  <2>0. m \in messages /\ MessageOK(m)
    BY <1>d DEF RefInv
  <2>1. CASE m.content = d
    BY SMTT(40), <2>0, <2>1, <1>3, <1>4, <1>c, <1>d DEF BlobShape, BlobOK, Blob, MessageOK
  <2>2. CASE m.content # d
    <3>1. blobs'[m.content] = blobs[m.content]
      BY <2>0, <2>2, <1>3 DEF MessageOK
    <3> QED BY <2>0, <2>2, <3>1, <1>d DEF MessageOK
  <2> QED BY <2>1, <2>2
<1> QED BY <1>5, <1>6, <1>7, <1>8 DEF RefInv

\* The bytes of a copy are those of two reads.
LEMMA RefCopy ==
  ASSUME RefInv, NEW t \in Job, Copy(t)
  PROVE  RefInv'
<1>1. UNCHANGED <<original, blobs, manifests, builder, keeper, messages, overlaid, spent>> /\ use[t].at = "copy"
  BY DEF Copy
<1>2. use[t] \in UseShape /\ UseOK(t)
  BY DEF RefInv, RefShape
<1>3. <<use[t].content[1], original>> \in Content
  <2>1. use[t].content[1] \in Version /\ use[t].content[1] <= original
    BY <1>1, <1>2, VersionFacts DEF UseShape, UseOK
  <2>2. original \in Version
    BY ReferenceAssumption DEF RefInv, RefShape, Version
  <2> QED BY <2>1, <2>2, VersionFacts
<1> DEFINE c == <<use[t].content[1], original>>
<1>4. use' = [use EXCEPT ![t] = [use[t] EXCEPT !.at = "put", !.content = c]]
  BY DEF Copy, RefInv, RefShape
<1> HIDE DEF c
<1>5. [use[t] EXCEPT !.at = "put", !.content = c] \in UseShape
  BY <1>2, <1>3 DEF UseShape, UsePlace, c
<1>6. use' \in [Job -> UseShape] /\ RefOthers(t) /\ use'[t].at = "put" /\ use'[t].key = use[t].key
  BY <1>2, <1>4, <1>5 DEF RefInv, RefShape, RefOthers, UseShape
<1>7. RefShape'
  BY <1>1, <1>6 DEF RefInv, RefShape
<1>8. \A u \in Job : UseOK(u)'
  <2> SUFFICES ASSUME NEW u \in Job PROVE UseOK(u)'
    OBVIOUS
  <2>1. CASE u = t
    BY <2>1, <1>1, <1>2, <1>6 DEF UseOK, Building
  <2>2. CASE u # t
    BY <2>2, <1>1, <1>6 DEF RefInv, RefOthers, UseOK, Building, Ref, Blob
  <2> QED BY <2>1, <2>2
<1>9. \A d \in Content : BlobOK(d)'
  BY <1>1 DEF RefInv, BlobOK
<1>10. \A m \in messages' : MessageOK(m)'
  BY <1>1 DEF RefInv, MessageOK
<1> QED BY <1>7, <1>8, <1>9, <1>10 DEF RefInv

\* What a step that moves t only has to show.
LEMMA RefMoves ==
  ASSUME RefInv, NEW t \in Job, NEW p \in UsePlace, Goes(t, p),
         UNCHANGED <<original, blobs, manifests, messages, overlaid>>,
         use[t].at \notin {"idle", "done"},
         p \notin Building \cup {"copy", "store", "linking"},
         p = "keep" => use[t].key \in Blob(t).parts,
         p = "prompt" => manifests[Ref(t)] = "parsed",
         builder' \in [Content -> Job \cup {NoUse}], keeper' \in [Reference -> Job \cup {NoUse}],
         spent' \in [writes : Nat, calls : Nat, stops : Nat], spent'.writes = spent.writes,
         \A u \in Job \ {t} : use[u].at \in Building => builder'[use[u].content] = u
  PROVE  RefInv'
<1>1. use' \in [Job -> UseShape] /\ RefOthers(t) /\ use'[t] = [use[t] EXCEPT !.at = p]
  BY RefGoes DEF RefInv
<1>2. use[t] \in UseShape /\ UseOK(t)
  BY DEF RefInv, RefShape
<1>3. use'[t].at = p /\ use'[t].key = use[t].key /\ use'[t].content = use[t].content
  BY <1>1, <1>2 DEF UseShape
<1>4. RefShape'
  BY <1>1 DEF RefInv, RefShape
<1>5. \A u \in Job : UseOK(u)'
  <2> SUFFICES ASSUME NEW u \in Job PROVE UseOK(u)'
    OBVIOUS
  <2>1. CASE u = t
    BY <2>1, <1>2, <1>3 DEF UseOK, Building, Ref, Blob
  <2>2. CASE u # t
    BY <2>2, <1>1 DEF RefInv, RefOthers, UseOK, Building, Ref, Blob
  <2> QED BY <2>1, <2>2
<1>6. \A d \in Content : BlobOK(d)'
  BY DEF RefInv, BlobOK
<1>7. \A m \in messages' : MessageOK(m)'
  BY DEF RefInv, MessageOK
<1> QED BY <1>4, <1>5, <1>6, <1>7 DEF RefInv

\* What is parsed is shown, the rest is built under its lock.
LEMMA RefParse ==
  ASSUME RefInv, NEW t \in Job, Parse(t)
  PROVE  RefInv'
<1>1. UNCHANGED <<original, blobs, manifests, builder, messages, overlaid, spent>> /\ use[t].at = "open"
  BY DEF Parse
<1>2. keeper' \in [Reference -> Job \cup {NoUse}]
  BY DEF Parse, RefInv, RefShape
<1>3. \A u \in Job \ {t} : use[u].at \in Building => builder'[use[u].content] = u
  BY <1>1 DEF RefInv, UseOK
<1>4. CASE manifests[Ref(t)] = "parsed"
  <2>1. Goes(t, "prompt")
    BY <1>4 DEF Parse
  <2> QED BY <1>1, <1>2, <1>3, <1>4, <2>1, RefMoves DEF RefInv, RefShape, UsePlace, Building
<1>5. CASE manifests[Ref(t)] # "parsed"
  <2>1. Goes(t, "build")
    BY <1>5 DEF Parse
  <2> QED BY <1>1, <1>2, <1>3, <2>1, RefMoves DEF RefInv, RefShape, UsePlace, Building
<1> QED BY <1>4, <1>5

\* One use at a time builds what belongs to a digest.
LEMMA RefBuild ==
  ASSUME RefInv, NEW t \in Job, Build(t)
  PROVE  RefInv'
<1>1. /\ UNCHANGED <<original, blobs, manifests, keeper, messages, overlaid, spent>>
      /\ use[t].at = "build" /\ builder[use[t].content] = NoUse
  BY DEF Build
<1>2. CASE use[t].key \in Blob(t).parts
  <2>1. Goes(t, "keep") /\ builder' = builder
    BY <1>2 DEF Build
  <2>2. \A u \in Job \ {t} : use[u].at \in Building => builder'[use[u].content] = u
    BY <2>1 DEF RefInv, UseOK
  <2> QED BY <1>1, <1>2, <2>1, <2>2, RefMoves DEF RefInv, RefShape, UsePlace, Building
<1>3. CASE use[t].key \notin Blob(t).parts
  <2>1. Goes(t, "convert") /\ builder' = [builder EXCEPT ![use[t].content] = t]
    BY <1>3 DEF Build
  <2>2. use' \in [Job -> UseShape] /\ RefOthers(t) /\ use'[t] = [use[t] EXCEPT !.at = "convert"]
    BY <2>1, RefGoes DEF RefInv, UsePlace
  <2>3. use[t] \in UseShape /\ UseOK(t)
    BY DEF RefInv, RefShape
  <2>4. use'[t].at = "convert" /\ use'[t].key = use[t].key /\ use'[t].content = use[t].content
    BY <2>2, <2>3 DEF UseShape
  <2>5. RefShape'
    BY <1>1, <2>1, <2>2, <2>3 DEF RefInv, RefShape, UseShape
  <2>6. \A u \in Job : UseOK(u)'
    <3> SUFFICES ASSUME NEW u \in Job PROVE UseOK(u)'
      OBVIOUS
    <3>1. CASE u = t
      BY <3>1, <1>1, <2>1, <2>3, <2>4 DEF UseOK, Building, RefInv, RefShape, UseShape
    <3>2. CASE u # t
      <4>1. use'[u] = use[u] /\ UseOK(u) /\ use[u] \in UseShape
        BY <3>2, <2>2 DEF RefInv, RefShape, RefOthers
      <4>2. use[u].at \in Building => builder'[use[u].content] = u
        <5>1. use[u].at \in Building => builder[use[u].content] = u /\ use[u].content # use[t].content
          BY <4>1, <1>1, ReferenceAssumption DEF UseOK
        <5>2. use[u].content \in Content /\ builder \in [Content -> Job \cup {NoUse}]
          BY <4>1 DEF UseShape, RefInv, RefShape
        <5> QED BY <5>1, <5>2, <2>1
      <4> QED BY <4>1, <4>2, <1>1 DEF UseOK, Building, Ref, Blob
    <3> QED BY <3>1, <3>2
  <2>7. \A d \in Content : BlobOK(d)'
    BY <1>1 DEF RefInv, BlobOK
  <2>8. \A m \in messages' : MessageOK(m)'
    BY <1>1 DEF RefInv, MessageOK
  <2> QED BY <2>5, <2>6, <2>7, <2>8 DEF RefInv
<1> QED BY <1>2, <1>3

\* What is shown is whole, unless it is being read as another media type.
LEMMA RefPrompt ==
  ASSUME RefInv, NEW t \in Job, Prompt(t)
  PROVE  RefInv'
<1>1. UNCHANGED <<original, blobs, manifests, builder, keeper, messages, overlaid, spent>> /\ use[t].at = "prompt"
  BY DEF Prompt
<1>2. use[t] \in UseShape /\ UseOK(t) /\ Blob(t) \in BlobShape /\ BlobOK(use[t].content)
  BY DEF RefInv, RefShape, Blob, UseShape
<1> DEFINE g == Blob(t).image
<1>3. g \in Image
  BY <1>2 DEF BlobShape
<1>4. use' = [use EXCEPT ![t] = [use[t] EXCEPT !.at = "store", !.got = g]]
  BY DEF Prompt, RefInv, RefShape
<1>5. g = "whole" \/ use[t].content \in overlaid
  <2>1. use[t].key \in Key /\ use[t].content \in Content /\ manifests[<<use[t].key, use[t].content>>] = "parsed"
    BY <1>1, <1>2 DEF UseOK, UseShape, Ref
  <2> QED BY <2>1, <1>2 DEF BlobOK, Blob
<1> HIDE DEF g
<1>6. [use[t] EXCEPT !.at = "store", !.got = g] \in UseShape
  BY <1>2, <1>3 DEF UseShape, UsePlace
<1>7. /\ use' \in [Job -> UseShape] /\ RefOthers(t) /\ use'[t].at = "store" /\ use'[t].key = use[t].key
      /\ use'[t].content = use[t].content /\ use'[t].got = g
  BY <1>2, <1>4, <1>6 DEF RefInv, RefShape, RefOthers, UseShape
<1>8. RefShape'
  BY <1>1, <1>7 DEF RefInv, RefShape
<1>9. \A u \in Job : UseOK(u)'
  <2> SUFFICES ASSUME NEW u \in Job PROVE UseOK(u)'
    OBVIOUS
  <2>1. CASE u = t
    BY <2>1, <1>1, <1>2, <1>5, <1>7 DEF UseOK, Building, Ref
  <2>2. CASE u # t
    BY <2>2, <1>1, <1>7 DEF RefInv, RefOthers, UseOK, Building, Ref, Blob
  <2> QED BY <2>1, <2>2
<1>10. \A d \in Content : BlobOK(d)'
  BY <1>1 DEF RefInv, BlobOK
<1>11. \A m \in messages' : MessageOK(m)'
  BY <1>1 DEF RefInv, MessageOK
<1> QED BY <1>8, <1>9, <1>10, <1>11 DEF RefInv

\* What was shown is recorded.
LEMMA RefStore ==
  ASSUME RefInv, NEW t \in Job, Store(t)
  PROVE  RefInv'
<1>0. PICK n : n = [content |-> use[t].content, place |-> "image", got |-> use[t].got]
  OBVIOUS
<1>1. /\ UNCHANGED <<original, blobs, manifests, builder, keeper, overlaid, spent>> /\ use[t].at = "store"
      /\ messages' = messages \cup {n} /\ Goes(t, "done")
  BY <1>0 DEF Store
<1>2. use[t] \in UseShape /\ UseOK(t) /\ BlobOK(use[t].content)
  BY DEF RefInv, RefShape, UseShape
<1>3. use' \in [Job -> UseShape] /\ RefOthers(t) /\ use'[t] = [use[t] EXCEPT !.at = "done"]
  BY <1>1, RefGoes DEF RefInv, UsePlace
<1>4. RefShape'
  BY <1>1, <1>3 DEF RefInv, RefShape
<1>5. \A u \in Job : UseOK(u)'
  <2> SUFFICES ASSUME NEW u \in Job PROVE UseOK(u)'
    OBVIOUS
  <2>1. CASE u = t
    BY <2>1, <1>1, <1>2, <1>3 DEF UseOK, UseShape, Building
  <2>2. CASE u # t
    BY <2>2, <1>1, <1>3 DEF RefInv, RefOthers, UseOK, Building, Ref, Blob
  <2> QED BY <2>1, <2>2
<1>6. \A d \in Content : BlobOK(d)'
  BY <1>1 DEF RefInv, BlobOK
<1>7. MessageOK(n)'
  <2>1. use[t].key \in Key /\ use[t].content \in Content /\ manifests[<<use[t].key, use[t].content>>] = "parsed"
    BY <1>1, <1>2 DEF UseOK, UseShape, Ref
  <2>2. blobs[use[t].content].parts # {}
    BY <1>2, <2>1 DEF BlobOK
  <2> QED BY <1>0, <1>1, <1>2, <2>1, <2>2 DEF MessageOK, UseOK
<1>8. \A m \in messages' : MessageOK(m)'
  BY <1>1, <1>7 DEF RefInv, MessageOK
<1> QED BY <1>4, <1>5, <1>6, <1>8 DEF RefInv

\* Nothing of the blobs changes but their lock files.
RefLocksOnly ==
  /\ blobs' \in [Content -> BlobShape]
  /\ \A d \in Content : /\ blobs'[d].source = blobs[d].source /\ blobs'[d].bin = blobs[d].bin
                         /\ blobs'[d].image = blobs[d].image /\ blobs'[d].parts = blobs[d].parts

\* A link is to what is listed, or to bytes that are about to be written.
LEMMA RefPickLink ==
  ASSUME RefInv, NEW t \in Job, PickLink(t)
  PROVE  RefInv'
<1>1. UNCHANGED <<original, manifests, builder, keeper, messages, overlaid, spent>> /\ use[t].at = "link"
  BY DEF PickLink
<1>2. use[t] \in UseShape /\ UseOK(t) /\ Blob(t) \in BlobShape /\ BlobOK(use[t].content) /\ use[t].content \in Content
  BY DEF RefInv, RefShape, Blob, UseShape
<1>3. PICK f \in IF Listed(Blob(t)) = {} THEN {"bin"} ELSE Listed(Blob(t)) :
         /\ use' = [use EXCEPT ![t] = [use[t] EXCEPT !.at = "linking", !.place = f]]
         /\ IF f \in DOMAIN Lock THEN Writes(t, "locks", Blob(t).locks \cup {Lock[f]}) ELSE UNCHANGED blobs
  BY DEF PickLink, RefInv, RefShape
<1>4. f \in LinkPlace /\ (f = "source" => Blob(t).source = use[t].content)
  <2>1. f \in LinkPlace
    BY <1>2, <1>3 DEF Listed, LinkPlace, BlobShape
  <2>2. f = "source" => Blob(t).source # Nothing
    BY <1>2, <1>3 DEF Listed, BlobShape
  <2> QED BY <1>2, <2>1, <2>2 DEF BlobOK, Blob
<1>5. [use[t] EXCEPT !.at = "linking", !.place = f] \in UseShape
  BY <1>2, <1>4 DEF UseShape, UsePlace
<1>6. /\ use' \in [Job -> UseShape] /\ RefOthers(t) /\ use'[t].at = "linking" /\ use'[t].key = use[t].key
      /\ use'[t].content = use[t].content /\ use'[t].place = f
  BY <1>2, <1>3, <1>5 DEF RefInv, RefShape, RefOthers, UseShape
<1>7. RefLocksOnly
  <2>1. CASE f \in DOMAIN Lock
    <3>1. [Blob(t) EXCEPT !.locks = Blob(t).locks \cup {Lock[f]}] \in BlobShape
      BY <1>2, <2>1, LockNames DEF BlobShape
    <3>2. blobs' = [blobs EXCEPT ![use[t].content] = [Blob(t) EXCEPT !.locks = Blob(t).locks \cup {Lock[f]}]]
      BY <1>2, <1>3, <2>1 DEF Writes, Blob, RefInv, RefShape
    <3> QED BY <1>2, <3>1, <3>2 DEF RefLocksOnly, RefInv, RefShape, BlobShape, Blob
  <2>2. CASE f \notin DOMAIN Lock
    BY <1>3, <2>2 DEF RefLocksOnly, RefInv, RefShape
  <2> QED BY <2>1, <2>2
<1>8. RefShape'
  BY <1>1, <1>6, <1>7 DEF RefInv, RefShape, RefLocksOnly
<1>9. \A u \in Job : UseOK(u)'
  <2> SUFFICES ASSUME NEW u \in Job PROVE UseOK(u)'
    OBVIOUS
  <2>1. CASE u = t
    BY <2>1, <1>1, <1>2, <1>4, <1>6, <1>7 DEF UseOK, Building, Blob, RefLocksOnly
  <2>2. CASE u # t
    <3>1. use'[u] = use[u] /\ UseOK(u) /\ use[u].content \in Content
      BY <2>2, <1>6 DEF RefInv, RefShape, RefOthers, UseShape
    <3> QED BY <3>1, <2>2, <1>3, <1>1, <1>7 DEF UseOK, Building, Ref, Blob, RefLocksOnly
  <2> QED BY <2>1, <2>2
<1>10. \A d \in Content : BlobOK(d)'
  BY <1>1, <1>7 DEF RefInv, BlobOK, RefLocksOnly
<1>11. ASSUME NEW m \in messages' PROVE MessageOK(m)'
  BY <1>1, <1>7 DEF RefInv, MessageOK, RefLocksOnly
<1> QED BY <1>8, <1>9, <1>10, <1>11 DEF RefInv

\* A use that ends in the middle leaves its locks, and what it wrote.
LEMMA RefGiveUp ==
  ASSUME RefInv, NEW t \in Job, GiveUp(t)
  PROVE  RefInv'
<1>1. Goes(t, "done") /\ UNCHANGED <<original, blobs, manifests, messages, overlaid>> /\ use[t].at \notin {"idle", "done"}
  BY DEF GiveUp
<1>2. builder' \in [Content -> Job \cup {NoUse}] /\ keeper' \in [Reference -> Job \cup {NoUse}]
  BY DEF GiveUp, Released, RefInv, RefShape
<1>3. spent' \in [writes : Nat, calls : Nat, stops : Nat] /\ spent'.writes = spent.writes
  BY DEF GiveUp, Pay, RefInv, RefShape
<1>4. \A u \in Job \ {t} : use[u].at \in Building => builder'[use[u].content] = u
  BY DEF GiveUp, Released, RefInv, RefShape, UseShape, UseOK
<1> QED BY <1>1, <1>2, <1>3, <1>4, RefMoves DEF UsePlace, Building

\* A link is to bytes of its digest.
LEMMA RefLink ==
  ASSUME RefInv, NEW t \in Job, Link(t)
  PROVE  RefInv'
<1>1. PICK n : n = [content |-> use[t].content, place |-> use[t].place, got |-> "whole"]
  OBVIOUS
<1>2. /\ UNCHANGED <<original, manifests, builder, keeper, overlaid, spent>> /\ use[t].at = "linking"
      /\ messages' = messages \cup {n} /\ Goes(t, "done")
  BY <1>1 DEF Link
<1>3. use[t] \in UseShape /\ UseOK(t) /\ Blob(t) \in BlobShape /\ BlobOK(use[t].content) /\ use[t].content \in Content
  BY DEF RefInv, RefShape, Blob, UseShape
<1>4. use' \in [Job -> UseShape] /\ RefOthers(t) /\ use'[t] = [use[t] EXCEPT !.at = "done"]
  BY <1>2, RefGoes DEF RefInv, UsePlace
<1> DEFINE filled == IF use[t].place = "bin" /\ Blob(t).bin = Nothing THEN [Blob(t) EXCEPT !.bin = use[t].content] ELSE Blob(t)
<1>5. PICK gone \in SUBSET {"source.lock", "bin.lock"} :
         blobs' = [blobs EXCEPT ![use[t].content] = [filled EXCEPT !.locks = filled.locks \ gone]]
  <2>1. PICK gone \in {{}} \cup {{Lock[f]} : f \in {use[t].place} \cap DOMAIN Lock} :
           blobs' = [blobs EXCEPT ![use[t].content] = [filled EXCEPT !.locks = filled.locks \ gone]]
    BY DEF Link
  <2>2. gone \in SUBSET {"source.lock", "bin.lock"}
    BY LockNames
  <2> QED BY <2>1, <2>2
<1>6. PICK b \in BlobShape :
         /\ blobs' = [blobs EXCEPT ![use[t].content] = b]
         /\ b.source = Blob(t).source /\ b.image = Blob(t).image /\ b.parts = Blob(t).parts
         /\ b.bin \in {Blob(t).bin, use[t].content} /\ (use[t].place = "bin" => b.bin = use[t].content)
  <2>1. /\ filled \in BlobShape /\ filled.source = Blob(t).source /\ filled.image = Blob(t).image
        /\ filled.parts = Blob(t).parts
        /\ filled.bin \in {Blob(t).bin, use[t].content} /\ (use[t].place = "bin" => filled.bin = use[t].content)
    BY <1>3 DEF BlobShape, BlobOK, Blob
  <2> HIDE DEF filled
  <2>2. [filled EXCEPT !.locks = filled.locks \ gone] \in BlobShape
    BY <2>1 DEF BlobShape
  <2> QED BY <1>5, <2>1, <2>2 DEF BlobShape
<1> HIDE DEF filled
<1>7. /\ blobs' \in [Content -> BlobShape] /\ blobs'[use[t].content] = b
      /\ \A d \in Content \ {use[t].content} : blobs'[d] = blobs[d]
  BY <1>3, <1>6 DEF RefInv, RefShape
<1>8. RefShape'
  BY <1>2, <1>4, <1>7 DEF RefInv, RefShape
<1>9. ASSUME NEW d \in Content
      PROVE  /\ blobs'[d].source = blobs[d].source /\ blobs'[d].image = blobs[d].image
             /\ blobs'[d].parts = blobs[d].parts /\ blobs'[d].bin \in {blobs[d].bin, d}
  BY <1>6, <1>7 DEF Blob
<1>10. \A u \in Job : UseOK(u)'
  <2> SUFFICES ASSUME NEW u \in Job PROVE UseOK(u)'
    OBVIOUS
  <2>1. CASE u = t
    BY <2>1, <1>2, <1>3, <1>4 DEF UseOK, UseShape, Building
  <2>2. CASE u # t
    <3>1. use'[u] = use[u] /\ UseOK(u) /\ use[u].content \in Content
      BY <2>2, <1>4 DEF RefInv, RefShape, RefOthers, UseShape
    <3> QED BY <3>1, <2>2, <1>3, <1>2, <1>9 DEF UseOK, Building, Ref, Blob
  <2> QED BY <2>1, <2>2
<1>11. ASSUME NEW d \in Content PROVE BlobOK(d)'
  BY <1>2, <1>9 DEF RefInv, BlobOK
<1>12. ASSUME NEW m \in messages' PROVE MessageOK(m)'
  <2>1. CASE m \in messages
    <3>1. MessageOK(m)
      BY <2>1 DEF RefInv
    <3>2. m.content \in Content
      BY <3>1 DEF MessageOK
    <3> QED BY <3>1, <3>2, <1>2, <1>9 DEF MessageOK
  <2>2. CASE m = n
    BY <2>2, <1>1, <1>2, <1>3, <1>6, <1>7 DEF MessageOK, UseOK, LinkPlace, Blob
  <2> QED BY <2>1, <2>2, <1>2
<1> QED BY <1>8, <1>10, <1>11, <1>12 DEF RefInv

\* Every step keeps the invariant.
LEMMA RefNext == RefInv /\ [ReferenceNext]_referenceVars => RefInv'
<1> SUFFICES ASSUME RefInv, [ReferenceNext]_referenceVars PROVE RefInv'
  OBVIOUS
<1>1. CASE Edit
  BY <1>1, RefEdit
<1>2. ASSUME NEW t \in Job,
             \/ Use(t) \/ Copy(t) \/ Put(t) \/ Enter(t) \/ Parse(t) \/ Build(t) \/ Convert(t) \/ Render(t)
             \/ Publish(t) \/ Keep(t) \/ Prompt(t) \/ Store(t) \/ PickLink(t) \/ Link(t) \/ GiveUp(t)
      PROVE  RefInv'
  BY <1>2, RefUse, RefCopy, RefPut, RefEnter, RefParse, RefBuild, RefConvert, RefRender, RefPublish, RefKeep,
     RefPrompt, RefStore, RefPickLink, RefLink, RefGiveUp
<1>3. CASE UNCHANGED referenceVars
  BY <1>3 DEF referenceVars, RefInv, RefShape, UseOK, BlobOK, MessageOK, Ref, Blob
<1> QED BY <1>1, <1>2, <1>3 DEF ReferenceNext

\* What a digest names are its bytes; what a use shows and records is in the
\* manifest of its reference with complete files, and what a record links can be
\* restored, for any uses, media types and bounds (capture_file,
\* _register_snapshot, parse, to_prompt, reference_message_data).
THEOREM ReferencesAreKeptCorrect == ReferenceSpec => []ReferencesAreKept
<1>1. ReferenceSpec => []RefInv
  BY RefInit, RefNext, PTL DEF ReferenceSpec
<1> QED BY <1>1, RefProperties, PTL

-----------------------------------------------------------------------------
(* Part B: Settings.                                                    *)
\* The variables of Settings by their types; a file that is not there is blank.
Values == [Field -> Nat]
File == {x \in [there : BOOLEAN, has : Values] : ~x.there => x.has = Blank}
Files == [Layer -> File]
Lockable == {"local", "global"}
Update == [at : {"off", "lock", "change", "persist"}, paths : SUBSET Lockable, target : Lockable,
           raw : Values, layers : Files, early : BOOLEAN, wants : Values]
Reading == [at : {"off", "open"}, read : [local : BOOLEAN, env : BOOLEAN, global : BOOLEAN],
            layers : Files, got : Values, found : SUBSET Field, crossed : BOOLEAN]

SetShape ==
  /\ files \in Files /\ meant \in Files /\ latest \in Values
  /\ changes \in Nat /\ byHand \in Nat
  /\ locks \in [Lockable -> Writer \cup {Nobody}]
  /\ update \in [Writer -> Update] /\ reading \in [Reader -> Reading]
  /\ excused \in [fields : SUBSET Field, locks : BOOLEAN]

\* What is on file of a field, or was read by an update.
Known(f) ==
  {files[p].has[f] : p \in Layer} \cup {update[w].raw[f] : w \in Writer}
    \cup {update[w].layers[p].has[f] : w \in Writer, p \in Layer}

\* The value of an update is its own: nothing that is known is like it.
FieldOK(f) ==
  /\ \A v \in Known(f) : v <= changes
  /\ \A w \in Writer : /\ update[w].wants[f] <= changes
                       /\ update[w].at # "persist" => update[w].wants[f] = None
                       /\ update[w].wants[f] # None => update[w].wants[f] \notin Known(f)
  /\ \A v, w \in Writer : v # w /\ update[w].wants[f] # None => update[w].wants[f] # update[v].wants[f]

\* Who is about to write has the lock of the file that is written by now, and what
\* it read is still there; what differs in .env was edited by the user.
WriterOK(w) ==
  /\ update[w].at = "lock" => Target(files) \in update[w].paths \/ locks[Target(files)] = w
  /\ update[w].at \in {"change", "persist"} =>
       /\ update[w].target = Target(files) /\ locks[Target(files)] = w
       /\ update[w].raw = files[Target(files)].has /\ update[w].layers.local = files.local
  /\ update[w].at = "persist" /\ update[w].early =>
       /\ update[w].layers.global = files.global
       /\ \A f \in Field \ excused.fields : update[w].layers.env.has[f] = files.env.has[f]

\* A field was found in the first layer that has it.
FoundOK(s, f) ==
  \/ s.layers.local.has[f] # None /\ s.got[f] = s.layers.local.has[f]
  \/ /\ s.layers.local.has[f] = None /\ s.read.env
     /\ \/ s.layers.env.has[f] # None /\ s.got[f] = s.layers.env.has[f]
        \/ s.layers.env.has[f] = None /\ s.read.global /\ s.got[f] = s.layers.global.has[f]

\* What a reader has read of the files was valid at one time, if it is not
\* crossed: while the local file is there, what updates change is in it; without
\* one, in the global file, and no local one appears.
ReaderOK(r) ==
  LET s == reading[r]
  IN  /\ s.at = "off" => s.found = {}
      /\ \A f \in s.found : FoundOK(s, f)
      /\ s.at = "open" /\ ~s.crossed =>
           /\ s.read.env => s.layers.env = files.env
           /\ s.layers.local.there =>
                /\ files.local.there /\ (s.read.global => s.layers.global = files.global)
                /\ Effects([files EXCEPT !.local = s.layers.local]) \in seen
           /\ ~s.layers.local.there =>
                /\ ~files.local.there
                /\ s.read.global => Effects([files EXCEPT !.global = s.layers.global]) \in seen

\* What was set last is in the file that is written.
LatestOK ==
  \A f \in Field \ excused.fields : latest[f] # None => files[Target(files)].has[f] = latest[f]

\* The first part of the property, which is its own invariant.
UpdatesOK == \A p \in Layer, f \in Field : files[p].has[f] = meant[p].has[f] \/ f \in excused.fields

\* The inductive invariant.  It says nothing of writers and readers once the
\* user has added the project's file while updates were under way.
SetInv ==
  /\ SetShape
  /\ Effects(files) \in seen
  /\ \A f \in Field : FieldOK(f)
  /\ ~excused.locks => /\ \A w \in Writer : WriterOK(w)
                       /\ UpdatesOK /\ LatestOK
                       /\ \A r \in Reader : ReaderOK(r)

-----------------------------------------------------------------------------

\* Files and their fields.
LEMMA FileFacts ==
  /\ NoFile \in File /\ ~NoFile.there /\ NoFile.has = Blank /\ Blank \in Values
  /\ \A v \in Values : Having(v) \in File /\ Having(v).there /\ Having(v).has = v
  /\ \A f \in Field : Blank[f] = None
  /\ \A x \in File : x.there \in BOOLEAN /\ x.has \in Values /\ (~x.there => x.has = Blank)
  BY DEF NoFile, File, Values, Blank, Having, None

\* The layers of the files.
LEMMA LayerFacts ==
  ASSUME NEW m \in Files
  PROVE  /\ m.local \in File /\ m.env \in File /\ m.global \in File
         /\ Target(m) \in Lockable /\ Lockable \subseteq Layer
         /\ \A x \in File, p \in Layer : [m EXCEPT ![p] = x] \in Files
  BY DEF Files, Layer, Target, Lockable

\* The effective value of a field is that of one of the layers.
LEMMA EffectFacts ==
  ASSUME NEW m \in Files
  PROVE  /\ Effects(m) \in Values
         /\ \A f \in Field : Effects(m)[f] = Effective(m, f)
         /\ \A f \in Field : Effective(m, f) \in {m.local.has[f], m.env.has[f], m.global.has[f]}
  BY LayerFacts, FileFacts DEF Effects, Effective, Values

\* The invariant is as strong as the property.
LEMMA SetProperties == SetInv => SettingsAreKept
<1> SUFFICES ASSUME SetInv, ~excused.locks PROVE UpdatesOK /\ LatestCounts /\ SnapshotsAreOfOneTime
  BY DEF SettingsAreKept, UpdatesAreKept, LatestCounts, SnapshotsAreOfOneTime, UpdatesOK
<1>1. UpdatesOK
  BY DEF SetInv
<1>2. LatestCounts
  <2> SUFFICES ASSUME NEW f \in Field \ excused.fields, latest[f] # None
               PROVE  Effective(files, f) = latest[f] \/ files.env.has[f] # None
    BY DEF LatestCounts
  <2>1. files[Target(files)].has[f] = latest[f]
    BY DEF SetInv, LatestOK
  <2>2. ~files.local.there => files.local.has[f] = None
    BY LayerFacts, FileFacts DEF SetInv, SetShape
  <2> QED BY <2>1, <2>2 DEF Target, Effective
<1>3. SnapshotsAreOfOneTime
  <2> SUFFICES ASSUME NEW r \in Reader, reading[r].found = Field, ~reading[r].crossed
               PROVE  reading[r].got \in seen
    BY DEF SnapshotsAreOfOneTime
  <2> DEFINE s == reading[r]
  <2>1. s \in Reading /\ ReaderOK(r) /\ files \in Files /\ s.layers \in Files /\ Effects(files) \in seen
    BY DEF SetInv, SetShape, Reading
  <2>2. CASE s.at = "off"
    <3>1. Field = {}
      BY <2>1, <2>2 DEF ReaderOK
    <3>2. s.got = Effects(files)
      BY <3>1, <2>1, EffectFacts DEF Reading, Values
    <3> QED BY <2>1, <3>2
  <2>3. CASE s.at = "open" /\ s.layers.local.there
    <3> DEFINE m == [files EXCEPT !.local = s.layers.local]
    <3>1. m \in Files /\ m.local = s.layers.local /\ m.env = files.env /\ m.global = files.global
      BY <2>1, LayerFacts DEF Files, Layer
    <3>2. Effects(m) \in seen
      BY <2>1, <2>3 DEF ReaderOK
    <3> HIDE DEF m
    <3>3. ASSUME NEW f \in Field PROVE s.got[f] = Effective(m, f)
      BY <2>1, <2>3, <3>1 DEF ReaderOK, FoundOK, Effective
    <3>4. s.got = Effects(m)
      BY <2>1, <3>1, <3>3, EffectFacts DEF Reading, Values
    <3> QED BY <3>2, <3>4
  <2>4. CASE s.at = "open" /\ ~s.layers.local.there
    <3> DEFINE m == IF s.read.global THEN [files EXCEPT !.global = s.layers.global] ELSE files
    <3>1. /\ m \in Files /\ m.local = files.local /\ m.env = files.env
          /\ s.read.global => m.global = s.layers.global
      BY <2>1, LayerFacts DEF Files, Layer
    <3>2. Effects(m) \in seen
      BY <2>1, <2>4 DEF ReaderOK
    <3> HIDE DEF m
    <3>3. s.layers.local.has = Blank /\ files.local.has = Blank
      BY <2>1, <2>4, LayerFacts, FileFacts DEF ReaderOK
    <3>4. ASSUME NEW f \in Field PROVE s.got[f] = Effective(m, f)
      BY <2>1, <2>4, <3>1, <3>3, FileFacts DEF ReaderOK, FoundOK, Effective
    <3>5. s.got = Effects(m)
      BY <2>1, <3>1, <3>4, EffectFacts DEF Reading, Values
    <3> QED BY <3>2, <3>5
  <2> QED BY <2>1, <2>2, <2>3, <2>4 DEF Reading
<1> QED BY <1>1, <1>2, <1>3

\* Nothing was changed yet.
LEMMA SetInit == SettingsInit => SetInv
<1> SUFFICES ASSUME SettingsInit PROVE SetInv
  OBVIOUS
<1>1. PICK l, e, g \in {NoFile, Having([f \in Field |-> 1])} \cup {Having([Blank EXCEPT ![f] = 1]) : f \in Field} :
         files = [local |-> l, env |-> e, global |-> g]
  BY DEF SettingsInit
<1>2. ASSUME NEW x \in {NoFile, Having([h \in Field |-> 1])} \cup {Having([Blank EXCEPT ![h] = 1]) : h \in Field}
      PROVE  x \in File /\ \A f \in Field : x.has[f] <= 1
  <2>1. CASE x = NoFile
    BY <2>1, FileFacts DEF None
  <2>2. ASSUME NEW v \in Values, x = Having(v), \A f \in Field : v[f] <= 1
        PROVE  x \in File /\ \A f \in Field : x.has[f] <= 1
    BY <2>2, FileFacts
  <2>3. [h \in Field |-> 1] \in Values /\ \A f \in Field : [h \in Field |-> 1][f] <= 1
    BY DEF Values
  <2>4. ASSUME NEW k \in Field
        PROVE  /\ [Blank EXCEPT ![k] = 1] \in Values
               /\ \A f \in Field : [Blank EXCEPT ![k] = 1][f] <= 1
    <3>1. PICK b : b = [Blank EXCEPT ![k] = 1]
      OBVIOUS
    <3>2. b \in [Field -> Nat] /\ \A f \in Field : b[f] = IF f = k THEN 1 ELSE 0
      BY <3>1 DEF Blank, None
    <3>3. ASSUME NEW f \in Field PROVE b[f] <= 1
      <4>1. b[f] = 1 \/ b[f] = 0
        BY <3>2
      <4> QED BY <4>1
    <3> QED BY <3>1, <3>2, <3>3 DEF Values
  <2> QED BY <2>1, <2>2, <2>3, <2>4
<1>3. files \in Files /\ files.local = l /\ files.env = e /\ files.global = g
  <2>1. l \in File /\ e \in File /\ g \in File
    BY <1>2
  <2> QED BY <1>1, <2>1 DEF Files, Layer
<1>4. [x \in Layer |-> NoFile] \in Files /\ \A p \in Layer : [x \in Layer |-> NoFile][p].has = Blank
  BY FileFacts DEF Files
<1>5. Quiet \in Update /\ Asleep \in Reading
  BY <1>4, FileFacts DEF Quiet, Asleep, Update, Reading, Unread, Lockable
<1>6. SetShape
  BY <1>3, <1>5, FileFacts DEF SettingsInit, SetShape, Lockable
<1>7. Effects(files) \in seen
  BY DEF SettingsInit
<1>8. ASSUME NEW f \in Field PROVE FieldOK(f)
  <2>1. \A p \in Layer : files[p].has[f] <= 1
    BY <1>2, <1>3 DEF Layer
  <2> QED BY <2>1, <1>4, FileFacts DEF SettingsInit, FieldOK, Known, Quiet, None
<1>9. \A w \in Writer : WriterOK(w)
  BY DEF SettingsInit, WriterOK, Quiet
<1>10. UpdatesOK /\ LatestOK
  BY FileFacts DEF SettingsInit, UpdatesOK, LatestOK
<1>11. \A r \in Reader : ReaderOK(r)
  BY DEF SettingsInit, ReaderOK, Asleep
<1> QED BY <1>6, <1>7, <1>8, <1>9, <1>10, <1>11 DEF SetInv
-----------------------------------------------------------------------------
\* What is known of a field, and that it is known.
LEMMA KnownOf ==
  ASSUME NEW f
  PROVE  /\ \A p \in Layer : files[p].has[f] \in Known(f)
         /\ \A w \in Writer : update[w].raw[f] \in Known(f)
         /\ \A w \in Writer, p \in Layer : update[w].layers[p].has[f] \in Known(f)
  BY SMTT(40) DEF Known

\* What FieldOK(f) needs: what is known of f does not grow.
LEMMA KnownShrinks ==
  ASSUME NEW f \in Field, FieldOK(f), Known(f)' \subseteq Known(f), changes' = changes, changes \in Nat,
         \A w \in Writer : update'[w].wants[f] \in {update[w].wants[f], None}
                         /\ (update'[w].at # "persist" => update'[w].wants[f] = None)
  PROVE  FieldOK(f)'
  BY DEF FieldOK, None

\* A reader's step, or one that no reader sees.
LEMMA FieldsKeep ==
  ASSUME SetInv, UNCHANGED <<files, update, changes>>
  PROVE  \A f \in Field : FieldOK(f)'
  BY SMTT(40) DEF SetInv, FieldOK, Known

\* The locks of an update include that of the file it will write.
LEMMA SetPlan ==
  ASSUME SetInv, NEW w \in Writer, Plan(w)
  PROVE  SetInv'
<1>1. UNCHANGED <<files, locks, reading, changes, byHand, meant, latest, seen, excused>> /\ update[w].at = "off"
  BY DEF Plan
<1>2. PICK paths \in SUBSET Lockable :
         /\ paths = {p \in {"local", "global"} : files[p].there} \cup {Target(files)}
         /\ update' = [update EXCEPT ![w] = [Quiet EXCEPT !.at = "lock", !.paths = paths]]
  BY LayerFacts DEF Plan, SetInv, SetShape, Lockable
<1>3. Quiet \in Update /\ Quiet.wants = Blank /\ Quiet.raw = Blank /\ \A p \in Layer : Quiet.layers[p] = NoFile
  BY FileFacts DEF Quiet, Update, Lockable, Files
<1>4. PICK u \in Update :
         /\ update' = [update EXCEPT ![w] = u]
         /\ u.at = "lock" /\ u.paths = paths /\ u.wants = Blank /\ u.raw = Blank /\ \A p \in Layer : u.layers[p] = NoFile
  <2>1. PICK q \in Update : q = Quiet
    BY <1>3
  <2>2. [q EXCEPT !.at = "lock", !.paths = paths] \in Update
    BY DEF Update
  <2>3. PICK u : u = [q EXCEPT !.at = "lock", !.paths = paths]
    OBVIOUS
  <2>4. u.at = "lock" /\ u.paths = paths /\ u.wants = q.wants /\ u.raw = q.raw /\ u.layers = q.layers
    BY <2>3 DEF Update
  <2> QED BY <1>2, <1>3, <2>1, <2>2, <2>3, <2>4
<1>5. update' \in [Writer -> Update] /\ update'[w] = u /\ \A v \in Writer \ {w} : update'[v] = update[v]
  BY <1>4 DEF SetInv, SetShape
<1>6. SetShape'
  BY <1>1, <1>5 DEF SetInv, SetShape
<1>7. ASSUME NEW f \in Field PROVE FieldOK(f)'
  <2>1. FieldOK(f) /\ changes \in Nat
    BY DEF SetInv, SetShape
  <2>2. u.raw[f] = None /\ u.wants[f] = None /\ \A p \in Layer : u.layers[p].has[f] = None
    BY <1>4, FileFacts
  <2>3. ASSUME NEW v \in Writer
        PROVE  /\ update'[v].raw[f] \in Known(f) \cup {None}
               /\ \A p \in Layer : update'[v].layers[p].has[f] \in Known(f) \cup {None}
               /\ update'[v].wants[f] = None \/ (v # w /\ update'[v] = update[v])
    <3>1. CASE v = w
      BY <3>1, <2>2, <1>5
    <3>2. CASE v # w
      BY <3>2, <1>5, KnownOf
    <3> QED BY <3>1, <3>2
  <2>4. Known(f)' = {files'[q].has[f] : q \in Layer} \cup {update'[v].raw[f] : v \in Writer}
                      \cup {update'[v].layers[q].has[f] : v \in Writer, q \in Layer}
    BY DEF Known
  <2>5. Known(f)' \subseteq Known(f) \cup {None}
    BY <2>3, <2>4, <1>1, KnownOf
  <2>6. \A v \in Known(f)' : v <= changes
    BY <2>1, <2>5 DEF FieldOK, None
  <2>7. ASSUME NEW v \in Writer
        PROVE  /\ update'[v].wants[f] <= changes
               /\ update'[v].at # "persist" => update'[v].wants[f] = None
               /\ update'[v].wants[f] # None => update'[v].wants[f] \notin Known(f)'
    <3>1. CASE v = w
      BY <3>1, <2>1, <2>2, <1>5 DEF None
    <3>2. CASE v # w
      BY <3>2, <2>1, <2>5, <1>5 DEF FieldOK
    <3> QED BY <3>1, <3>2
  <2>8. ASSUME NEW v \in Writer, NEW x \in Writer, v # x, update'[x].wants[f] # None
        PROVE  update'[x].wants[f] # update'[v].wants[f]
    BY <2>8, <2>1, <2>3 DEF FieldOK
  <2> QED BY <2>6, <2>7, <2>8, <1>1 DEF FieldOK
<1>8. ASSUME ~excused.locks, NEW v \in Writer PROVE WriterOK(v)'
  <2>1. CASE v = w
    BY <2>1, <1>1, <1>2, <1>4, <1>5 DEF WriterOK
  <2>2. CASE v # w
    BY <2>2, <1>1, <1>5, <1>8 DEF SetInv, WriterOK
  <2> QED BY <2>1, <2>2
<1>9. ASSUME ~excused.locks PROVE UpdatesOK' /\ LatestOK' /\ \A r \in Reader : ReaderOK(r)'
  BY <1>1, <1>9 DEF SetInv, UpdatesOK, LatestOK, ReaderOK
<1> QED BY <1>1, <1>6, <1>7, <1>8, <1>9 DEF SetInv

\* A lock is taken that nobody has.
LEMMA SetTakeNext ==
  ASSUME SetInv, NEW w \in Writer, TakeNext(w)
  PROVE  SetInv'
<1> DEFINE p == IF "local" \in update[w].paths THEN "local" ELSE "global"
<1>1. /\ UNCHANGED <<files, reading, changes, byHand, meant, latest, seen, excused>> /\ update[w].at = "lock"
      /\ locks[p] = Nobody /\ locks' = [locks EXCEPT ![p] = w] /\ p \in update[w].paths /\ p \in Lockable
  BY DEF TakeNext, SetInv, SetShape, Update, Lockable
<1>2. PICK u \in Update :
         /\ update' = [update EXCEPT ![w] = u]
         /\ u.at = "lock" /\ u.paths = update[w].paths \ {p} /\ u.wants = update[w].wants
         /\ u.raw = update[w].raw /\ u.layers = update[w].layers
  <2>1. update[w] \in Update
    BY DEF SetInv, SetShape
  <2>2. update' = [update EXCEPT ![w] = [update[w] EXCEPT !.paths = update[w].paths \ {p}]]
    BY DEF TakeNext, SetInv, SetShape
  <2>3. [update[w] EXCEPT !.paths = update[w].paths \ {p}] \in Update
    BY <2>1 DEF Update
  <2> QED BY <1>1, <2>1, <2>2, <2>3 DEF Update
<1> HIDE DEF p
<1>3. update' \in [Writer -> Update] /\ update'[w] = u /\ \A v \in Writer \ {w} : update'[v] = update[v]
  BY <1>2 DEF SetInv, SetShape
<1>4. SetShape'
  BY <1>1, <1>3 DEF SetInv, SetShape
<1>5. ASSUME NEW f \in Field PROVE FieldOK(f)'
  <2>1. \A v \in Writer : /\ update'[v].wants = update[v].wants /\ update'[v].raw = update[v].raw
                          /\ update'[v].layers = update[v].layers /\ update'[v].at = update[v].at
    BY <1>1, <1>2, <1>3
  <2>2. Known(f)' = Known(f)
    BY <1>1, <2>1 DEF Known
  <2> QED BY <1>1, <2>1, <2>2 DEF SetInv, FieldOK
<1>6. ASSUME ~excused.locks, NEW v \in Writer PROVE WriterOK(v)'
  <2>1. CASE v = w
    BY <2>1, <1>1, <1>2, <1>3, <1>6 DEF SetInv, SetShape, WriterOK
  <2>2. CASE v # w
    <3>1. locks[p] # v
      BY <1>1, SettingsAssumption
    <3>2. locks[Target(files)] = v => locks'[Target(files)] = v
      BY <3>1, <1>1 DEF SetInv, SetShape
    <3> QED BY <2>2, <3>2, <1>1, <1>3, <1>6 DEF SetInv, WriterOK
  <2> QED BY <2>1, <2>2
<1>7. ASSUME ~excused.locks PROVE UpdatesOK' /\ LatestOK' /\ \A r \in Reader : ReaderOK(r)'
  BY <1>1, <1>7 DEF SetInv, UpdatesOK, LatestOK, ReaderOK
<1> QED BY <1>1, <1>4, <1>5, <1>6, <1>7 DEF SetInv

\* With its locks, an update reads what nobody else can change.
LEMMA SetReadLatest ==
  ASSUME SetInv, NEW w \in Writer, ReadLatest(w)
  PROVE  SetInv'
<1>1. /\ UNCHANGED <<files, locks, reading, changes, byHand, meant, latest, seen, excused>>
      /\ update[w].at = "lock" /\ update[w].paths = {}
  BY DEF ReadLatest
<1>2. update[w] \in Update /\ files \in Files /\ Target(files) \in Lockable /\ files[Target(files)].has \in Values
      /\ files.local \in File
  BY LayerFacts, FileFacts DEF SetInv, SetShape, Files
<1>3. PICK u \in Update :
         /\ update' = [update EXCEPT ![w] = u]
         /\ u.at = "change" /\ u.target = Target(files) /\ u.wants = update[w].wants
         /\ u.raw = files[Target(files)].has /\ u.layers = [update[w].layers EXCEPT !.local = files.local]
  <2> DEFINE x == [update[w] EXCEPT !.at = "change", !.target = Target(files), !.raw = files[Target(files)].has,
                                    !.layers = [update[w].layers EXCEPT !.local = files.local]]
  <2>1. update' = [update EXCEPT ![w] = x]
    BY DEF ReadLatest, SetInv, SetShape
  <2>2. [update[w].layers EXCEPT !.local = files.local] \in Files
    BY <1>2, LayerFacts DEF Update, Files, Layer
  <2>3. [update[w] EXCEPT !.at = "change"] \in Update
    BY <1>2 DEF Update
  <2>4. [[update[w] EXCEPT !.at = "change"] EXCEPT !.target = Target(files)] \in Update
    BY <1>2, <2>3 DEF Update
  <2>5. x \in Update
    BY <1>2, <2>2, <2>4 DEF Update
  <2> QED BY <1>2, <2>1, <2>5 DEF Update
<1>4. update' \in [Writer -> Update] /\ update'[w] = u /\ \A v \in Writer \ {w} : update'[v] = update[v]
  BY <1>3 DEF SetInv, SetShape
<1>5. SetShape'
  BY <1>1, <1>4 DEF SetInv, SetShape
<1>6. ASSUME NEW f \in Field PROVE FieldOK(f)'
  <2>1. update[w].layers \in Files /\ Target(files) \in Layer
    BY <1>2, LayerFacts DEF Update
  <2>2. ASSUME NEW p \in Layer PROVE u.layers[p].has[f] \in Known(f)
    <3>1. u.layers[p] = update[w].layers[p] \/ (p = "local" /\ u.layers[p] = files[p])
      BY <1>3, <2>1 DEF Files, Layer
    <3> QED BY <3>1, KnownOf
  <2>3. u.raw[f] \in Known(f)
    BY <1>3, <2>1, KnownOf
  <2>4. Known(f)' \subseteq Known(f)
    <3>1. ASSUME NEW v \in Writer PROVE update'[v].raw[f] \in Known(f) /\ \A p \in Layer : update'[v].layers[p].has[f] \in Known(f)
      <4>1. CASE v = w
        BY <4>1, <1>4, <2>2, <2>3
      <4>2. CASE v # w
        BY <4>2, <1>4, KnownOf
      <4> QED BY <4>1, <4>2
    <3>2. \A p \in Layer : files'[p].has[f] \in Known(f)
      BY <1>1, KnownOf
    <3>3. Known(f)' = {files'[p].has[f] : p \in Layer} \cup {update'[v].raw[f] : v \in Writer}
                        \cup {update'[v].layers[p].has[f] : v \in Writer, p \in Layer}
      BY DEF Known
    <3> HIDE DEF Known
    <3> QED BY <3>1, <3>2, <3>3
  <2>5. FieldOK(f) /\ changes \in Nat
    BY DEF SetInv, SetShape
  <2>6. \A v \in Writer : update'[v].wants = update[v].wants /\ (update'[v].at = "persist" <=> update[v].at = "persist")
    BY <1>1, <1>3, <1>4
  <2> QED BY <1>1, <2>4, <2>5, <2>6 DEF FieldOK
<1>7. ASSUME ~excused.locks, NEW v \in Writer PROVE WriterOK(v)'
  <2>1. CASE v = w
    <3>1. u.layers.local = files.local
      BY <1>2, <1>3 DEF Update, Files, Layer
    <3> QED BY <2>1, <3>1, <1>1, <1>3, <1>4, <1>7 DEF SetInv, WriterOK
  <2>2. CASE v # w
    BY <2>2, <1>1, <1>4, <1>7 DEF SetInv, WriterOK
  <2> QED BY <2>1, <2>2
<1>8. ASSUME ~excused.locks PROVE UpdatesOK' /\ LatestOK' /\ \A r \in Reader : ReaderOK(r)'
  BY <1>1, <1>8 DEF SetInv, UpdatesOK, LatestOK, ReaderOK
<1> QED BY <1>1, <1>5, <1>6, <1>7, <1>8 DEF SetInv

\* The values of an update are new.
LEMMA SetChange ==
  ASSUME SetInv, NEW w \in Writer, Change(w)
  PROVE  SetInv'
<1>1. /\ UNCHANGED <<files, locks, reading, byHand, meant, latest, seen, excused>>
      /\ update[w].at = "change" /\ changes' = changes + 1 /\ changes \in Nat
  BY DEF Change, SetInv, SetShape
<1>2. update[w] \in Update /\ files \in Files /\ update[w].layers \in Files /\ update[w].layers.local \in File
  BY LayerFacts DEF SetInv, SetShape, Update
<1>3. PICK set \in (SUBSET Field) \ {{}}, looks \in BOOLEAN :
        update' = [update EXCEPT ![w] = [update[w] EXCEPT !.at = "persist", !.early = looks,
                    !.layers = IF looks THEN [files EXCEPT !.local = update[w].layers.local] ELSE update[w].layers,
                    !.wants = [f \in Field |-> IF f \in set THEN changes + 1 ELSE None]]]
  BY DEF Change
<1>4. PICK want : want = [f \in Field |-> IF f \in set THEN changes + 1 ELSE None]
  OBVIOUS
<1>5. want \in Values /\ \A f \in Field : want[f] \in {None, changes + 1}
  BY <1>1, <1>4 DEF Values, None
<1>6. PICK lay \in Files :
         /\ lay = IF looks THEN [files EXCEPT !.local = update[w].layers.local] ELSE update[w].layers
         /\ lay.local = update[w].layers.local
         /\ looks => lay.env = files.env /\ lay.global = files.global
         /\ \A p \in Layer : lay[p] \in {files[p], update[w].layers[p]}
  <2>1. CASE looks
    <3>1. PICK lay : lay = [files EXCEPT !.local = update[w].layers.local]
      OBVIOUS
    <3>2. lay \in Files /\ lay.local = update[w].layers.local /\ lay.env = files.env /\ lay.global = files.global
      BY <3>1, <1>2 DEF Files, Layer
    <3>3. \A p \in Layer : lay[p] \in {files[p], update[w].layers[p]}
      BY <3>2 DEF Layer
    <3> QED BY <2>1, <3>1, <3>2, <3>3
  <2>2. CASE ~looks
    BY <2>2, <1>2
  <2> QED BY <2>1, <2>2
<1>7. PICK u \in Update :
         /\ update' = [update EXCEPT ![w] = u]
         /\ u.at = "persist" /\ u.early = looks /\ u.layers = lay /\ u.wants = want
         /\ u.raw = update[w].raw /\ u.target = update[w].target
  <2>1. [update[w] EXCEPT !.at = "persist"] \in Update
    BY <1>2 DEF Update
  <2>2. [[update[w] EXCEPT !.at = "persist"] EXCEPT !.early = looks] \in Update
    BY <2>1 DEF Update
  <2>3. PICK u : u = [update[w] EXCEPT !.at = "persist", !.early = looks, !.layers = lay, !.wants = want]
    OBVIOUS
  <2>4. u \in Update
    BY <1>2, <1>5, <1>6, <2>2, <2>3 DEF Update
  <2> QED BY <1>2, <1>3, <1>4, <1>6, <2>3, <2>4 DEF Update
<1>8. update' \in [Writer -> Update] /\ update'[w] = u /\ \A v \in Writer \ {w} : update'[v] = update[v]
  BY <1>7 DEF SetInv, SetShape
<1>9. SetShape'
  BY <1>1, <1>8 DEF SetInv, SetShape
<1>10. ASSUME NEW f \in Field PROVE FieldOK(f)'
  <2>1. Known(f)' \subseteq Known(f)
    <3>1. ASSUME NEW v \in Writer PROVE update'[v].raw[f] \in Known(f) /\ \A p \in Layer : update'[v].layers[p].has[f] \in Known(f)
      <4>1. CASE v = w
        <5>1. \A p \in Layer : lay[p].has[f] \in Known(f)
          BY <1>6, KnownOf
        <5> QED BY <4>1, <5>1, <1>7, <1>8, KnownOf
      <4>2. CASE v # w
        BY <4>2, <1>8, KnownOf
      <4> QED BY <4>1, <4>2
    <3>2. \A p \in Layer : files'[p].has[f] \in Known(f)
      BY <1>1, KnownOf
    <3>3. Known(f)' = {files'[p].has[f] : p \in Layer} \cup {update'[v].raw[f] : v \in Writer}
                        \cup {update'[v].layers[p].has[f] : v \in Writer, p \in Layer}
      BY DEF Known
    <3> QED BY <3>1, <3>2, <3>3
  <2>2. FieldOK(f) /\ \A k \in Known(f) : k \in Nat
    <3>1. files \in Files /\ \A v \in Writer : update[v].raw \in Values /\ update[v].layers \in Files
      BY DEF SetInv, SetShape, Update
    <3> QED BY <3>1, FileFacts DEF SetInv, Known, Files, Values
  <2>3. \A k \in Known(f)' : k <= changes /\ k <= changes'
    BY <1>1, <2>1, <2>2 DEF FieldOK
  <2>4. \A v \in Writer : update[v].wants[f] \in Nat /\ update[v].wants[f] <= changes
    BY <2>2 DEF FieldOK, SetInv, SetShape, Update, Values
  <2>5. want[f] # None => want[f] = changes + 1
    BY <1>5
  <2>6. ASSUME NEW v \in Writer
        PROVE  /\ update'[v].wants[f] <= changes'
               /\ update'[v].at # "persist" => update'[v].wants[f] = None
               /\ update'[v].wants[f] # None => update'[v].wants[f] \notin Known(f)'
    <3>1. CASE v = w
      BY <3>1, <1>1, <1>5, <1>7, <1>8, <2>3 DEF None
    <3>2. CASE v # w
      BY <3>2, <1>1, <1>8, <2>1, <2>2, <2>4 DEF FieldOK
    <3> QED BY <3>1, <3>2
  <2>7. ASSUME NEW v \in Writer, NEW x \in Writer, v # x, update'[x].wants[f] # None
        PROVE  update'[x].wants[f] # update'[v].wants[f]
    <3>1. CASE x = w
      BY <3>1, <2>7, <1>1, <1>7, <1>8, <2>4, <2>5
    <3>2. CASE v = w
      BY <3>2, <2>7, <1>1, <1>5, <1>7, <1>8, <2>4
    <3>3. CASE x # w /\ v # w
      BY <3>3, <2>7, <1>8, <2>2 DEF FieldOK
    <3> QED BY <3>1, <3>2, <3>3
  <2> QED BY <2>3, <2>6, <2>7 DEF FieldOK
<1>11. ASSUME ~excused.locks, NEW v \in Writer PROVE WriterOK(v)'
  <2>1. CASE v = w
    <3>1. WriterOK(w)
      BY <1>11 DEF SetInv
    <3> QED BY <2>1, <3>1, <1>1, <1>6, <1>7, <1>8 DEF WriterOK
  <2>2. CASE v # w
    BY <2>2, <1>1, <1>8, <1>11 DEF SetInv, WriterOK
  <2> QED BY <2>1, <2>2
<1>12. ASSUME ~excused.locks PROVE UpdatesOK' /\ LatestOK' /\ \A r \in Reader : ReaderOK(r)'
  BY <1>1, <1>12 DEF SetInv, UpdatesOK, LatestOK, ReaderOK
<1> QED BY <1>1, <1>9, <1>10, <1>11, <1>12 DEF SetInv

\* An update that gives up leaves its locks.
LEMMA SetRefuse ==
  ASSUME SetInv, NEW w \in Writer, Refuse(w)
  PROVE  SetInv'
<1>1. /\ UNCHANGED <<files, reading, changes, byHand, meant, latest, seen, excused>>
      /\ update[w].at = "change"
      /\ locks' = [p \in DOMAIN locks |-> IF locks[p] = w THEN Nobody ELSE locks[p]]
  BY DEF Refuse
<1>2. update[w] \in Update
  BY DEF SetInv, SetShape
<1>3. PICK u \in Update :
         /\ update' = [update EXCEPT ![w] = u]
         /\ u.at = "off" /\ u.layers = update[w].layers /\ u.wants = update[w].wants /\ u.raw = update[w].raw
  <2>1. PICK u : u = [update[w] EXCEPT !.at = "off"]
    OBVIOUS
  <2>2. u \in Update
    BY <1>2, <2>1 DEF Update
  <2> QED BY <1>2, <2>1, <2>2 DEF Refuse, Update, SetInv, SetShape
<1>4. update' \in [Writer -> Update] /\ update'[w] = u /\ \A v \in Writer \ {w} : update'[v] = update[v]
  BY <1>3 DEF SetInv, SetShape
<1>5. SetShape'
  BY <1>1, <1>4 DEF SetInv, SetShape
<1>6. ASSUME NEW f \in Field PROVE FieldOK(f)'
  <2>1. \A v \in Writer : /\ update'[v].wants = update[v].wants /\ update'[v].raw = update[v].raw
                          /\ update'[v].layers = update[v].layers
                          /\ (update'[v].at = "persist" <=> update[v].at = "persist")
    BY <1>1, <1>3, <1>4
  <2>2. Known(f)' = Known(f)
    BY <1>1, <2>1 DEF Known
  <2> QED BY <1>1, <2>1, <2>2 DEF SetInv, FieldOK
<1>7. ASSUME ~excused.locks, NEW v \in Writer PROVE WriterOK(v)'
  <2>1. CASE v = w
    BY <2>1, <1>3, <1>4 DEF WriterOK
  <2>2. CASE v # w
    <3>1. Target(files) \in Lockable
      BY LayerFacts DEF SetInv, SetShape
    <3>2. locks[Target(files)] = v => locks'[Target(files)] = v
      BY <2>2, <3>1, <1>1 DEF SetInv, SetShape
    <3> QED BY <2>2, <3>2, <1>1, <1>4, <1>7 DEF SetInv, WriterOK
  <2> QED BY <2>1, <2>2
<1>8. ASSUME ~excused.locks PROVE UpdatesOK' /\ LatestOK' /\ \A r \in Reader : ReaderOK(r)'
  BY <1>1, <1>8 DEF SetInv, UpdatesOK, LatestOK, ReaderOK
<1> QED BY <1>1, <1>5, <1>6, <1>7, <1>8 DEF SetInv

\* The layers that _persist_changes compares, and what they say.
LayersBefore(w) == [files EXCEPT !.local = update[w].layers.local]
LayersAfter(w) == IF update[w].early THEN update[w].layers ELSE LayersBefore(w)
Was(w, f) == Effective(LayersBefore(w), f)
Is(w, f) == IF update[w].wants[f] # None THEN update[w].wants[f] ELSE Effective(LayersAfter(w), f)

\* What Persist(w) writes of each field.
LEMMA PersistWrites ==
  ASSUME SetInv, NEW w \in Writer, Persist(w)
  PROVE  /\ update[w].at = "persist" /\ update' = [update EXCEPT ![w] = Quiet]
         /\ UNCHANGED <<reading, changes, byHand, excused>>
         /\ locks' = [p \in DOMAIN locks |-> IF locks[p] = w THEN Nobody ELSE locks[p]]
         /\ seen' = seen \cup {Effects(files')}
         /\ latest' = [f \in Field |-> IF update[w].wants[f] # None THEN update[w].wants[f] ELSE latest[f]]
         /\ \E new, own \in [Field -> Nat] :
              /\ files' = [files EXCEPT ![update[w].target] = Having(new)]
              /\ meant' = [meant EXCEPT ![update[w].target] = Having(own)]
              /\ \A f \in Field :
                   /\ new[f] = IF Is(w, f) # Was(w, f) THEN Is(w, f) ELSE update[w].raw[f]
                   /\ own[f] = IF update[w].wants[f] # None THEN update[w].wants[f] ELSE meant[update[w].target].has[f]
<1>1. /\ update[w] \in Update /\ files \in Files /\ meant \in Files
      /\ LayersBefore(w) \in Files /\ LayersAfter(w) \in Files /\ update[w].target \in Layer
  BY LayerFacts DEF SetInv, SetShape, Update, LayersBefore, LayersAfter, Layer, Lockable
<1>2. PICK new : new = [f \in Field |-> IF Is(w, f) # Was(w, f) THEN Is(w, f) ELSE update[w].raw[f]]
  OBVIOUS
<1>3. PICK own : own = [f \in Field |-> IF update[w].wants[f] # None THEN update[w].wants[f]
                                        ELSE meant[update[w].target].has[f]]
  OBVIOUS
<1>4. ASSUME NEW f \in Field
      PROVE  /\ Was(w, f) \in Nat /\ Is(w, f) \in Nat /\ update[w].raw[f] \in Nat /\ update[w].wants[f] \in Nat
             /\ meant[update[w].target].has[f] \in Nat
  <2>1. Effective(LayersBefore(w), f) \in Nat /\ Effective(LayersAfter(w), f) \in Nat
    BY <1>1, EffectFacts DEF Values
  <2>2. update[w].raw[f] \in Nat /\ update[w].wants[f] \in Nat
    BY <1>1 DEF Update, Values
  <2>3. meant[update[w].target].has[f] \in Nat
    BY <1>1, FileFacts DEF Files, Values
  <2> QED BY <2>1, <2>2, <2>3 DEF Was, Is
<1>5. /\ new \in [Field -> Nat] /\ own \in [Field -> Nat]
      /\ \A f \in Field :
           /\ new[f] = IF Is(w, f) # Was(w, f) THEN Is(w, f) ELSE update[w].raw[f]
           /\ own[f] = IF update[w].wants[f] # None THEN update[w].wants[f] ELSE meant[update[w].target].has[f]
  BY <1>2, <1>3, <1>4
<1>6. files' = [files EXCEPT ![update[w].target] = Having(new)]
  BY <1>2 DEF Persist, Is, Was, LayersBefore, LayersAfter
<1>7. meant' = [meant EXCEPT ![update[w].target] = Having(own)]
  BY <1>3 DEF Persist
<1> QED BY ZenonT(40), <1>5, <1>6, <1>7 DEF Persist

\* An update writes its own fields and leaves the others as they are.
LEMMA SetPersist ==
  ASSUME SetInv, NEW w \in Writer, Persist(w)
  PROVE  SetInv'
<1>1. /\ update[w].at = "persist" /\ update' = [update EXCEPT ![w] = Quiet]
      /\ UNCHANGED <<reading, changes, byHand, excused>>
      /\ locks' = [p \in DOMAIN locks |-> IF locks[p] = w THEN Nobody ELSE locks[p]]
      /\ seen' = seen \cup {Effects(files')}
      /\ latest' = [f \in Field |-> IF update[w].wants[f] # None THEN update[w].wants[f] ELSE latest[f]]
  BY PersistWrites
<1> DEFINE target == update[w].target
<1>2. PICK new \in Values, own \in Values :
              /\ files' = [files EXCEPT ![target] = Having(new)]
              /\ meant' = [meant EXCEPT ![target] = Having(own)]
              /\ \A f \in Field :
                   /\ new[f] = IF Is(w, f) # Was(w, f) THEN Is(w, f) ELSE update[w].raw[f]
                   /\ own[f] = IF update[w].wants[f] # None THEN update[w].wants[f] ELSE meant[target].has[f]
  BY PersistWrites DEF Values
<1>3. /\ update[w] \in Update /\ files \in Files /\ meant \in Files /\ target \in Lockable /\ target \in Layer
      /\ LayersBefore(w) \in Files /\ LayersAfter(w) \in Files
  BY LayerFacts DEF SetInv, SetShape, Update, LayersBefore, LayersAfter, Layer, Lockable
<1>4. /\ files' \in Files /\ files'[target] = Having(new) /\ \A p \in Layer \ {target} : files'[p] = files[p]
      /\ meant' \in Files /\ meant'[target] = Having(own) /\ \A p \in Layer \ {target} : meant'[p] = meant[p]
  BY <1>2, <1>3, FileFacts DEF Files
<1>5. Quiet \in Update /\ Quiet.wants = Blank /\ Quiet.raw = Blank /\ Quiet.at = "off" /\ \A p \in Layer : Quiet.layers[p] = NoFile
  BY FileFacts DEF Quiet, Update, Lockable, Files
<1>6. update' \in [Writer -> Update] /\ update'[w] = Quiet /\ \A v \in Writer \ {w} : update'[v] = update[v]
  BY <1>1, <1>5 DEF SetInv, SetShape
<1>7. SetShape'
  <2>1. latest' \in Values
    BY <1>1, <1>3 DEF SetInv, SetShape, Update, Values
  <2> QED BY <1>1, <1>4, <1>6, <2>1 DEF SetInv, SetShape
<1> HIDE DEF target
<1>8. ASSUME NEW f \in Field PROVE new[f] = update[w].wants[f] \/ new[f] \in Known(f)
  <2>1. update[w].raw[f] \in Known(f)
    BY DEF Known
  <2>2. \A p \in Layer : LayersBefore(w)[p].has[f] \in Known(f)
    <3>1. LayersBefore(w).local = update[w].layers.local
      BY <1>3 DEF LayersBefore, Files, Layer
    <3>2. \A p \in Layer \ {"local"} : LayersBefore(w)[p] = files[p]
      BY <1>3 DEF LayersBefore, Files
    <3> QED BY SMTT(40), <3>1, <3>2 DEF Known, Layer
  <2>3. \A p \in Layer : LayersAfter(w)[p].has[f] \in Known(f)
    BY SMTT(40), <2>2 DEF LayersAfter, Known
  <2>4. Effective(LayersAfter(w), f) \in Known(f)
    BY <2>3, <1>3, EffectFacts DEF Layer
  <2> QED BY <1>2, <2>1, <2>4 DEF Is
<1>9. ASSUME NEW f \in Field PROVE FieldOK(f)'
  <2>1. FieldOK(f)
    BY DEF SetInv
  <2>2. Known(f)' \subseteq Known(f) \cup {update[w].wants[f], None}
    <3>1. ASSUME NEW v \in Writer
          PROVE  /\ update'[v].raw[f] \in Known(f) \cup {None}
                 /\ \A p \in Layer : update'[v].layers[p].has[f] \in Known(f) \cup {None}
      <4>1. CASE v = w
        BY <4>1, <1>5, <1>6, FileFacts
      <4>2. CASE v # w
        BY <4>2, <1>6, KnownOf
      <4> QED BY <4>1, <4>2
    <3>2. ASSUME NEW p \in Layer PROVE files'[p].has[f] \in Known(f) \cup {update[w].wants[f]}
      <4>1. CASE p = target
        BY <4>1, <1>4, <1>8, FileFacts
      <4>2. CASE p # target
        BY <4>2, <1>4, KnownOf
      <4> QED BY <4>1, <4>2
    <3>3. Known(f)' = {files'[p].has[f] : p \in Layer} \cup {update'[v].raw[f] : v \in Writer}
                        \cup {update'[v].layers[p].has[f] : v \in Writer, p \in Layer}
      BY DEF Known
    <3> QED BY <3>1, <3>2, <3>3
  <2>3. \A k \in Known(f)' : k <= changes'
    BY <2>1, <2>2, <1>1 DEF FieldOK, None, SetInv, SetShape
  <2>4. update'[w].wants[f] = None
    BY <1>5, <1>6, FileFacts
  <2>5. ASSUME NEW v \in Writer
        PROVE  /\ update'[v].wants[f] <= changes'
               /\ update'[v].at # "persist" => update'[v].wants[f] = None
               /\ update'[v].wants[f] # None => update'[v].wants[f] \notin Known(f)'
    <3>1. CASE v = w
      BY <3>1, <2>4, <1>1 DEF None, SetInv, SetShape
    <3>2. CASE v # w
      BY <3>2, <2>1, <2>2, <1>1, <1>6 DEF FieldOK
    <3> QED BY <3>1, <3>2
  <2>6. ASSUME NEW v \in Writer, NEW x \in Writer, v # x, update'[x].wants[f] # None
        PROVE  update'[x].wants[f] # update'[v].wants[f]
    BY <2>6, <2>1, <2>4, <1>6 DEF FieldOK
  <2> QED BY <2>3, <2>5, <2>6 DEF FieldOK
<1>10. Effects(files)' \in seen'
  BY <1>1
<1>11. ASSUME ~excused.locks
       PROVE  /\ target = Target(files) /\ Target(files') = target /\ locks[target] = w
              /\ \A f \in Field : update[w].wants[f] # None => new[f] = update[w].wants[f]
              /\ \A f \in Field \ excused.fields : update[w].wants[f] = None => new[f] = files[target].has[f]
  <2>1. WriterOK(w)
    BY <1>11 DEF SetInv
  <2>2. target = Target(files) /\ locks[target] = w /\ update[w].raw = files[target].has /\ update[w].layers.local = files.local
    BY <2>1, <1>1 DEF WriterOK, target
  <2>3. Target(files') = target
    BY <2>2, <1>4, FileFacts DEF Target, Layer
  <2>4. LayersBefore(w) = files
    BY <2>2, <1>3 DEF LayersBefore, Files, Layer
  <2>5. ASSUME NEW f \in Field, update[w].wants[f] # None PROVE new[f] = update[w].wants[f]
    <3>1. Was(w, f) \in Known(f)
      BY <2>4, <1>3, EffectFacts DEF Was, Known, Layer
    <3>2. update[w].wants[f] \notin Known(f)
      BY <2>5 DEF SetInv, FieldOK
    <3> QED BY <3>1, <3>2, <2>5, <1>2 DEF Is
  <2>6. ASSUME NEW f \in Field \ excused.fields, update[w].wants[f] = None PROVE new[f] = files[target].has[f]
    <3>1. Effective(LayersAfter(w), f) = Effective(files, f)
      BY <2>1, <2>2, <2>4, <1>1 DEF WriterOK, LayersAfter, Effective
    <3> QED BY <3>1, <2>2, <2>4, <2>6, <1>2 DEF Is, Was
  <2> QED BY <2>2, <2>3, <2>5, <2>6
<1>12. ASSUME ~excused.locks, NEW v \in Writer PROVE WriterOK(v)'
  <2>1. CASE v = w
    BY <2>1, <1>5, <1>6 DEF WriterOK
  <2>2. CASE v # w
    <3>1. WriterOK(v) /\ locks[Target(files)] # v
      BY <2>2, <1>11, <1>12 DEF SetInv
    <3>2. update[v].at \notin {"change", "persist"} /\ (update[v].at = "lock" => Target(files) \in update[v].paths)
      BY <3>1 DEF WriterOK
    <3> QED BY <2>2, <3>2, <1>6, <1>11, <1>12 DEF WriterOK
  <2> QED BY <2>1, <2>2
<1>13. ASSUME ~excused.locks PROVE UpdatesOK'
  <2> SUFFICES ASSUME NEW p \in Layer, NEW f \in Field \ excused.fields PROVE files'[p].has[f] = meant'[p].has[f]
    BY <1>1 DEF UpdatesOK
  <2>1. files[p].has[f] = meant[p].has[f]
    BY <1>13 DEF SetInv, UpdatesOK
  <2>2. CASE p # target
    BY <2>1, <2>2, <1>4
  <2>3. CASE p = target
    BY <2>1, <2>3, <1>2, <1>4, <1>11, <1>13, FileFacts
  <2> QED BY <2>2, <2>3
<1>14. ASSUME ~excused.locks PROVE LatestOK'
  <2> SUFFICES ASSUME NEW f \in Field \ excused.fields, latest'[f] # None PROVE files'[target].has[f] = latest'[f]
    BY <1>1, <1>11, <1>14 DEF LatestOK
  <2>1. files'[target].has[f] = new[f]
    BY <1>4, FileFacts
  <2>2. CASE update[w].wants[f] # None
    BY <2>1, <2>2, <1>1, <1>11, <1>14
  <2>3. CASE update[w].wants[f] = None
    <3>1. latest'[f] = latest[f]
      BY <2>3, <1>1
    <3>2. files[target].has[f] = latest[f]
      BY <3>1, <1>11, <1>14 DEF SetInv, LatestOK
    <3> QED BY <2>1, <2>3, <3>1, <3>2, <1>11, <1>14
  <2> QED BY <2>2, <2>3
<1>15. ASSUME ~excused.locks, NEW r \in Reader PROVE ReaderOK(r)'
  <2> DEFINE s == reading[r]
  <2>1. ReaderOK(r) /\ s \in Reading /\ reading'[r] = s
    BY <1>1, <1>15 DEF SetInv, SetShape
  <2>2. s.layers \in Files /\ s.layers.local \in File /\ s.layers.global \in File
    BY <2>1, LayerFacts DEF Reading
  <2>3. files'.env = files.env
    BY <1>3, <1>4 DEF Lockable, Layer
  <2>4. (files'.local.there <=> files.local.there)
    BY <1>4, <1>11, <1>15, FileFacts DEF Target, Layer
  <2>5. ASSUME files.local.there
        PROVE  files'.global = files.global /\ [files' EXCEPT !.local = s.layers.local] = [files EXCEPT !.local = s.layers.local]
    <3>1. target = "local"
      BY <2>5, <1>11, <1>15 DEF Target
    <3>2. files'.global = files.global
      BY <3>1, <1>4 DEF Layer
    <3> QED BY <3>1, <3>2, <1>2 DEF Files
  <2>6. ASSUME ~files.local.there
        PROVE  [files' EXCEPT !.global = s.layers.global] = [files EXCEPT !.global = s.layers.global]
    <3>1. target = "global"
      BY <2>6, <1>11, <1>15 DEF Target
    <3> QED BY <3>1, <1>2 DEF Files
  <2> HIDE DEF s
  <2>7. s.at = "open" /\ ~s.crossed =>
           /\ s.read.env => s.layers.env = files'.env
           /\ s.layers.local.there =>
                /\ files'.local.there /\ (s.read.global => s.layers.global = files'.global)
                /\ Effects([files' EXCEPT !.local = s.layers.local]) \in seen'
           /\ ~s.layers.local.there =>
                /\ ~files'.local.there
                /\ s.read.global => Effects([files' EXCEPT !.global = s.layers.global]) \in seen'
    BY <2>1, <2>3, <2>4, <2>5, <2>6, <1>1 DEF ReaderOK, s
  <2> QED BY <2>1, <2>7 DEF ReaderOK, s
<1> QED BY <1>1, <1>7, <1>9, <1>10, <1>12, <1>13, <1>14, <1>15 DEF SetInv

\* A reader starts with the local file.
LEMMA SetOpen ==
  ASSUME SetInv, NEW r \in Reader, Open(r)
  PROVE  SetInv'
<1>1. UNCHANGED <<files, locks, update, changes, byHand, meant, latest, seen, excused>>
  BY DEF Open
<1>2. files \in Files /\ files.local \in File
  BY LayerFacts DEF SetInv, SetShape
<1>3. PICK n \in Files : n = [l \in Layer |-> NoFile]
  BY FileFacts DEF Files
<1>4. PICK a \in Reading : a = Asleep /\ a.layers = n /\ a.found = {} /\ ~a.read.env /\ ~a.read.global /\ ~a.crossed
  <2>1. PICK q : q = Unread
    OBVIOUS
  <2>2. q \in [local : BOOLEAN, env : BOOLEAN, global : BOOLEAN] /\ ~q.env /\ ~q.global
    BY <2>1 DEF Unread
  <2>3. PICK b \in Values : b = Blank
    BY FileFacts
  <2>4. PICK a : a = [at |-> "off", read |-> q, layers |-> n, got |-> b, found |-> {}, crossed |-> FALSE]
    OBVIOUS
  <2>5. a = Asleep
    BY <2>1, <2>3, <2>4, <1>3 DEF Asleep
  <2>6. a \in Reading
    BY <2>2, <2>3, <2>4 DEF Reading
  <2>7. a.layers = n /\ a.found = {} /\ a.read = q /\ ~a.crossed
    BY <2>4
  <2> QED BY <2>2, <2>5, <2>6, <2>7
<1>5. PICK s \in Reading :
         /\ reading' = [reading EXCEPT ![r] = s]
         /\ s.at = "open" /\ s.found = {} /\ ~s.read.env /\ ~s.read.global /\ s.layers.local = files.local
  <2>1. PICK s : s = [a EXCEPT !.at = "open", !.read.local = TRUE, !.layers.local = files.local]
    OBVIOUS
  <2>2. PICK rd \in [local : BOOLEAN, env : BOOLEAN, global : BOOLEAN] :
           rd = [a.read EXCEPT !.local = TRUE] /\ ~rd.env /\ ~rd.global
    <3>1. a.read \in [local : BOOLEAN, env : BOOLEAN, global : BOOLEAN]
      BY DEF Reading
    <3>2. PICK rd : rd = [a.read EXCEPT !.local = TRUE]
      OBVIOUS
    <3>3. rd \in [local : BOOLEAN, env : BOOLEAN, global : BOOLEAN] /\ rd.env = a.read.env /\ rd.global = a.read.global
      BY <3>1, <3>2
    <3> QED BY <3>2, <3>3, <1>4
  <2>3. PICK lay \in Files : lay = [a.layers EXCEPT !.local = files.local] /\ lay.local = files.local
    <3>1. PICK lay : lay = [n EXCEPT !.local = files.local]
      OBVIOUS
    <3>2. lay \in Files /\ lay.local = files.local
      BY <3>1, <1>2 DEF Files, Layer
    <3> QED BY <3>1, <3>2, <1>4
  <2>4. s = [a EXCEPT !.at = "open", !.read = rd, !.layers = lay]
    BY <2>1, <2>2, <2>3 DEF Reading
  <2>5. s \in Reading /\ s.at = "open" /\ s.found = {} /\ s.read = rd /\ s.layers = lay
    BY <2>4, <1>4 DEF Reading
  <2> QED BY ZenonT(40), <2>1, <2>2, <2>3, <2>5, <1>4 DEF Open
<1>6. reading' \in [Reader -> Reading] /\ reading'[r] = s /\ \A v \in Reader \ {r} : reading'[v] = reading[v]
  BY <1>5 DEF SetInv, SetShape
<1>7. SetShape'
  BY <1>1, <1>6 DEF SetInv, SetShape
<1>8. \A f \in Field : FieldOK(f)'
  BY <1>1, FieldsKeep
<1>9. ASSUME ~excused.locks, NEW v \in Reader PROVE ReaderOK(v)'
  <2>1. CASE v = r
    <3>1. [files EXCEPT !.local = s.layers.local] = files
      BY <1>2, <1>5 DEF Files
    <3> QED BY <2>1, <3>1, <1>1, <1>5, <1>6 DEF ReaderOK, SetInv
  <2>2. CASE v # r
    BY <2>2, <1>1, <1>6, <1>9 DEF SetInv, ReaderOK
  <2> QED BY <2>1, <2>2
<1>10. ASSUME ~excused.locks PROVE (\A w \in Writer : WriterOK(w)') /\ UpdatesOK' /\ LatestOK'
  BY <1>1, <1>10 DEF SetInv, WriterOK, UpdatesOK, LatestOK
<1> QED BY <1>1, <1>7, <1>8, <1>9, <1>10 DEF SetInv

\* The next layer is read.
LEMMA LookReads ==
  ASSUME SetInv, NEW r \in Reader, NEW layer \in {"env", "global"}, NEW s, s = reading[r], s.at = "open",
         layer = "env" => ~s.read.env, layer = "global" => ~s.read.global,
         reading' = [reading EXCEPT ![r] = [s EXCEPT !.read[layer] = TRUE, !.layers[layer] = files[layer]]],
         UNCHANGED <<files, locks, update, changes, byHand, meant, latest, seen, excused>>
  PROVE  SetInv'
<1>1. files \in Files /\ files[layer] \in File /\ s \in Reading /\ s.layers \in Files
  BY DEF SetInv, SetShape, Files, Layer, Reading
<1>2. PICK rd \in [local : BOOLEAN, env : BOOLEAN, global : BOOLEAN] :
         /\ rd = [s.read EXCEPT ![layer] = TRUE]
         /\ layer = "env" => rd.env /\ rd.global = s.read.global
         /\ layer = "global" => rd.global /\ rd.env = s.read.env
  <2>1. s.read \in [local : BOOLEAN, env : BOOLEAN, global : BOOLEAN]
    BY <1>1 DEF Reading
  <2>2. PICK rd : rd = [s.read EXCEPT ![layer] = TRUE]
    OBVIOUS
  <2>3. CASE layer = "env"
    <3>1. rd \in [local : BOOLEAN, env : BOOLEAN, global : BOOLEAN]
      BY <2>1, <2>2, <2>3
    <3>2. rd.env /\ rd.global = s.read.global
      BY <2>1, <2>2, <2>3
    <3> QED BY <2>2, <2>3, <3>1, <3>2
  <2>4. CASE layer = "global"
    <3>1. rd \in [local : BOOLEAN, env : BOOLEAN, global : BOOLEAN]
      BY <2>1, <2>2, <2>4
    <3>2. rd.global /\ rd.env = s.read.env
      BY <2>1, <2>2, <2>4
    <3> QED BY <2>2, <2>4, <3>1, <3>2
  <2> QED BY <2>3, <2>4
<1>3. PICK lay \in Files :
         /\ lay = [s.layers EXCEPT ![layer] = files[layer]] /\ lay.local = s.layers.local
         /\ layer = "env" => lay.env = files.env /\ lay.global = s.layers.global
         /\ layer = "global" => lay.global = files.global /\ lay.env = s.layers.env
  <2>1. PICK lay : lay = [s.layers EXCEPT ![layer] = files[layer]]
    OBVIOUS
  <2>2. lay \in Files
    BY <2>1, <1>1, LayerFacts DEF Layer
  <2>3. lay[layer] = files[layer] /\ \A p \in Layer \ {layer} : lay[p] = s.layers[p]
    BY <2>1, <1>1 DEF Files, Layer
  <2> QED BY <2>1, <2>2, <2>3 DEF Layer
<1>4. PICK x \in Reading :
         /\ reading' = [reading EXCEPT ![r] = x] /\ x.at = s.at /\ x.read = rd /\ x.layers = lay /\ x.got = s.got
         /\ x.found = s.found /\ x.crossed = s.crossed
  <2>1. PICK x : x = [s EXCEPT !.read[layer] = TRUE, !.layers[layer] = files[layer]]
    OBVIOUS
  <2>2. x = [s EXCEPT !.read = rd, !.layers = lay]
    BY <2>1, <1>1, <1>2, <1>3 DEF Reading
  <2>3. /\ x \in Reading /\ x.at = s.at /\ x.read = rd /\ x.layers = lay /\ x.got = s.got
        /\ x.found = s.found /\ x.crossed = s.crossed
    BY <2>2, <1>1 DEF Reading
  <2> QED BY <2>1, <2>3
<1>5. reading' \in [Reader -> Reading] /\ reading'[r] = x /\ \A v \in Reader \ {r} : reading'[v] = reading[v]
  BY <1>4 DEF SetInv, SetShape
<1>6. SetShape'
  BY <1>5 DEF SetInv, SetShape
<1>7. \A f \in Field : FieldOK(f)'
  BY FieldsKeep
<1>8. ASSUME ~excused.locks, NEW v \in Reader PROVE ReaderOK(v)'
  <2>1. CASE v = r
    <3>1. ReaderOK(r)
      BY <1>8 DEF SetInv
    <3>2. \A f \in s.found : FoundOK(x, f)
      <4> SUFFICES ASSUME NEW f \in s.found PROVE FoundOK(x, f)
        OBVIOUS
      <4>1. FoundOK(s, f)
        BY <3>1 DEF ReaderOK
      <4> QED BY SMTT(40), <4>1, <1>2, <1>3, <1>4 DEF FoundOK
    <3>3. [files EXCEPT !.global = files.global] = files
      BY <1>1 DEF Files
    <3>4. s.layers.local.there => ReaderOK(v)'
      BY <2>1, <3>1, <3>2, <1>2, <1>3, <1>4, <1>5 DEF ReaderOK
    <3>5. ~s.layers.local.there => ReaderOK(v)'
      BY <2>1, <3>1, <3>2, <3>3, <1>2, <1>3, <1>4, <1>5 DEF ReaderOK, SetInv
    <3> QED BY <3>4, <3>5
  <2>2. CASE v # r
    BY <2>2, <1>5, <1>8 DEF SetInv, ReaderOK
  <2> QED BY <2>1, <2>2
<1>9. ASSUME ~excused.locks PROVE (\A w \in Writer : WriterOK(w)') /\ UpdatesOK' /\ LatestOK'
  BY <1>9 DEF SetInv, WriterOK, UpdatesOK, LatestOK
<1> QED BY <1>6, <1>7, <1>8, <1>9 DEF SetInv

\* A field is found.
LEMMA LookFinds ==
  ASSUME SetInv, NEW r \in Reader, NEW f \in Field, NEW s, s = reading[r], s.at = "open", NextLayer(s, f) = "none",
         f \notin s.found,
         reading' = [reading EXCEPT ![r] = [s EXCEPT !.got[f] = Effective(s.layers, f), !.found = s.found \cup {f}]],
         UNCHANGED <<files, locks, update, changes, byHand, meant, latest, seen, excused>>
  PROVE  SetInv'
<1>1. s \in Reading /\ s.layers \in Files /\ Effective(s.layers, f) \in Nat
  <2>1. s \in Reading /\ s.layers \in Files
    BY DEF SetInv, SetShape, Reading
  <2> QED BY <2>1, EffectFacts DEF Values
<1>2. PICK got \in Values :
         /\ got = [s.got EXCEPT ![f] = Effective(s.layers, f)] /\ got[f] = Effective(s.layers, f)
         /\ \A h \in Field \ {f} : got[h] = s.got[h]
  <2>1. s.got \in [Field -> Nat]
    BY <1>1 DEF Reading, Values
  <2>2. PICK e \in Nat : e = Effective(s.layers, f)
    BY <1>1
  <2>3. PICK got : got = [s.got EXCEPT ![f] = e]
    OBVIOUS
  <2>4. got \in [Field -> Nat] /\ got[f] = e /\ \A h \in Field \ {f} : got[h] = s.got[h]
    BY <2>1, <2>3
  <2> QED BY <2>2, <2>3, <2>4 DEF Values
<1>3. PICK x \in Reading :
         /\ reading' = [reading EXCEPT ![r] = x] /\ x.at = s.at /\ x.read = s.read /\ x.layers = s.layers /\ x.got = got
         /\ x.found = s.found \cup {f} /\ x.crossed = s.crossed
  <2>1. PICK x : x = [s EXCEPT !.got[f] = Effective(s.layers, f), !.found = s.found \cup {f}]
    OBVIOUS
  <2>2. x = [s EXCEPT !.got = got, !.found = s.found \cup {f}]
    BY <2>1, <1>1, <1>2 DEF Reading
  <2>3. /\ x \in Reading /\ x.at = s.at /\ x.read = s.read /\ x.layers = s.layers /\ x.got = got
        /\ x.found = s.found \cup {f} /\ x.crossed = s.crossed
    BY <2>2, <1>1 DEF Reading
  <2> QED BY <2>1, <2>3
<1>4. reading' \in [Reader -> Reading] /\ reading'[r] = x /\ \A v \in Reader \ {r} : reading'[v] = reading[v]
  BY <1>3 DEF SetInv, SetShape
<1>5. SetShape'
  BY <1>4 DEF SetInv, SetShape
<1>6. \A h \in Field : FieldOK(h)'
  BY FieldsKeep
<1>7. ASSUME ~excused.locks, NEW v \in Reader PROVE ReaderOK(v)'
  <2>1. CASE v = r
    <3>1. ReaderOK(r)
      BY <1>7 DEF SetInv
    <3>2. FoundOK(x, f)
      <4>1. got[f] = Effective(s.layers, f)
        BY <1>2
      <4>2. \/ s.layers.local.has[f] # None
            \/ s.read.env /\ (s.layers.env.has[f] # None \/ s.read.global)
        BY DEF NextLayer
      <4> QED BY <4>1, <4>2, <1>3 DEF FoundOK, Effective
    <3>3. ASSUME NEW h \in s.found PROVE FoundOK(x, h)
      <4>1. FoundOK(s, h) /\ got[h] = s.got[h]
        BY <3>1, <1>1, <1>2 DEF ReaderOK, Reading
      <4> QED BY <4>1, <1>3 DEF FoundOK
    <3> QED BY <2>1, <3>1, <3>2, <3>3, <1>3, <1>4 DEF ReaderOK
  <2>2. CASE v # r
    BY <2>2, <1>4, <1>7 DEF SetInv, ReaderOK
  <2> QED BY <2>1, <2>2
<1>8. ASSUME ~excused.locks PROVE (\A w \in Writer : WriterOK(w)') /\ UpdatesOK' /\ LatestOK'
  BY <1>8 DEF SetInv, WriterOK, UpdatesOK, LatestOK
<1> QED BY <1>5, <1>6, <1>7, <1>8 DEF SetInv

\* A reader reads a layer or finds a field.
LEMMA SetLook ==
  ASSUME SetInv, NEW r \in Reader, Look(r)
  PROVE  SetInv'
<1>1. PICK s : s = reading[r]
  OBVIOUS
<1>2. PICK f \in Field \ s.found :
         /\ s.at = "open"
         /\ reading' = [reading EXCEPT ![r] =
              IF NextLayer(s, f) # "none"
              THEN [s EXCEPT !.read[NextLayer(s, f)] = TRUE, !.layers[NextLayer(s, f)] = files[NextLayer(s, f)]]
              ELSE [s EXCEPT !.got[f] = Effective(s.layers, f), !.found = s.found \cup {f}]]
         /\ UNCHANGED <<files, locks, update, changes, byHand, meant, latest, seen, excused>>
  BY <1>1 DEF Look
<1>3. PICK layer : layer = NextLayer(s, f)
  OBVIOUS
<1>4. /\ layer \in {"none", "env", "global"}
      /\ layer = "env" => ~s.read.env
      /\ layer = "global" => ~s.read.global
  BY <1>3 DEF NextLayer
<1>5. CASE layer = "none"
  BY <1>1, <1>2, <1>3, <1>5, LookFinds
<1>6. CASE layer # "none"
  <2>1. reading' = [reading EXCEPT ![r] = [s EXCEPT !.read[layer] = TRUE, !.layers[layer] = files[layer]]]
    BY <1>2, <1>3, <1>6
  <2>2. layer \in {"env", "global"}
    BY <1>4, <1>6
  <2>3. UNCHANGED <<files, locks, update, changes, byHand, meant, latest, seen, excused>> /\ s.at = "open"
    BY <1>2
  <2> QED BY <2>1, <2>2, <2>3, <1>1, <1>4, LookReads
<1> QED BY <1>5, <1>6

\* A step of the user: what is read is crossed from now on.
LEMMA CrossedReaders ==
  ASSUME SetInv, reading' = Crossed
  PROVE  /\ reading' \in [Reader -> Reading]
         /\ ~excused.locks => \A r \in Reader : ReaderOK(r)'
<1>1. ASSUME NEW r \in Reader
      PROVE  /\ reading'[r] \in Reading
             /\ ~excused.locks => ReaderOK(r)'
  <2>1. PICK s \in Reading : s = reading[r]
    BY DEF SetInv, SetShape
  <2>2. PICK c \in BOOLEAN : c = (s.crossed \/ s.at = "open")
    BY DEF Reading
  <2>3. PICK x : x = [s EXCEPT !.crossed = c]
    OBVIOUS
  <2>4. reading'[r] = x
    BY <2>1, <2>2, <2>3 DEF Crossed, Reading
  <2>5. /\ x \in Reading /\ x.at = s.at /\ x.read = s.read /\ x.layers = s.layers /\ x.got = s.got
        /\ x.found = s.found /\ x.crossed = c
    BY <2>3 DEF Reading
  <2>6. ASSUME ~excused.locks PROVE ReaderOK(r)'
    <3>1. ReaderOK(r)
      BY <2>6 DEF SetInv
    <3>2. \A f \in x.found : FoundOK(x, f)
      <4> SUFFICES ASSUME NEW f \in x.found PROVE FoundOK(x, f)
        OBVIOUS
      <4>1. FoundOK(s, f)
        BY <2>1, <2>5, <3>1 DEF ReaderOK
      <4> QED BY <4>1, <2>5 DEF FoundOK
    <3> QED BY <2>1, <2>2, <2>4, <2>5, <3>1, <3>2 DEF ReaderOK
  <2> QED BY <2>4, <2>5, <2>6
<1>2. \A r \in Reader : reading'[r] \in Reading
  BY <1>1
<1>3. reading' \in [Reader -> Reading]
  <2>1. reading' = [r \in Reader |-> reading'[r]]
    BY DEF Crossed
  <2> QED BY <1>2, <2>1
<1> QED BY <1>1, <1>3

\* The user makes a value, or takes one away, in one layer: every update's own
\* values stay unlike what is known.
LEMMA HandFields ==
  ASSUME SetInv, NEW p \in Layer, NEW f \in Field, NEW x \in File,
         files' = [files EXCEPT ![p] = x], changes' = changes + 1, update' = update,
         \A h \in Field : x.has[h] \in {None, changes + 1, files[p].has[h]}
  PROVE  \A h \in Field : FieldOK(h)'
<1> SUFFICES ASSUME NEW h \in Field PROVE FieldOK(h)'
  OBVIOUS
<1>1. changes \in Nat /\ FieldOK(h) /\ update \in [Writer -> Update] /\ files \in Files
  BY DEF SetInv, SetShape
<1>2. Known(h)' \subseteq Known(h) \cup {None, changes + 1}
  <2>1. \A q \in Layer : files'[q].has[h] \in Known(h) \cup {None, changes + 1}
    BY <1>1 DEF Known, Files
  <2>2. Known(h)' = {files'[q].has[h] : q \in Layer} \cup {update'[w].raw[h] : w \in Writer}
                      \cup {update'[w].layers[q].has[h] : w \in Writer, q \in Layer}
    BY DEF Known
  <2> QED BY SMTT(40), <2>1, <2>2 DEF Known
<1>3. \A w \in Writer : update[w].wants[h] \in Nat
  BY <1>1 DEF Update, Values
<1>4. \A v \in Known(h) : v \in Nat
  <2>1. \A q \in Layer : files[q].has[h] \in Nat
    BY <1>1, FileFacts DEF Files, Values
  <2>2. \A w \in Writer : update[w].raw[h] \in Nat /\ \A q \in Layer : update[w].layers[q].has[h] \in Nat
    BY <1>1, FileFacts DEF Update, Files, Values
  <2> QED BY <2>1, <2>2 DEF Known
<1>5. \A v \in Known(h)' : v <= changes + 1
  BY <1>1, <1>2, <1>4 DEF FieldOK, None
<1>6. ASSUME NEW w \in Writer
      PROVE  /\ update[w].wants[h] <= changes + 1
             /\ update[w].at # "persist" => update[w].wants[h] = None
             /\ update[w].wants[h] # None => update[w].wants[h] \notin Known(h)'
  <2>1. update[w].wants[h] <= changes /\ (update[w].at # "persist" => update[w].wants[h] = None)
        /\ (update[w].wants[h] # None => update[w].wants[h] \notin Known(h))
    BY <1>1 DEF FieldOK
  <2>2. update[w].wants[h] <= changes + 1 /\ update[w].wants[h] # changes + 1
    BY <2>1, <1>1, <1>3
  <2> QED BY <2>1, <2>2, <1>2
<1> QED BY <1>1, <1>5, <1>6 DEF FieldOK

\* The user edits a field of .env.
LEMMA SetEditEnv ==
  ASSUME SetInv, EditEnv
  PROVE  SetInv'
<1>1. PICK f \in Field, v \in {None, changes + 1} :
        /\ files' = [files EXCEPT !.env = Having([files.env.has EXCEPT ![f] = v])]
        /\ excused' = [excused EXCEPT !.fields = excused.fields \cup
                IF \E w \in Writer : update[w].at = "persist" /\ update[w].early THEN {f} ELSE {}]
  BY DEF EditEnv, SetInv, SetShape, Files, Layer
<1>2. /\ byHand' = byHand + 1 /\ changes' = changes + 1 /\ meant' = [meant EXCEPT !.env = files'.env]
      /\ seen' = seen \cup {Effects(files')} /\ reading' = Crossed /\ UNCHANGED <<locks, update, latest>>
  BY DEF EditEnv
<1>3. files \in Files /\ meant \in Files /\ changes \in Nat /\ byHand \in Nat /\ update \in [Writer -> Update]
  BY DEF SetInv, SetShape
<1>4. PICK has \in Values : has = [files.env.has EXCEPT ![f] = v]
  <2>1. v \in Nat
    BY <1>3 DEF None
  <2>2. files.env.has \in [Field -> Nat]
    BY <1>3, LayerFacts, FileFacts DEF Values
  <2> QED BY <2>1, <2>2 DEF Values
<1>5. PICK x \in File : x = Having(has)
  BY FileFacts
<1>6. x.there /\ x.has = has /\ has[f] = v /\ \A h \in Field \ {f} : has[h] = files.env.has[h]
  <2>1. files.env.has \in [Field -> Nat]
    BY <1>3, LayerFacts, FileFacts DEF Values
  <2> QED BY <2>1, <1>4, <1>5, FileFacts
<1>7. files' = [files EXCEPT !.env = x]
  BY <1>1, <1>4, <1>5
<1>8. files' \in Files /\ files'.env = x /\ files'.local = files.local /\ files'.global = files.global
  BY <1>3, <1>7 DEF Files, Layer
<1>9. meant' \in Files /\ meant'.env = x /\ meant'.local = meant.local /\ meant'.global = meant.global
  BY <1>2, <1>3, <1>8 DEF Files, Layer
<1>10. PICK more \in SUBSET Field :
         more = excused.fields \cup IF \E w \in Writer : update[w].at = "persist" /\ update[w].early THEN {f} ELSE {}
  BY DEF SetInv, SetShape
<1>11. excused' \in [fields : SUBSET Field, locks : BOOLEAN] /\ excused'.fields = more /\ excused'.locks = excused.locks
  BY <1>1, <1>10 DEF SetInv, SetShape
<1>12. reading' \in [Reader -> Reading] /\ (~excused.locks => \A r \in Reader : ReaderOK(r)')
  BY <1>2, CrossedReaders
<1>13. SetShape'
  BY <1>2, <1>3, <1>8, <1>9, <1>11, <1>12 DEF SetInv, SetShape
<1>14. \A h \in Field : FieldOK(h)'
  <2>1. \A h \in Field : x.has[h] \in {None, changes + 1, files["env"].has[h]}
    BY <1>6
  <2> QED BY <2>1, <1>2, <1>7, HandFields DEF Layer
<1>15. Target(files') = Target(files)
  BY <1>8 DEF Target
<1>16. files'[Target(files)] = files[Target(files)]
  BY <1>8 DEF Target
<1>17. ASSUME ~excused.locks, NEW w \in Writer PROVE WriterOK(w)'
  <2>1. WriterOK(w)
    BY <1>17 DEF SetInv
  <2>2. ASSUME update[w].at = "persist", update[w].early, NEW h \in Field \ excused'.fields
        PROVE  update[w].layers.env.has[h] = files'.env.has[h]
    <3>1. h # f /\ h \notin excused.fields
      BY <2>2, <1>10, <1>11
    <3>2. update[w].layers.env.has[h] = files.env.has[h]
      BY <2>1, <2>2, <3>1 DEF WriterOK
    <3> QED BY <3>1, <3>2, <1>6, <1>8
  <2> QED BY <2>1, <2>2, <1>2, <1>8, <1>15, <1>16 DEF WriterOK
<1>18. ASSUME ~excused.locks PROVE UpdatesOK' /\ LatestOK'
  <2>1. excused.fields \subseteq excused'.fields
    BY <1>10, <1>11
  <2>2. UpdatesOK'
    <3> SUFFICES ASSUME NEW p \in Layer, NEW h \in Field
                 PROVE  files'[p].has[h] = meant'[p].has[h] \/ h \in excused'.fields
      BY DEF UpdatesOK
    <3>1. files[p].has[h] = meant[p].has[h] \/ h \in excused.fields
      BY <1>18 DEF SetInv, UpdatesOK
    <3> QED BY <3>1, <2>1, <1>8, <1>9 DEF Layer
  <2>3. LatestOK'
    BY <2>1, <1>2, <1>15, <1>16, <1>18 DEF SetInv, LatestOK
  <2> QED BY <2>2, <2>3
<1> QED BY <1>2, <1>11, <1>12, <1>13, <1>14, <1>17, <1>18 DEF SetInv

\* The user adds the file of the project.
LEMMA SetAddLocal ==
  ASSUME SetInv, AddLocal
  PROVE  SetInv'
<1>1. PICK f \in Field : files' = [files EXCEPT !.local = Having([Blank EXCEPT ![f] = changes + 1])]
  BY DEF AddLocal
<1>2. /\ byHand' = byHand + 1 /\ changes' = changes + 1 /\ meant' = [meant EXCEPT !.local = files'.local]
      /\ seen' = seen \cup {Effects(files')} /\ reading' = Crossed /\ UNCHANGED <<locks, update>>
      /\ latest' = Blank /\ ~files.local.there
  BY DEF AddLocal
<1>3. files \in Files /\ meant \in Files /\ changes \in Nat /\ byHand \in Nat /\ update \in [Writer -> Update]
  BY DEF SetInv, SetShape
<1>4. PICK has \in Values : has = [Blank EXCEPT ![f] = changes + 1] /\ \A h \in Field : has[h] \in {None, changes + 1}
  <2>1. PICK b \in [Field -> Nat] : b = Blank /\ \A h \in Field : b[h] = None
    BY FileFacts DEF Values
  <2>2. PICK has : has = [b EXCEPT ![f] = changes + 1]
    OBVIOUS
  <2>3. has \in [Field -> Nat] /\ \A h \in Field : has[h] \in {None, changes + 1}
    BY <2>1, <2>2, <1>3
  <2> QED BY <2>1, <2>2, <2>3 DEF Values
<1>5. PICK x \in File : x = Having(has) /\ x.there /\ x.has = has
  BY FileFacts
<1>6. files' = [files EXCEPT !.local = x]
  BY <1>1, <1>4, <1>5
<1>7. files' \in Files /\ files'.local = x /\ files'.env = files.env /\ files'.global = files.global
  BY <1>3, <1>6 DEF Files, Layer
<1>8. meant' \in Files /\ meant'.local = x /\ meant'.env = meant.env /\ meant'.global = meant.global
  BY <1>2, <1>3, <1>7 DEF Files, Layer
<1>9. PICK busy \in BOOLEAN : busy = (excused.locks \/ \E w \in Writer : update[w].at # "off")
  BY DEF SetInv, SetShape
<1>10. excused' \in [fields : SUBSET Field, locks : BOOLEAN] /\ excused'.fields = excused.fields /\ excused'.locks = busy
  <2>1. PICK e \in [fields : SUBSET Field, locks : BOOLEAN] : e = excused
    BY DEF SetInv, SetShape
  <2>2. excused' = [e EXCEPT !.locks = busy]
    BY <2>1, <1>9 DEF AddLocal
  <2> QED BY <2>1, <2>2
<1>11. reading' \in [Reader -> Reading] /\ (~excused.locks => \A r \in Reader : ReaderOK(r)')
  BY <1>2, CrossedReaders
<1>12. SetShape'
  BY <1>2, <1>3, <1>7, <1>8, <1>10, <1>11, FileFacts DEF SetInv, SetShape
<1>13. \A h \in Field : FieldOK(h)'
  <2>1. \A h \in Field : x.has[h] \in {None, changes + 1, files["local"].has[h]}
    BY <1>4, <1>5
  <2> QED BY <2>1, <1>2, <1>6, HandFields DEF Layer
<1>14. ASSUME ~excused'.locks PROVE ~excused.locks /\ \A w \in Writer : update[w].at = "off"
  BY <1>14, <1>9, <1>10
<1>15. ASSUME ~excused'.locks, NEW w \in Writer PROVE WriterOK(w)'
  BY <1>2, <1>14, <1>15 DEF WriterOK
<1>16. ASSUME ~excused'.locks PROVE UpdatesOK' /\ LatestOK'
  <2>1. UpdatesOK'
    <3> SUFFICES ASSUME NEW p \in Layer, NEW h \in Field
                 PROVE  files'[p].has[h] = meant'[p].has[h] \/ h \in excused'.fields
      BY DEF UpdatesOK
    <3>1. files[p].has[h] = meant[p].has[h] \/ h \in excused.fields
      BY <1>14, <1>16 DEF SetInv, UpdatesOK
    <3> QED BY <3>1, <1>7, <1>8, <1>10 DEF Layer
  <2>2. LatestOK'
    BY <1>2, FileFacts DEF LatestOK
  <2> QED BY <2>1, <2>2
<1> QED BY <1>2, <1>11, <1>12, <1>13, <1>14, <1>15, <1>16 DEF SetInv

\* Every step keeps the invariant.
LEMMA SetNext ==
  ASSUME SetInv, [SettingsNext]_settingVars
  PROVE  SetInv'
<1>1. CASE UNCHANGED settingVars
  BY SMTT(40), <1>1 DEF settingVars, SetInv, SetShape, FieldOK, Known, WriterOK, UpdatesOK, LatestOK, ReaderOK
<1>2. ASSUME NEW w \in Writer, Plan(w) \/ TakeNext(w) \/ ReadLatest(w) \/ Change(w) \/ Refuse(w) \/ Persist(w)
      PROVE  SetInv'
  BY <1>2, SetPlan, SetTakeNext, SetReadLatest, SetChange, SetRefuse, SetPersist
<1>3. ASSUME NEW r \in Reader, Open(r) \/ Look(r) PROVE SetInv'
  BY <1>3, SetOpen, SetLook
<1>4. CASE EditEnv
  BY <1>4, SetEditEnv
<1>5. CASE AddLocal
  BY <1>5, SetAddLocal
<1> QED BY <1>1, <1>2, <1>3, <1>4, <1>5 DEF SettingsNext

\* An update changes its own fields and no others, what was set last is read from
\* then on, and a snapshot was valid at one time, whatever several processes
\* change and read at once, except across interventions of the user, for any
\* fields, writers and readers (update_config, _persist_changes, settings).
THEOREM SettingsAreKeptCorrect == SettingsSpec => []SettingsAreKept
<1>1. SettingsSpec => []SetInv
  BY SetInit, SetNext, PTL DEF SettingsSpec
<1> QED BY <1>1, SetProperties, PTL

-----------------------------------------------------------------------------
(* Part C: ToolProcesses.                                               *)
\* The places of a call before it has a process, and while it has its own.
Before == {"off", "lock", "check", "ask", "prepare"}
Busy == {"run", "kill", "drain", "failed"}
Place == Before \cup Busy \cup {"done"}
Why == {"", "cancelled", "timeout"}
Telling == {"", "refused", "cancelled", "timeout", "result", "unverified"}
CallRecord == [at : Place, scope : Nat, due : BOOLEAN, why : Why, told : Telling, killed : BOOLEAN, cut : BOOLEAN]
Stage == {"idle", "start", "launch", "open", "operate", "close", "stop", ""}
BrowserRecord == [field : SUBSET Part, live : SUBSET Part, at : Stage, due : BOOLEAN, wrong : BOOLEAN]

\* The variables of a call by their types.
CommandShape ==
  /\ scope \in Nat /\ call \in [Call -> CallRecord]
  /\ living \in [Call -> SUBSET Process] /\ launched \in [Call -> Nat]
  /\ cmdLock \in Call \cup {NoCall}

\* A call in its place, given its processes, the scope they were started in
\* and the holder of the lock.
CallOK(c, x, alive, started, lock) ==
  /\ x.at \in Before => alive = {} /\ started = 0 /\ ~x.killed
  /\ x.at = "done" => alive \cap Holders = {} \/ x.told = "unverified" \/ x.cut
  /\ x.killed => alive \cap InTree = {}
  /\ started # 0 => x.scope = started
  /\ c \in Serial /\ x.at \in {"check", "ask", "prepare"} \cup Busy => lock = c

\* The inductive invariant of the commands.
CommandInv ==
  /\ CommandShape
  /\ \A c \in Call : CallOK(c, call[c], living[c], launched[c], cmdLock)

\* The browser in its place, unless something went wrong.
BrowserOK(b) ==
  ~b.wrong =>
    /\ b.at = "idle" => b.live \in {{}, Part} /\ b.field = b.live
    /\ b.at = "start" => b.live = {} /\ b.field = {}
    /\ b.at = "launch" => b.live = {"driver"} /\ b.field = {"driver"}
    /\ b.at = "open" => b.live = {"driver", "chrome"} /\ b.field = b.live
    /\ b.at = "operate" => b.live = Part /\ b.field = Part
    /\ b.at \in {"close", "stop"} => "driver" \in b.field \/ b.live = {}

\* The inductive invariant of the browser.
BrowserInv == browser \in BrowserRecord /\ BrowserOK(browser)

\* Both together: neither changes what the other one has.
ToolInv == CommandInv /\ BrowserInv

\* The invariant is as strong as the property.
LEMMA ToolProperties == ToolInv => ToolsOwnTheirProcesses
<1> SUFFICES ASSUME ToolInv PROVE ToolsOwnTheirProcesses
  OBVIOUS
<1>1. ASSUME NEW c \in Call
      PROVE  /\ call[c] \in CallRecord
             /\ CallOK(c, call[c], living[c], launched[c], cmdLock)
  BY DEF ToolInv, CommandInv, CommandShape
<1>5. ASSUME NEW c \in Call, Ended(c), ~Excused(c) PROVE Owned(c) = {}
  <2>1. living[c] \cap Holders = {} /\ (call[c].killed => living[c] \cap InTree = {})
    BY <1>1, <1>5 DEF CallOK, Ended, Excused
  <2> QED BY <2>1 DEF Owned
<1>2. ReclaimsWhatItOwns
  BY <1>5 DEF ReclaimsWhatItOwns
<1>3. StartedAsApproved
  BY <1>1 DEF CallOK, StartedAsApproved
<1>4. OneCommandAtATime
  <2> SUFFICES ASSUME NEW c \in Serial, NEW d \in Serial, c # d, Owned(c) # {}, Owned(d) # {},
                      \A e \in {c, d} : ~(Ended(e) /\ Excused(e))
               PROVE  FALSE
    BY DEF OneCommandAtATime
  <2>1. ASSUME NEW e \in {c, d} PROVE cmdLock = e
    <3>1. e \in Call /\ e \in Serial /\ Owned(e) # {} /\ living[e] # {}
      BY ToolAssumption DEF Owned
    <3>2. call[e].at \notin Before /\ call[e].at # "done"
      <4>1. call[e].at \notin Before
        BY <3>1, <1>1 DEF CallOK
      <4>2. ~Ended(e)
        BY <3>1, <1>5
      <4> QED BY <4>1, <4>2 DEF Ended
    <3>3. call[e].at \in Busy
      BY <3>1, <3>2, <1>1 DEF CallRecord, Place
    <3> QED BY <3>1, <3>3, <1>1 DEF CallOK
  <2> QED BY <2>1
<1>6. BrowserIsOwned
  BY DEF ToolInv, BrowserInv, BrowserOK, BrowserIsOwned
<1> QED BY <1>2, <1>3, <1>4, <1>6 DEF ToolsOwnTheirProcesses

\* No call was made, no browser started.
LEMMA ToolInitially == ToolInit => ToolInv
<1> SUFFICES ASSUME ToolInit PROVE ToolInv
  OBVIOUS
<1>1. PICK x : x = Unused
  OBVIOUS
<1>2. x \in CallRecord /\ x.at = "off" /\ ~x.killed
  BY <1>1 DEF Unused, CallRecord, Place, Before, Why, Telling
<1>3. CommandInv
  BY <1>1, <1>2 DEF ToolInit, CommandInv, CommandShape, CallOK, Before, Busy
<1>4. browser \in BrowserRecord
  BY DEF ToolInit, BrowserRecord, Part, Stage
<1>5. BrowserOK(browser)
  BY DEF ToolInit, BrowserOK
<1> QED BY <1>3, <1>4, <1>5 DEF ToolInv, BrowserInv

-----------------------------------------------------------------------------
\* One call moves; the lock is its own, was free before or is free after.
LEMMA OneCallMoves ==
  ASSUME CommandInv, NEW c \in Call, NEW x \in CallRecord, call' = [call EXCEPT ![c] = x],
         NEW alive \in SUBSET Process, living' = [living EXCEPT ![c] = alive],
         NEW started \in Nat, launched' = [launched EXCEPT ![c] = started],
         cmdLock' \in Call \cup {NoCall}, cmdLock' = cmdLock \/ cmdLock \in {c, NoCall},
         scope' \in Nat,
         CallOK(c, x, alive, started, cmdLock')
  PROVE  CommandInv'
<1>1. /\ call' \in [Call -> CallRecord] /\ living' \in [Call -> SUBSET Process]
      /\ launched' \in [Call -> Nat]
  BY DEF CommandInv, CommandShape
<1>2. call'[c] = x /\ living'[c] = alive /\ launched'[c] = started
  BY DEF CommandInv, CommandShape
<1>3. ASSUME NEW d \in Call \ {c} PROVE CallOK(d, call'[d], living'[d], launched'[d], cmdLock')
  <2>1. call'[d] = call[d] /\ living'[d] = living[d] /\ launched'[d] = launched[d]
    BY DEF CommandInv, CommandShape
  <2>2. cmdLock = d => cmdLock' = d
    BY ToolAssumption
  <2>3. CallOK(d, call[d], living[d], launched[d], cmdLock)
    BY DEF CommandInv
  <2> QED BY <2>1, <2>2, <2>3 DEF CallOK
<1> QED BY <1>1, <1>2, <1>3 DEF CommandInv, CommandShape

\* What a call is after its step.
Gets(c, p) == [call[c] EXCEPT !.at = p]
Tells(c, t) == [call[c] EXCEPT !.at = "done", !.told = t]
Asks(c, p, s) == [call[c] EXCEPT !.at = p, !.scope = s]

\* A call that moves.
LEMMA CallAt ==
  ASSUME CommandInv, NEW c \in Call, NEW p \in Place, NEW x, x = Gets(c, p)
  PROVE  x \in CallRecord /\ x.at = p /\ x.scope = call[c].scope /\ x.told = call[c].told /\ x.cut = call[c].cut
         /\ x.killed = call[c].killed
<1>1. PICK r \in CallRecord : r = call[c]
  BY DEF CommandInv, CommandShape
<1>2. x = [r EXCEPT !.at = p]
  BY <1>1 DEF Gets
<1>3. x \in CallRecord /\ x.at = p /\ x.scope = r.scope /\ x.told = r.told /\ x.cut = r.cut /\ x.killed = r.killed
  BY <1>2 DEF CallRecord
<1> QED BY <1>1, <1>3

\* A call that moves and takes down the scope it is approved in.
LEMMA CallAsks ==
  ASSUME CommandInv, NEW c \in Call, NEW p \in Place, NEW s \in Nat, NEW x, x = Asks(c, p, s)
  PROVE  x \in CallRecord /\ x.at = p /\ x.killed = call[c].killed
<1>1. PICK r \in CallRecord : r = call[c]
  BY DEF CommandInv, CommandShape
<1>2. x = [r EXCEPT !.at = p, !.scope = s]
  BY <1>1 DEF Asks
<1> QED BY <1>1, <1>2 DEF CallRecord

\* A call that ends with what it tells.
LEMMA CallTells ==
  ASSUME CommandInv, NEW c \in Call, NEW t \in Telling, NEW x, x = Tells(c, t)
  PROVE  x \in CallRecord /\ x.at = "done" /\ x.told = t /\ x.scope = call[c].scope /\ x.killed = call[c].killed
         /\ Told(c, t) = [call EXCEPT ![c] = x]
<1>1. PICK r \in CallRecord : r = call[c]
  BY DEF CommandInv, CommandShape
<1>2. x = [r EXCEPT !.at = "done", !.told = t] /\ "done" \in Place
  BY <1>1 DEF Place, Tells
<1>3. x \in CallRecord /\ x.at = "done" /\ x.told = t /\ x.scope = r.scope /\ x.killed = r.killed
  BY <1>2 DEF CallRecord
<1>4. Told(c, t) = [call EXCEPT ![c] = x]
  BY DEF CommandInv, CommandShape, Told, Tells
<1> QED BY <1>1, <1>3, <1>4

\* A call that ends with nobody at its pipes, or says that it cannot tell.
LEMMA CallEnds ==
  ASSUME CommandInv, NEW c \in Call, NEW t \in Telling,
         call' = Told(c, t), cmdLock' = Freed(c), UNCHANGED <<living, launched, scope>>,
         living[c] \cap Holders = {} \/ t = "unverified"
  PROVE  CommandInv'
<1>1. PICK x : x = Tells(c, t)
  OBVIOUS
<1>2. x \in CallRecord /\ x.at = "done" /\ x.told = t /\ x.scope = call[c].scope /\ x.killed = call[c].killed
  BY <1>1, CallTells
<1>4. call' = [call EXCEPT ![c] = x]
  BY <1>1, CallTells
<1>5. living' = [living EXCEPT ![c] = living[c]] /\ launched' = [launched EXCEPT ![c] = launched[c]]
      /\ living[c] \in SUBSET Process /\ launched[c] \in Nat
  BY DEF CommandInv, CommandShape
<1>6. CallOK(c, x, living[c], launched[c], cmdLock')
  BY <1>2 DEF CommandInv, CallOK, Before, Busy
<1>7. cmdLock' \in Call \cup {NoCall} /\ (cmdLock' = cmdLock \/ cmdLock \in {c, NoCall})
  BY DEF Freed, CommandInv, CommandShape
<1>8. scope' \in Nat
  BY DEF CommandInv, CommandShape
<1> QED BY <1>2, <1>4, <1>5, <1>6, <1>7, <1>8, OneCallMoves

\* A call that goes on, with its processes and its lock.
LEMMA CallGoes ==
  ASSUME CommandInv, NEW c \in Call, NEW x \in CallRecord, call' = [call EXCEPT ![c] = x],
         UNCHANGED <<living, launched, scope>>,
         cmdLock' = cmdLock \/ (cmdLock = NoCall /\ cmdLock' = c),
         CallOK(c, x, living[c], launched[c], cmdLock')
  PROVE  CommandInv'
<1>1. living' = [living EXCEPT ![c] = living[c]] /\ launched' = [launched EXCEPT ![c] = launched[c]]
      /\ living[c] \in SUBSET Process /\ launched[c] \in Nat
  BY DEF CommandInv, CommandShape
<1>2. cmdLock' \in Call \cup {NoCall} /\ (cmdLock' = cmdLock \/ cmdLock \in {c, NoCall})
  BY DEF CommandInv, CommandShape
<1>3. scope' \in Nat
  BY DEF CommandInv, CommandShape
<1> QED BY <1>1, <1>2, <1>3, OneCallMoves

\* A call begins; a command takes the lock.
LEMMA ToolBegins ==
  ASSUME CommandInv, NEW c \in Call, BeginCall(c) \/ TakeLock(c)
  PROVE  CommandInv'
<1>1. PICK p \in {"lock", "check"} :
         /\ call' = [call EXCEPT ![c].at = p] /\ UNCHANGED <<living, launched, scope>>
         /\ cmdLock' = cmdLock \/ (cmdLock = NoCall /\ cmdLock' = c)
         /\ c \in Serial /\ p = "check" => cmdLock' = c
         /\ call[c].at \in {"off", "lock"}
  BY DEF BeginCall, TakeLock, CallSteps, At
<1>2. PICK x : x = Gets(c, p)
  OBVIOUS
<1>3. x \in CallRecord /\ call' = [call EXCEPT ![c] = x] /\ x.at = p /\ x.killed = call[c].killed
  <2>1. p \in Place
    BY DEF Place, Before
  <2>2. call' = [call EXCEPT ![c] = x]
    BY <1>1, <1>2 DEF Gets, CommandInv, CommandShape
  <2> QED BY <1>2, <2>1, <2>2, CallAt
<1>4. CallOK(c, x, living[c], launched[c], cmdLock')
  BY <1>1, <1>3 DEF CommandInv, CallOK, Before, Busy
<1> QED BY <1>1, <1>3, <1>4, CallGoes

\* A call is refused, asked about or prepared.
LEMMA ToolChecks ==
  ASSUME CommandInv, NEW c \in Call, CheckCommand(c) \/ Answer(c)
  PROVE  CommandInv'
<1>1. call[c].at \in {"check", "ask"} /\ UNCHANGED <<living, launched, scope>>
  BY DEF CheckCommand, Answer, CallSteps, At
<1>2. living[c] = {} /\ launched[c] = 0 /\ ~call[c].killed
  BY <1>1 DEF CommandInv, CallOK, Before
<1>3. CASE call' = Told(c, "refused") /\ cmdLock' = Freed(c)
  BY <1>1, <1>2, <1>3, CallEnds DEF Telling
<1>4. CASE \E p \in {"prepare", "ask"}, s \in Nat :
              call' = [call EXCEPT ![c] = Asks(c, p, s)] /\ cmdLock' = cmdLock
  <2>1. PICK p \in {"prepare", "ask"}, s \in Nat :
           call' = [call EXCEPT ![c] = Asks(c, p, s)]
    BY <1>4
  <2>2. PICK x : x = Asks(c, p, s)
    OBVIOUS
  <2>3. x \in CallRecord /\ x.at = p /\ x.killed = call[c].killed
    <3>1. p \in Place
      BY DEF Place, Before
    <3> QED BY <2>2, <3>1, CallAsks
  <2>4. CallOK(c, x, living[c], launched[c], cmdLock)
    BY <1>1, <1>2, <2>3 DEF CommandInv, CallOK, Before, Busy
  <2> QED BY <1>1, <1>4, <2>1, <2>2, <2>3, <2>4, CallGoes
<1>5. CASE CheckCommand(c)
  <2>1. \A p \in {"prepare", "ask"} :
           [call EXCEPT ![c].at = p, ![c].scope = scope] = [call EXCEPT ![c] = Asks(c, p, scope)]
    BY DEF CommandInv, CommandShape, Asks
  <2>2. scope \in Nat
    BY DEF CommandInv, CommandShape
  <2> QED BY <1>3, <1>4, <1>5, <2>1, <2>2 DEF CheckCommand
<1>6. CASE Answer(c)
  <2>1. CASE call' = [call EXCEPT ![c].at = "prepare"] /\ cmdLock' = cmdLock
    <3>1. PICK x : x = Gets(c, "prepare")
      OBVIOUS
    <3>2. x \in CallRecord /\ x.at = "prepare" /\ x.killed = call[c].killed /\ call' = [call EXCEPT ![c] = x]
      <4>1. "prepare" \in Place
        BY DEF Place, Before
      <4>2. call' = [call EXCEPT ![c] = x]
        BY <2>1, <3>1 DEF Gets, CommandInv, CommandShape
      <4> QED BY <3>1, <4>1, <4>2, CallAt
    <3>3. CallOK(c, x, living[c], launched[c], cmdLock)
      BY <1>1, <1>2, <3>2 DEF CommandInv, CallOK, Before, Busy
    <3> QED BY <1>1, <2>1, <3>2, <3>3, CallGoes
  <2> QED BY <1>3, <1>6, <2>1 DEF Answer
<1> QED BY <1>5, <1>6

\* A call starts its process in the scope it was approved in.
LEMMA ToolLaunches ==
  ASSUME CommandInv, NEW c \in Call, Launch(c)
  PROVE  CommandInv'
<1>1. call[c].at = "prepare" /\ UNCHANGED scope
  BY DEF Launch, CallSteps, At
<1>2. living[c] = {} /\ launched[c] = 0 /\ ~call[c].killed
  BY <1>1 DEF CommandInv, CallOK, Before
<1>3. CASE scope # call[c].scope
  BY <1>1, <1>2, <1>3, CallEnds DEF Launch, Telling
<1>4. CASE scope = call[c].scope
  <2>1. PICK x : x = Gets(c, "run")
    OBVIOUS
  <2>2. x \in CallRecord /\ x.at = "run" /\ x.scope = scope /\ ~x.killed
    <3>1. "run" \in Place
      BY DEF Place, Busy
    <3>2. PICK p \in Place : p = "run"
      BY <3>1
    <3>3. x = Gets(c, p)
      BY <2>1, <3>2
    <3>4. x \in CallRecord /\ x.at = p /\ x.scope = call[c].scope /\ x.killed = call[c].killed
      BY <3>3, CallAt
    <3> QED BY <1>2, <1>4, <3>2, <3>4
  <2>3. call' = [call EXCEPT ![c] = x] /\ living' = [living EXCEPT ![c] = {"root"}]
        /\ launched' = [launched EXCEPT ![c] = scope] /\ cmdLock' = cmdLock
    BY <1>4, <2>1 DEF Launch, CommandInv, CommandShape, Gets
  <2>4. CallOK(c, x, {"root"}, scope, cmdLock)
    BY <1>1, <2>2 DEF CommandInv, CallOK, Before, Busy
  <2>5. scope \in Nat /\ cmdLock \in Call \cup {NoCall} /\ {"root"} \in SUBSET Process
    BY DEF CommandInv, CommandShape, Process, InTree
  <2> QED BY <1>1, <2>2, <2>3, <2>4, <2>5, OneCallMoves
<1> QED BY <1>3, <1>4

\* Processes start and end while the call stays where it is.
LEMMA ToolForks ==
  ASSUME CommandInv, NEW c \in Call, Fork(c) \/ Exits(c)
  PROVE  CommandInv'
<1>1. UNCHANGED <<call, launched, cmdLock, scope>>
  BY DEF Fork, Exits, CallSteps
<1>2. PICK alive : alive \in SUBSET Process /\ living' = [living EXCEPT ![c] = alive]
                   /\ (living[c] = {} => alive = {})
                   /\ (living[c] \cap Holders = {} => alive \cap Holders = {})
                   /\ (living[c] \cap InTree = {} => alive \cap InTree = {})
  <2>0. living[c] \in SUBSET Process
    BY DEF CommandInv, CommandShape
  <2>1. CASE Fork(c)
    <3>0. PICK p \in living[c] : \E q \in Children(p) : living' = [living EXCEPT ![c] = living[c] \cup {q}]
      BY <2>1 DEF Fork, CommandInv, CommandShape
    <3>1. PICK q \in Children(p) : living' = [living EXCEPT ![c] = living[c] \cup {q}]
      BY <3>0
    <3>2. q \in Process /\ (q \in InTree => p \in InTree) /\ (q \in Holders => p \in Holders)
      BY DEF Children
    <3>3. PICK alive : alive = living[c] \cup {q}
      OBVIOUS
    <3>4. alive \in SUBSET Process /\ (living[c] = {} => alive = {})
      BY <2>0, <3>2, <3>3
    <3>5. living[c] \cap Holders = {} => alive \cap Holders = {}
      BY <3>2, <3>3
    <3>6. living[c] \cap InTree = {} => alive \cap InTree = {}
      BY <3>2, <3>3
    <3> QED BY <3>1, <3>3, <3>4, <3>5, <3>6
  <2>2. CASE Exits(c)
    <3>1. PICK p \in living[c] : living' = [living EXCEPT ![c] = living[c] \ {p}]
      BY <2>2 DEF Exits, CommandInv, CommandShape
    <3> QED BY <2>0, <3>1
  <2> QED BY <2>1, <2>2
<1>3. call[c] \in CallRecord /\ call' = [call EXCEPT ![c] = call[c]] /\ launched' = [launched EXCEPT ![c] = launched[c]]
      /\ launched[c] \in Nat /\ cmdLock \in Call \cup {NoCall} /\ scope \in Nat
  BY <1>1 DEF CommandInv, CommandShape
<1>4. CallOK(c, call[c], alive, launched[c], cmdLock)
  BY <1>2 DEF CommandInv, CallOK, Before
<1> QED BY <1>1, <1>2, <1>3, <1>4, OneCallMoves

\* A call runs out of time or is to be cancelled.
LEMMA ToolInterrupts ==
  ASSUME CommandInv, NEW c \in Call, Interrupt(c) \/ CancelCall(c)
  PROVE  CommandInv'
<1>1. UNCHANGED <<living, launched, cmdLock, scope>>
  BY DEF Interrupt, CancelCall, CallSteps
<1>2. PICK x \in CallRecord : call' = [call EXCEPT ![c] = x] /\ x.scope = call[c].scope
                             /\ x.told = call[c].told /\ x.cut = call[c].cut /\ x.killed = call[c].killed
                             /\ \/ x.at = call[c].at
                                \/ call[c].at = "run" /\ x.at = "kill"
  <2>0. call[c] \in CallRecord
    BY DEF CommandInv, CommandShape
  <2>1. CASE Interrupt(c)
    <3>1. PICK why \in Why : why = IF call[c].due THEN "cancelled" ELSE "timeout"
      BY DEF Why
    <3>2. PICK x : x = [call[c] EXCEPT !.at = "kill", !.why = why, !.due = FALSE]
      OBVIOUS
    <3>3. [call[c] EXCEPT !.at = "kill"] \in CallRecord
      BY <2>0 DEF CallRecord, Place, Busy
    <3>4. [[call[c] EXCEPT !.at = "kill"] EXCEPT !.why = why] \in CallRecord
      BY <3>3 DEF CallRecord
    <3>5. x \in CallRecord
      BY <2>0, <3>2, <3>4 DEF CallRecord
    <3>6. x.at = "kill" /\ x.scope = call[c].scope /\ x.told = call[c].told /\ x.cut = call[c].cut
          /\ x.killed = call[c].killed
      BY <2>0, <3>2 DEF CallRecord
    <3>7. call' = [call EXCEPT ![c] = x] /\ call[c].at = "run"
      BY <2>1, <3>1, <3>2 DEF Interrupt, CommandInv, CommandShape
    <3> QED BY <3>5, <3>6, <3>7
  <2>2. CASE CancelCall(c)
    <3>1. PICK x : x = [call[c] EXCEPT !.due = TRUE]
      OBVIOUS
    <3>2. x \in CallRecord /\ x.at = call[c].at /\ x.scope = call[c].scope /\ x.told = call[c].told /\ x.cut = call[c].cut
          /\ x.killed = call[c].killed
      BY <2>0, <3>1 DEF CallRecord
    <3>3. call' = [call EXCEPT ![c] = x]
      BY <2>2, <3>1 DEF CancelCall, CommandInv, CommandShape
    <3> QED BY <3>2, <3>3
  <2> QED BY <2>1, <2>2
<1>3. CallOK(c, x, living[c], launched[c], cmdLock)
  BY <1>2 DEF CommandInv, CallOK, Before, Busy
<1> QED BY <1>1, <1>2, <1>3, CallGoes

\* Its tree is killed, or at least its root.
LEMMA ToolKills ==
  ASSUME CommandInv, NEW c \in Call, KillTree(c)
  PROVE  CommandInv'
<1>1. UNCHANGED <<launched, cmdLock, scope>> /\ call[c].at = "kill"
  BY DEF KillTree, CallSteps
<1>2. living[c] \in SUBSET Process /\ (call[c].killed => living[c] \cap InTree = {}) /\ call[c] \in CallRecord
  BY DEF CommandInv, CommandShape, CallOK
<1>3. PICK x \in CallRecord, alive \in SUBSET Process :
         /\ call' = [call EXCEPT ![c] = x] /\ living' = [living EXCEPT ![c] = alive]
         /\ x.at \in {"drain", "failed"} /\ x.scope = call[c].scope
         /\ x.killed => alive \cap InTree = {}
  <2>1. ASSUME NEW p \in {"drain", "failed"}, NEW x, x = Gets(c, p)
        PROVE  x \in CallRecord /\ x.at = p /\ x.scope = call[c].scope /\ x.killed = call[c].killed
               /\ [call EXCEPT ![c].at = p] = [call EXCEPT ![c] = x]
    <3>1. p \in Place
      BY DEF Place, Busy
    <3>2. [call EXCEPT ![c].at = p] = [call EXCEPT ![c] = x]
      BY <2>1 DEF Gets, CommandInv, CommandShape
    <3> QED BY <2>1, <3>1, <3>2, CallAt
  <2>2. PICK y : y = Gets(c, "drain")
    OBVIOUS
  <2>3. PICK z : z = Gets(c, "failed")
    OBVIOUS
  <2>4. PICK w : w = [y EXCEPT !.killed = TRUE]
    OBVIOUS
  <2>5. y \in CallRecord /\ y.at = "drain" /\ y.scope = call[c].scope /\ y.killed = call[c].killed
        /\ [call EXCEPT ![c].at = "drain"] = [call EXCEPT ![c] = y]
    <3>1. PICK p \in {"drain", "failed"} : p = "drain"
      OBVIOUS
    <3> QED BY <2>1, <2>2, <3>1
  <2>6. z \in CallRecord /\ z.at = "failed" /\ z.scope = call[c].scope /\ z.killed = call[c].killed
        /\ [call EXCEPT ![c].at = "failed"] = [call EXCEPT ![c] = z]
    <3>1. PICK p \in {"drain", "failed"} : p = "failed"
      OBVIOUS
    <3> QED BY <2>1, <2>3, <3>1
  <2>7. w \in CallRecord /\ w.at = "drain" /\ w.scope = call[c].scope
    BY <2>4, <2>5 DEF CallRecord
  <2>8. [call EXCEPT ![c].at = "drain", ![c].killed = TRUE] = [call EXCEPT ![c] = w]
    BY <2>2, <2>4 DEF Gets, CommandInv, CommandShape
  <2>9. CASE UNCHANGED living /\ call' = [call EXCEPT ![c].at = "drain"]
    <3>1. living' = [living EXCEPT ![c] = living[c]]
      BY <2>9 DEF CommandInv, CommandShape
    <3> QED BY <1>2, <2>5, <2>9, <3>1
  <2>10. CASE Killed(c) /\ call' = [call EXCEPT ![c].at = "drain", ![c].killed = TRUE]
    <3>1. PICK alive \in SUBSET Process : alive = living[c] \ InTree
      BY <1>2
    <3>2. living' = [living EXCEPT ![c] = alive] /\ alive \cap InTree = {}
      BY <2>10, <3>1 DEF Killed, CommandInv, CommandShape
    <3> QED BY <2>7, <2>8, <2>10, <3>2
  <2>11. CASE living' = [living EXCEPT ![c] = @ \ {"root"}] /\ call' = [call EXCEPT ![c].at = "failed"]
    <3>1. PICK alive \in SUBSET Process : alive = living[c] \ {"root"}
      BY <1>2
    <3>2. living' = [living EXCEPT ![c] = alive]
      BY <2>11, <3>1 DEF CommandInv, CommandShape
    <3>3. z.killed => alive \cap InTree = {}
      BY <1>2, <2>6, <3>1
    <3> QED BY <2>6, <2>11, <3>2, <3>3
  <2> QED BY <2>9, <2>10, <2>11 DEF KillTree
<1>5. launched' = [launched EXCEPT ![c] = launched[c]] /\ launched[c] \in Nat
      /\ cmdLock' \in Call \cup {NoCall} /\ scope' \in Nat
  BY <1>1 DEF CommandInv, CommandShape
<1>6. CallOK(c, x, alive, launched[c], cmdLock)
  BY <1>1, <1>3 DEF CommandInv, CallOK, Before, Busy
<1> QED BY <1>1, <1>3, <1>5, <1>6, OneCallMoves

\* A cleanup that is cut short says so.
LEMMA ToolIsCut ==
  ASSUME CommandInv, NEW c \in Call, CutShort(c)
  PROVE  CommandInv'
<1>1. UNCHANGED <<launched, scope>> /\ cmdLock' = Freed(c)
      /\ call' = [Told(c, "cancelled") EXCEPT ![c].cut = TRUE]
  BY DEF CutShort, CallSteps
<1>2. PICK alive \in SUBSET living[c] : living' = [living EXCEPT ![c] = alive]
  <2>1. living[c] \in SUBSET Process /\ living = [living EXCEPT ![c] = living[c]]
    BY DEF CommandInv, CommandShape
  <2>2. [living EXCEPT ![c] = @ \ InTree] = [living EXCEPT ![c] = living[c] \ InTree]
    BY DEF CommandInv, CommandShape
  <2> QED BY <2>1, <2>2 DEF CutShort
<1>3. PICK y : y = Tells(c, "cancelled")
  OBVIOUS
<1>4. y \in CallRecord /\ y.at = "done" /\ y.scope = call[c].scope /\ y.killed = call[c].killed
  <2>1. PICK t \in Telling : t = "cancelled"
    BY DEF Telling
  <2> QED BY <1>3, <2>1, CallTells
<1>5. PICK x : x = [y EXCEPT !.cut = TRUE]
  OBVIOUS
<1>6. x \in CallRecord /\ x.at = "done" /\ x.cut /\ x.scope = call[c].scope /\ x.killed = call[c].killed
  BY <1>4, <1>5 DEF CallRecord
<1>7. call' = [call EXCEPT ![c] = x]
  <2>1. Told(c, "cancelled") = [call EXCEPT ![c] = y]
    BY <1>3 DEF Tells, Told, CommandInv, CommandShape
  <2> QED BY <1>1, <1>5, <2>1 DEF CommandInv, CommandShape
<1>8. launched' = [launched EXCEPT ![c] = launched[c]] /\ launched[c] \in Nat
      /\ cmdLock' \in Call \cup {NoCall} /\ scope' \in Nat /\ (cmdLock' = cmdLock \/ cmdLock \in {c, NoCall})
  BY <1>1 DEF CommandInv, CommandShape, Freed
<1>9. CallOK(c, x, alive, launched[c], cmdLock')
  <2>1. (call[c].killed => living[c] \cap InTree = {}) /\ (launched[c] # 0 => call[c].scope = launched[c])
    BY DEF CommandInv, CallOK
  <2>2. x.killed => alive \cap InTree = {}
    BY <1>2, <1>6, <2>1
  <2> QED BY <1>6, <2>1, <2>2 DEF CallOK, Before, Busy
<1>10. alive \in SUBSET Process
  BY <1>2 DEF CommandInv, CommandShape
<1> QED BY <1>10, <1>2, <1>6, <1>7, <1>8, <1>9, OneCallMoves

\* Every step of a call keeps the invariant.
LEMMA CommandStep ==
  ASSUME CommandInv, CommandNext
  PROVE  CommandInv'
<1>1. ASSUME NEW c \in Call, GiveUpCall(c) PROVE CommandInv'
  <2>1. living[c] \cap Holders = {}
    BY <1>1 DEF GiveUpCall, CommandInv, CallOK, Before
  <2> QED BY <1>1, <2>1, CallEnds DEF GiveUpCall, CallSteps, Telling
<1>2. ASSUME NEW c \in Call, Finish(c) PROVE CommandInv'
  BY <1>2, CallEnds DEF Finish, CallSteps, Telling
<1>3. ASSUME NEW c \in Call, Drain(c) PROVE CommandInv'
  <2>1. call[c].why \in Telling
    BY DEF CommandInv, CommandShape, CallRecord, Why, Telling
  <2>2. UNCHANGED <<living, launched, scope>> /\ cmdLock' = Freed(c)
    BY <1>3 DEF Drain, CallSteps
  <2>3. CASE call' = Told(c, "unverified")
    BY <2>2, <2>3, CallEnds DEF Telling
  <2>4. CASE living[c] \cap Holders = {} /\ call' = Told(c, call[c].why)
    BY <2>1, <2>2, <2>4, CallEnds
  <2> QED BY <1>3, <2>3, <2>4 DEF Drain
<1>4. CASE EndScope
  <2>1. UNCHANGED <<call, living, launched, cmdLock>> /\ scope' = scope + 1
    BY <1>4 DEF EndScope
  <2> QED BY <2>1 DEF CommandInv, CommandShape
<1>5. ASSUME NEW c \in Call,
             \/ BeginCall(c) \/ TakeLock(c) \/ CheckCommand(c) \/ Answer(c) \/ Launch(c)
             \/ Fork(c) \/ Exits(c) \/ Interrupt(c) \/ KillTree(c) \/ CutShort(c) \/ CancelCall(c)
      PROVE CommandInv'
  BY <1>5, ToolBegins, ToolChecks, ToolLaunches, ToolForks, ToolInterrupts, ToolKills, ToolIsCut
<1> QED BY <1>1, <1>2, <1>3, <1>4, <1>5 DEF CommandNext

-----------------------------------------------------------------------------
\* The fields of the browser that its steps change.

\* The browser's record at its next place.
LEMMA BrowserMoved ==
  ASSUME BrowserInv, NEW p \in Stage, NEW b, b = Moved(p)
  PROVE  /\ b \in BrowserRecord /\ b.at = p /\ b.field = browser.field /\ b.live = browser.live
         /\ b.wrong = browser.wrong
<1>1. PICK a \in BrowserRecord : a = browser
  BY DEF BrowserInv
<1>2. b = [a EXCEPT !.at = p, !.due = FALSE]
  BY <1>1 DEF Moved
<1>3. b \in BrowserRecord /\ b.at = p /\ b.field = a.field /\ b.live = a.live /\ b.wrong = a.wrong
  BY <1>2 DEF BrowserRecord
<1> QED BY <1>1, <1>3

\* The browser's record with one more process of its own.
Started(p, q) == [With(q) EXCEPT !.at = p]

\* What that record is.
LEMMA BrowserStarted ==
  ASSUME BrowserInv, NEW p \in Stage, NEW q \in Part, NEW b, b = Started(p, q)
  PROVE  /\ b \in BrowserRecord /\ b.at = p /\ b.field = browser.field \cup {q} /\ b.live = browser.live \cup {q}
         /\ b.wrong = browser.wrong
<1>1. PICK m : m = Moved("")
  OBVIOUS
<1>2. m \in BrowserRecord /\ m.field = browser.field /\ m.live = browser.live /\ m.wrong = browser.wrong
  BY <1>1, BrowserMoved DEF Stage
<1>3. PICK f \in SUBSET Part, l \in SUBSET Part : f = m.field \cup {q} /\ l = m.live \cup {q}
  BY <1>2 DEF BrowserRecord
<1>4. PICK w : w = [m EXCEPT !.field = f, !.live = l]
  OBVIOUS
<1>5. w \in BrowserRecord /\ w.field = f /\ w.live = l /\ w.wrong = m.wrong
  BY <1>2, <1>4 DEF BrowserRecord
<1>6. b = [w EXCEPT !.at = p]
  BY <1>1, <1>3, <1>4 DEF Started, With
<1>7. b \in BrowserRecord /\ b.at = p /\ b.field = w.field /\ b.live = w.live /\ b.wrong = w.wrong
  BY <1>5, <1>6 DEF BrowserRecord
<1> QED BY <1>2, <1>3, <1>5, <1>7

\* A move of the session that leaves its processes alone.
LEMMA BrowserGoesOn ==
  ASSUME BrowserInv, NEW p \in Stage, browser' = Moved(p),
         \/ browser.at = "idle" /\ p \in {"operate", "start"} /\ (p = "operate" <=> "page" \in browser.field)
         \/ browser.at \in {"start", "operate"} /\ p = "idle"
         \/ browser.at \in {"idle", "launch", "open"} /\ p = "close"
         \/ browser.at = "close" /\ p = "stop"
  PROVE  BrowserInv'
<1>1. PICK b : b = Moved(p)
  OBVIOUS
<1>2. /\ b \in BrowserRecord /\ b.at = p /\ b.field = browser.field /\ b.live = browser.live
      /\ b.wrong = browser.wrong
  BY <1>1, BrowserMoved
<1>3. BrowserOK(b)
  BY <1>2 DEF BrowserInv, BrowserOK, Part
<1> QED BY <1>1, <1>2, <1>3 DEF BrowserInv

\* One that something was started in.
LEMMA BrowserStarts ==
  ASSUME BrowserInv, NEW p \in Stage, NEW q \in Part, browser' = Started(p, q),
         <<browser.at, p, q>> \in {<<"start", "launch", "driver">>, <<"launch", "open", "chrome">>, <<"open", "operate", "page">>}
  PROVE  BrowserInv'
<1>1. PICK b : b = Started(p, q)
  OBVIOUS
<1>2. /\ b \in BrowserRecord /\ b.at = p /\ b.field = browser.field \cup {q} /\ b.live = browser.live \cup {q}
      /\ b.wrong = browser.wrong
  BY <1>1, BrowserStarted
<1>3. BrowserOK(b)
  BY <1>2 DEF BrowserInv, BrowserOK, Part
<1> QED BY <1>1, <1>2, <1>3 DEF BrowserInv

\* One in which processes were left or ended.
Others(b, l) == [b EXCEPT !.live = l]

\* Its record with other processes alive.
LEMMA BrowserOthers ==
  ASSUME NEW b \in BrowserRecord, NEW l \in SUBSET Part, NEW o, o = Others(b, l)
  PROVE  o \in BrowserRecord /\ o.live = l /\ o.at = b.at /\ o.field = b.field /\ o.wrong = b.wrong
  BY DEF BrowserRecord, Others

\* Every step of the browser keeps the invariant.
LEMMA BrowserStep ==
  ASSUME BrowserInv, BrowserNext
  PROVE  BrowserInv'
<1> USE DEF BrowserGoes
<1>1. CASE BeginAction
  <2>1. PICK p \in Stage : p = IF "page" \in browser.field THEN "operate" ELSE "start"
    BY DEF Stage
  <2> QED BY <1>1, <2>1, BrowserGoesOn DEF BeginAction
<1>2. CASE CancelAction
  <2>1. PICK b \in BrowserRecord : b = browser
    BY DEF BrowserInv
  <2>2. PICK o : o = [b EXCEPT !.due = TRUE]
    OBVIOUS
  <2>3. o \in BrowserRecord /\ o.live = b.live /\ o.at = b.at /\ o.field = b.field /\ o.wrong = b.wrong
    BY <2>2 DEF BrowserRecord
  <2>4. BrowserOK(o)
    BY <2>1, <2>3 DEF BrowserInv, BrowserOK
  <2>5. browser' = o
    BY <1>2, <2>1, <2>2 DEF CancelAction
  <2> QED BY <2>3, <2>4, <2>5 DEF BrowserInv
<1>3. CASE StartDriver
  <2>1. browser.at = "start" /\ "driver" \in Part /\ {"idle", "launch"} \subseteq Stage
    BY <1>3 DEF StartDriver, Part, Stage
  <2>2. CASE browser' = Started("launch", "driver")
    BY <2>1, <2>2, BrowserStarts
  <2>3. CASE browser' = Moved("idle")
    BY <2>1, <2>3, BrowserGoesOn
  <2>4. CASE browser' = [Moved("idle") EXCEPT !.live = @ \cup {"driver"}, !.wrong = TRUE]
    <3>1. PICK m : m = Moved("idle")
      OBVIOUS
    <3>2. m \in BrowserRecord
      BY <2>1, <3>1, BrowserMoved
    <3>3. PICK l \in SUBSET Part : l = m.live \cup {"driver"}
      BY <2>1, <3>2 DEF BrowserRecord
    <3>4. PICK b : b = [m EXCEPT !.live = l, !.wrong = TRUE]
      OBVIOUS
    <3>5. b \in BrowserRecord /\ b.wrong
      BY <3>2, <3>4 DEF BrowserRecord
    <3> QED BY <2>4, <3>1, <3>3, <3>4, <3>5 DEF BrowserInv, BrowserOK
  <2> QED BY <1>3, <2>2, <2>3, <2>4 DEF StartDriver, Started
<1>4. CASE LaunchChrome
  <2>1. browser.at = "launch" /\ "chrome" \in Part /\ {"close", "open"} \subseteq Stage
    BY <1>4 DEF LaunchChrome, Part, Stage
  <2>2. CASE browser' = Started("open", "chrome")
    BY <2>1, <2>2, BrowserStarts
  <2>3. CASE browser' = Moved("close")
    BY <2>1, <2>3, BrowserGoesOn
  <2>4. ASSUME NEW got \in {{}, {"chrome"}}, browser' = [Moved("close") EXCEPT !.live = @ \cup got] PROVE BrowserInv'
    <3>1. PICK m : m = Moved("close")
      OBVIOUS
    <3>2. m \in BrowserRecord /\ m.at = "close" /\ m.field = browser.field /\ m.wrong = browser.wrong
      BY <2>1, <3>1, BrowserMoved
    <3>3. PICK l \in SUBSET Part : l = m.live \cup got
      BY <2>1, <3>2 DEF BrowserRecord
    <3>4. PICK b : b = Others(m, l)
      OBVIOUS
    <3>5. b \in BrowserRecord /\ b.at = "close" /\ b.field = browser.field /\ b.wrong = browser.wrong
      BY <3>2, <3>4, BrowserOthers
    <3>6. BrowserOK(b)
      BY <2>1, <3>5 DEF BrowserInv, BrowserOK
    <3> QED BY <2>4, <3>1, <3>3, <3>4, <3>5, <3>6 DEF BrowserInv, Others
  <2> QED BY <1>4, <2>2, <2>3, <2>4 DEF LaunchChrome, Started
<1>5. CASE OpenPage
  <2>1. browser.at = "open" /\ "page" \in Part /\ {"close", "operate"} \subseteq Stage
    BY <1>5 DEF OpenPage, Part, Stage
  <2>2. CASE browser' = Started("operate", "page")
    BY <2>1, <2>2, BrowserStarts
  <2>3. CASE browser' = Moved("close")
    BY <2>1, <2>3, BrowserGoesOn
  <2> QED BY <1>5, <2>2, <2>3 DEF OpenPage, Started
<1>6. CASE Operate \/ BeginClose
  <2>1. {"close", "idle"} \subseteq Stage
    BY DEF Stage
  <2> QED BY <1>6, <2>1, BrowserGoesOn DEF Operate, BeginClose
<1>7. CASE CloseChrome
  <2>1. browser.at = "close" /\ "stop" \in Stage
    BY <1>7 DEF CloseChrome, Stage
  <2>2. CASE browser' = Moved("stop")
    BY <2>1, <2>2, BrowserGoesOn
  <2>3. CASE browser' = [Moved("stop") EXCEPT !.live = @ \ (browser.field \cap {"chrome", "page"})]
    <3>1. PICK m : m = Moved("stop")
      OBVIOUS
    <3>2. m \in BrowserRecord /\ m.at = "stop" /\ m.field = browser.field /\ m.live = browser.live /\ m.wrong = browser.wrong
      BY <2>1, <3>1, BrowserMoved
    <3>3. PICK l \in SUBSET Part : l = m.live \ (browser.field \cap {"chrome", "page"})
      BY <3>2 DEF BrowserRecord
    <3>4. PICK b : b = Others(m, l)
      OBVIOUS
    <3>5. b \in BrowserRecord /\ b.at = "stop" /\ b.field = browser.field /\ b.live = l /\ b.wrong = browser.wrong
      BY <3>2, <3>4, BrowserOthers
    <3>6. BrowserOK(b)
      BY <2>1, <3>2, <3>3, <3>5 DEF BrowserInv, BrowserOK
    <3> QED BY <2>3, <3>1, <3>3, <3>4, <3>5, <3>6 DEF BrowserInv, Others
  <2> QED BY <1>7, <2>2, <2>3 DEF CloseChrome
<1>8. CASE StopDriver
  <2>1. PICK m : m = Moved("idle")
    OBVIOUS
  <2>2. browser.at = "stop" /\ m \in BrowserRecord /\ m.at = "idle" /\ m.field = browser.field /\ m.live = browser.live
        /\ m.wrong = browser.wrong
    <3>1. "idle" \in Stage
      BY DEF Stage
    <3> QED BY <1>8, <2>1, <3>1, BrowserMoved DEF StopDriver
  <2>3. CASE browser' = [m EXCEPT !.wrong = TRUE]
    <3>1. PICK b : b = [m EXCEPT !.wrong = TRUE]
      OBVIOUS
    <3>2. b \in BrowserRecord /\ b.wrong
      BY <2>2, <3>1 DEF BrowserRecord
    <3> QED BY <2>3, <3>1, <3>2 DEF BrowserInv, BrowserOK
  <2>4. CASE browser' = [m EXCEPT !.field = {}, !.live = IF "driver" \in browser.field THEN {} ELSE m.live]
    <3>1. PICK l \in SUBSET Part : l = IF "driver" \in browser.field THEN {} ELSE m.live
      BY <2>2 DEF BrowserRecord
    <3>2. PICK b : b = [m EXCEPT !.field = {}, !.live = l]
      OBVIOUS
    <3>3. b \in BrowserRecord /\ b.at = "idle" /\ b.field = {} /\ b.live = l /\ b.wrong = browser.wrong
      BY <2>2, <3>2 DEF BrowserRecord
    <3>4. BrowserOK(b)
      BY <2>2, <3>1, <3>3 DEF BrowserInv, BrowserOK
    <3> QED BY <2>4, <3>1, <3>2, <3>3, <3>4 DEF BrowserInv
  <2> QED BY <1>8, <2>1, <2>3, <2>4 DEF StopDriver
<1>9. CASE Crashes
  <2>1. PICK m \in BrowserRecord : m = browser
    BY DEF BrowserInv
  <2>2. PICK l \in SUBSET Part : l = m.live \ {"chrome", "page"}
    BY DEF BrowserRecord
  <2>3. PICK b : b = [m EXCEPT !.live = l, !.wrong = TRUE]
    OBVIOUS
  <2>4. b \in BrowserRecord /\ b.wrong
    BY <2>3 DEF BrowserRecord
  <2>5. browser' = b
    BY <1>9, <2>1, <2>2, <2>3 DEF Crashes
  <2> QED BY <2>4, <2>5 DEF BrowserInv, BrowserOK
<1> QED BY <1>1, <1>2, <1>3, <1>4, <1>5, <1>6, <1>7, <1>8, <1>9 DEF BrowserNext

-----------------------------------------------------------------------------

\* Every step keeps the invariant.
LEMMA ToolStep == ToolInv /\ [CommandNext \/ BrowserNext]_toolVars => ToolInv'
<1> SUFFICES ASSUME ToolInv, [CommandNext \/ BrowserNext]_toolVars PROVE ToolInv'
  OBVIOUS
<1>1. CASE CommandNext
  <2>1. browser' = browser
    BY <1>1 DEF CommandNext, BeginCall, TakeLock, CheckCommand, Answer, Launch, GiveUpCall, Fork, Exits, Finish,
                Interrupt, KillTree, Drain, CutShort, CancelCall, EndScope, CallSteps
  <2> QED BY <1>1, <2>1, CommandStep DEF ToolInv, BrowserInv
<1>2. CASE BrowserNext
  <2>1. UNCHANGED <<scope, call, living, launched, cmdLock>>
    BY <1>2 DEF BrowserNext, BeginAction, CancelAction, StartDriver, LaunchChrome, OpenPage, Operate, BeginClose,
                CloseChrome, StopDriver, Crashes, BrowserGoes
  <2> QED BY <1>2, <2>1, BrowserStep DEF ToolInv, CommandInv, CommandShape
<1>3. CASE UNCHANGED toolVars
  BY <1>3 DEF toolVars, ToolInv, CommandInv, CommandShape, BrowserInv
<1> QED BY <1>1, <1>2, <1>3

\* A call that ends leaves nothing it owns without saying so, commands run one
\* at a time, what runs was approved in the turn and session it was started in,
\* and the browser is there as a whole or not at all, however cancellations and
\* failures fall, for any calls and bounds (run_command, execute_skill_script,
\* _terminate_process_tree, authorize_command, PlaywrightBrowserSession).
THEOREM ToolsOwnTheirProcessesCorrect == ToolSpec => []ToolsOwnTheirProcesses
<1>1. ToolSpec => []ToolInv
  BY ToolInitially, ToolStep, PTL DEF ToolSpec
<1> QED BY <1>1, ToolProperties, PTL
=============================================================================
