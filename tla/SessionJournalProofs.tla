------------------------- MODULE SessionJournalProofs -------------------------
(***************************************************************************)
(* Proofs about SessionJournal for every set of instances and batches and  *)
(* every bound: type correctness, that every batch in the file follows     *)
(* what it was prepared against, and that the journal implements           *)
(* DurableLog, the log its writers are promised.                           *)
(*                                                                         *)
(* The argument: an instance that is not stale knows the file; the number  *)
(* of transactions only grows while a batch is uncertain, so a retry that  *)
(* finds the number it was given finds the log it was prepared against;    *)
(* and a batch is in one instance's hands only.                            *)
(*                                                                         *)
(* Compaction sets the number back: a batch that is uncertain then may     *)
(* find its number again, and is excused by the history variable passed.   *)
(***************************************************************************)
EXTENDS SessionJournal, SequenceTheorems, TLAPS

\* Stable storage is behind the file, and reported saves are on it.
LogsAgree ==
  /\ IsPrefix(disk.log, file.log)
  /\ acked \subseteq ToSet(disk.log) /\ ToSet(file.log) \subseteq used
  /\ file.last \in Batch => file.last \in ToSet(file.log)
  /\ disk.last \in Batch => disk.last \in ToSet(disk.log)

ViewsAreFresh == \A i \in Instance : Open(i) /\ i \notin stale => view[i] = Healed

\* A batch is in one instance's hands only.
Hands(i) == {target[i], pending[i].batch} \cap Batch
OneOwner ==
  /\ \A i \in Instance : Hands(i) \subseteq used
  /\ \A i, j \in Instance : i # j => Hands(i) \cap Hands(j) = {}

\* An uncertain batch with the next number was prepared against this very log.
InPlace(b, seq) ==
  /\ seq <= file.count + 1
  /\ seq = file.count + 1 => prior[b] = file.log /\ b \notin ToSet(file.log)
Uncertain(i) ==
  pending[i] # Settled =>
    /\ pending[i].batch \in Batch
    /\ pending[i].batch \in passed \/ InPlace(pending[i].batch, pending[i].seq)

\* What an owner is about to report as saved is on stable storage.
TargetIsSafe(i) ==
  target[i] \in ToSet(file.log) =>
    target[i] \in ToSet(disk.log) \/ pending[i].batch = target[i]

JournalInv ==
  /\ TypeOK /\ LogsAgree /\ BasedOnLatest /\ ViewsAreFresh /\ OneOwner
  /\ \A i \in Instance : Uncertain(i) /\ TargetIsSafe(i)

-----------------------------------------------------------------------------
(* Sequences of batches.                                                   *)

BasedOn(log, on, but) ==
  \A k \in DOMAIN log : log[k] \in but \/ on[log[k]] = SubSeq(log, 1, k - 1)

LEMMA ToSetLemma ==
  ASSUME NEW s \in Seq(Batch)
  PROVE  ToSet(s) = {s[k] : k \in 1..Len(s)} /\ ToSet(s) \subseteq Batch
BY DEF ToSet

LEMMA PrefixLemma ==
  ASSUME NEW s \in Seq(Batch), NEW t \in Seq(Batch)
  PROVE  IsPrefix(s, t) <=> Len(s) <= Len(t) /\ \A k \in 1..Len(s) : s[k] = t[k]
<1>1. ASSUME Len(s) <= Len(t)
      PROVE  /\ SubSeq(t, 1, Len(s)) \in Seq(Batch) /\ Len(SubSeq(t, 1, Len(s))) = Len(s)
             /\ \A k \in 1..Len(s) : SubSeq(t, 1, Len(s))[k] = t[k]
  <2>1. \A k \in 1..Len(s) : t[k] \in Batch
    BY <1>1
  <2>2. Len(s) \in Nat
    OBVIOUS
  <2> QED BY <2>1, <2>2, SubSeqProperties
<1>2. SubSeq(s, 1, Len(s)) = s
  BY SubSeqFull
<1>3. ASSUME Len(s) <= Len(t), \A k \in 1..Len(s) : s[k] = t[k]
      PROVE  s = SubSeq(t, 1, Len(s))
  BY <1>1, <1>3, SeqEqual
<1> QED BY <1>1, <1>2, <1>3 DEF IsPrefix

LEMMA PrefixFacts ==
  ASSUME NEW s \in Seq(Batch), NEW t \in Seq(Batch), IsPrefix(s, t)
  PROVE  /\ ToSet(s) \subseteq ToSet(t)
         /\ \A on, but : BasedOn(t, on, but) => BasedOn(s, on, but)
<1>1. Len(s) <= Len(t) /\ \A k \in 1..Len(s) : s[k] = t[k]
  BY PrefixLemma
<1>2. ToSet(s) \subseteq ToSet(t)
  BY <1>1, ToSetLemma
<1>4. ASSUME NEW on, NEW but, BasedOn(t, on, but), NEW k \in DOMAIN s, s[k] \notin but
      PROVE  on[s[k]] = SubSeq(s, 1, k - 1)
  <2>1. k \in 1..Len(s) /\ k \in DOMAIN t /\ s[k] = t[k]
    BY <1>1
  <2>2. \A m \in 1..k - 1 : s[m] \in Batch /\ t[m] \in Batch /\ s[m] = t[m]
    BY <1>1, <2>1
  <2>3. SubSeq(s, 1, k - 1) = SubSeq(t, 1, k - 1)
    <3>1. /\ SubSeq(s, 1, k - 1) \in Seq(Batch)
          /\ Len(SubSeq(s, 1, k - 1)) = IF 1 <= k - 1 THEN k - 1 - 1 + 1 ELSE 0
          /\ \A m \in 1 .. k - 1 - 1 + 1 : SubSeq(s, 1, k - 1)[m] = s[1 + m - 1]
      BY <2>1, <2>2, SubSeqProperties
    <3>2. /\ SubSeq(t, 1, k - 1) \in Seq(Batch)
          /\ Len(SubSeq(t, 1, k - 1)) = IF 1 <= k - 1 THEN k - 1 - 1 + 1 ELSE 0
          /\ \A m \in 1 .. k - 1 - 1 + 1 : SubSeq(t, 1, k - 1)[m] = t[1 + m - 1]
      BY <2>1, <2>2, SubSeqProperties
    <3>3. Len(SubSeq(s, 1, k - 1)) = k - 1 /\ Len(SubSeq(t, 1, k - 1)) = k - 1
      BY <2>1, <3>1, <3>2
    <3>4. \A m \in 1..k - 1 : SubSeq(s, 1, k - 1)[m] = SubSeq(t, 1, k - 1)[m]
      BY <2>1, <2>2, <3>1, <3>2
    <3> QED BY <3>1, <3>2, <3>3, <3>4, SeqEqual
  <2> QED BY <1>4, <2>1, <2>3 DEF BasedOn
<1> QED BY <1>2, <1>4 DEF BasedOn

\* A batch is written behind a log.
LEMMA GrowLemma ==
  ASSUME NEW t \in Seq(Batch), NEW b \in Batch
  PROVE  /\ Append(t, b) \in Seq(Batch) /\ ToSet(Append(t, b)) = ToSet(t) \cup {b}
         /\ IsPrefix(t, t)
         /\ \A s \in Seq(Batch) : IsPrefix(s, t) => IsPrefix(s, Append(t, b))
<1>1. /\ Append(t, b) \in Seq(Batch) /\ Len(Append(t, b)) = Len(t) + 1
      /\ \A k \in 1..Len(t) : Append(t, b)[k] = t[k]
      /\ Append(t, b)[Len(t) + 1] = b
  BY AppendProperties
<1>2. ToSet(Append(t, b)) = ToSet(t) \cup {b}
  <2>1. ToSet(Append(t, b)) = {Append(t, b)[k] : k \in 1..Len(t) + 1}
    BY <1>1, ToSetLemma
  <2> QED BY <1>1, <2>1, ToSetLemma
<1>4. ASSUME NEW s \in Seq(Batch), IsPrefix(s, t) PROVE IsPrefix(s, Append(t, b))
  <2> DEFINE u == Append(t, b)
  <2>1. Len(s) <= Len(t) /\ \A k \in 1..Len(s) : s[k] = t[k]
    BY <1>4, PrefixLemma
  <2>2. Len(s) <= Len(u) /\ \A k \in 1..Len(s) : s[k] = u[k]
    BY <1>1, <2>1
  <2>3. u \in Seq(Batch)
    BY <1>1
  <2> HIDE DEF u
  <2>4. IsPrefix(s, u)
    BY <2>2, <2>3, PrefixLemma
  <2> QED BY <2>4 DEF u
<1>5. IsPrefix(t, t)
  BY PrefixLemma
<1> QED BY <1>1, <1>2, <1>4, <1>5

LEMMA BasedLemma ==
  ASSUME NEW t \in Seq(Batch), NEW b \in Batch, NEW on, NEW after, NEW but,
         BasedOn(t, on, but), b \in but \/ after[b] = t,
         \A c \in ToSet(t) : after[c] = on[c]
  PROVE  BasedOn(Append(t, b), after, but)
<1>1. /\ Append(t, b) \in Seq(Batch) /\ Len(Append(t, b)) = Len(t) + 1
      /\ \A k \in 1..Len(t) : Append(t, b)[k] = t[k]
      /\ Append(t, b)[Len(t) + 1] = b
  BY AppendProperties
<1>2. \A k \in 1..Len(t) + 1 : SubSeq(Append(t, b), 1, k - 1) = SubSeq(t, 1, k - 1)
  <2> SUFFICES ASSUME NEW k \in 1..Len(t) + 1
               PROVE  SubSeq(Append(t, b), 1, k - 1) = SubSeq(t, 1, k - 1)
    OBVIOUS
  <2>1. \A m \in 1..k - 1 : t[m] \in Batch /\ Append(t, b)[m] = t[m]
    BY <1>1
  <2>2. /\ SubSeq(t, 1, k - 1) \in Seq(Batch)
        /\ Len(SubSeq(t, 1, k - 1)) = IF 1 <= k - 1 THEN k - 1 - 1 + 1 ELSE 0
        /\ \A m \in 1 .. k - 1 - 1 + 1 : SubSeq(t, 1, k - 1)[m] = t[1 + m - 1]
    BY <2>1, SubSeqProperties
  <2>3. /\ SubSeq(Append(t, b), 1, k - 1) \in Seq(Batch)
        /\ Len(SubSeq(Append(t, b), 1, k - 1)) = IF 1 <= k - 1 THEN k - 1 - 1 + 1 ELSE 0
        /\ \A m \in 1 .. k - 1 - 1 + 1 : SubSeq(Append(t, b), 1, k - 1)[m] = Append(t, b)[1 + m - 1]
    BY <2>1, SubSeqProperties
  <2>4. Len(SubSeq(t, 1, k - 1)) = k - 1 /\ Len(SubSeq(Append(t, b), 1, k - 1)) = k - 1
    BY <2>2, <2>3
  <2>5. \A m \in 1..k - 1 : SubSeq(Append(t, b), 1, k - 1)[m] = SubSeq(t, 1, k - 1)[m]
    BY <2>1, <2>2, <2>3
  <2> QED BY <2>2, <2>3, <2>4, <2>5, SeqEqual
<1>3. ASSUME NEW k \in 1..Len(t) + 1, Append(t, b)[k] \notin but
      PROVE  after[Append(t, b)[k]] = SubSeq(Append(t, b), 1, k - 1)
  <2>1. CASE k \in 1..Len(t)
    <3>1. t[k] \in ToSet(t)
      BY <2>1, ToSetLemma
    <3>2. on[t[k]] = SubSeq(t, 1, k - 1)
      BY <1>1, <1>3, <2>1 DEF BasedOn
    <3> QED BY <1>1, <1>2, <2>1, <3>1, <3>2
  <2>2. CASE k = Len(t) + 1
    <3>1. SubSeq(t, 1, k - 1) = t
      BY <2>2, SubSeqFull
    <3> QED BY <1>1, <1>2, <1>3, <2>2, <3>1
  <2> QED BY <2>1, <2>2
<1> QED BY <1>1, <1>3 DEF BasedOn

\* What follows on what it was prepared against has one place.
LEMMA OnceLemma ==
  ASSUME NEW t \in Seq(Batch), NEW on, NEW but, BasedOn(t, on, but),
         NEW k \in DOMAIN t, NEW m \in DOMAIN t, t[k] = t[m]
  PROVE  k = m \/ t[k] \in but
<1> SUFFICES ASSUME t[k] \notin but PROVE k = m
  OBVIOUS
<1>1. ASSUME NEW n \in 1..Len(t) PROVE Len(SubSeq(t, 1, n - 1)) = n - 1
  <2>1. \A j \in 1..n - 1 : t[j] \in Batch
    OBVIOUS
  <2>2. Len(SubSeq(t, 1, n - 1)) = IF 1 <= n - 1 THEN n - 1 - 1 + 1 ELSE 0
    BY <2>1, SubSeqProperties
  <2> QED BY <2>2
<1>2. SubSeq(t, 1, k - 1) = SubSeq(t, 1, m - 1)
  BY DEF BasedOn
<1>3. k \in 1..Len(t) /\ m \in 1..Len(t)
  OBVIOUS
<1> QED BY <1>1, <1>2, <1>3

-----------------------------------------------------------------------------
(* The file in front of an instance that reads it.                         *)

LEMMA FileLemma ==
  ASSUME TypeOK
  PROVE  /\ Healed \in File /\ Healed.log = file.log /\ Healed.count = file.count
         /\ Healed.last = file.last /\ ~Healed.torn
         /\ Torn(Healed) \in File /\ Torn(Healed).log = file.log
         /\ Torn(Healed).count = file.count /\ Torn(Healed).last = file.last
         /\ \A b \in Batch : /\ With(Healed, b) \in File
                             /\ With(Healed, b).log = Append(file.log, b)
                             /\ With(Healed, b).count = file.count + 1
                             /\ With(Healed, b).last = b /\ ~With(Healed, b).torn
<1>1. file \in File
  BY DEF TypeOK
<1>2. /\ Healed \in File /\ Healed.log = file.log /\ Healed.count = file.count
      /\ Healed.last = file.last /\ ~Healed.torn
  BY <1>1 DEF Healed, File
<1>3. /\ Torn(Healed) \in File /\ Torn(Healed).log = file.log
      /\ Torn(Healed).count = file.count /\ Torn(Healed).last = file.last
  BY <1>1, <1>2 DEF Torn, File
<1>4. ASSUME NEW b \in Batch
      PROVE  /\ With(Healed, b) \in File /\ With(Healed, b).log = Append(file.log, b)
             /\ With(Healed, b).count = file.count + 1
             /\ With(Healed, b).last = b /\ ~With(Healed, b).torn
  <2>1. Append(file.log, b) \in Seq(Batch) /\ file.count + 1 \in Nat
    BY <1>1, AppendProperties DEF File
  <2> QED BY <1>2, <2>1 DEF With, File
<1> QED BY <1>2, <1>3, <1>4

\* An instance with nothing uncertain sees the file as it is.
LEMMA FreshLemma ==
  ASSUME JournalInv, NEW i \in Instance, Open(i), pending[i] = Settled
  PROVE  Fresh(i) = Healed /\ Kept(i) \in {disk, Healed}
<1>1. Fresh(i) = Healed
  BY DEF JournalInv, ViewsAreFresh, Fresh
<1> QED BY <1>1 DEF Kept

\* The names a step can give to a target or to an uncertain batch.
LEMMA NamesLemma ==
  /\ NoBatch \notin Batch /\ Compact \notin Batch /\ NoBatch # Compact
  /\ Settled \in [batch : Batch \cup {NoBatch}, seq : Nat] /\ Settled.batch = NoBatch
  /\ \A b \in Batch, n \in Nat :
       /\ [batch |-> b, seq |-> n] \in [batch : Batch \cup {NoBatch}, seq : Nat]
       /\ [batch |-> b, seq |-> n] # Settled
BY SessionJournalAssumption DEF Settled

LEMMA CountLemma ==
  ASSUME TypeOK
  PROVE  /\ \A i \in Instance : CanFail(i) /\ Fault
               => count' \in Counts
         /\ Crash => count' \in Counts
<1>1. /\ count \in [faults : 0..MaxFaults, crashes : 0..MaxCrashes, compactions : 0..MaxCompactions]
      /\ MaxFaults \in Nat /\ MaxCrashes \in Nat /\ MaxCompactions \in Nat
  BY SessionJournalAssumption DEF TypeOK, Counts
<1>2. ASSUME count.faults < MaxFaults, Fault
      PROVE  count' \in Counts
  BY <1>1, <1>2 DEF Fault, Counts
<1>3. ASSUME Crash PROVE count' \in Counts
  BY <1>1, <1>3 DEF Crash, Counts
<1> QED BY <1>2, <1>3 DEF CanFail

-----------------------------------------------------------------------------
(* What a step can do to the log.                                          *)

DiskFollows == \/ disk'.log = disk.log /\ disk'.last = disk.last
               \/ disk'.log = file'.log /\ disk'.last = file'.last
               \/ disk'.log = file.log /\ disk'.last = file.last
HistoryKept == /\ used \subseteq used' /\ acked \subseteq acked' /\ passed \subseteq passed'
               /\ acked' \subseteq ToSet(disk'.log)
               /\ \A c \in ToSet(file.log) : prior'[c] = prior[c]
SameLog == /\ file'.log = file.log /\ file'.last \in {file.last, Compact}
           /\ DiskFollows /\ HistoryKept
LongerLog(b) == /\ b \in Batch /\ file'.log = Append(file.log, b)
                /\ file'.last = b /\ DiskFollows /\ HistoryKept
                /\ b \in used' /\ (b \in passed \/ prior'[b] = file.log)

LEMMA LogTypes ==
  ASSUME TypeOK
  PROVE  /\ file.log \in Seq(Batch) /\ disk.log \in Seq(Batch)
         /\ file.count \in Nat /\ disk.count \in Nat
         /\ ToSet(file.log) \subseteq Batch /\ ToSet(disk.log) \subseteq Batch
         /\ BasedOnLatest <=> BasedOn(file.log, prior, passed)
<1>1. file.log \in Seq(Batch) /\ disk.log \in Seq(Batch) /\ file.count \in Nat /\ disk.count \in Nat
  BY DEF TypeOK, File
<1> QED BY <1>1, ToSetLemma DEF BasedOnLatest, BasedOn

LEMMA SameLogStep ==
  ASSUME JournalInv, TypeOK', SameLog
  PROVE  /\ LogsAgree' /\ BasedOnLatest' /\ ToSet(disk.log) \subseteq ToSet(disk'.log)
         /\ IsPrefix(disk.log, disk'.log)
<1>1. TypeOK /\ LogsAgree /\ BasedOnLatest
  BY DEF JournalInv
<1>2. ToSet(disk.log) \subseteq ToSet(file.log)
  BY <1>1, LogTypes, PrefixFacts DEF LogsAgree
<1>3. IsPrefix(file.log, file.log)
  BY <1>1, LogTypes, PrefixLemma
<1>4. LogsAgree'
  BY <1>1, <1>2, <1>3, NamesLemma DEF LogsAgree, SameLog, DiskFollows, HistoryKept
<1>5. BasedOnLatest'
  <2>1. ASSUME NEW k \in DOMAIN file.log, file.log[k] \notin passed'
        PROVE  prior'[file.log[k]] = SubSeq(file.log, 1, k - 1)
    <3>1. file.log[k] \in ToSet(file.log)
      BY DEF ToSet
    <3> QED BY <1>1, <2>1, <3>1 DEF SameLog, HistoryKept, BasedOnLatest
  <2> QED BY <2>1 DEF SameLog, BasedOnLatest
<1>6. IsPrefix(disk.log, disk.log) /\ IsPrefix(disk.log, file.log)
  BY <1>1, LogTypes, PrefixLemma DEF LogsAgree
<1> QED BY <1>2, <1>4, <1>5, <1>6 DEF SameLog, DiskFollows

LEMMA LongerLogStep ==
  ASSUME JournalInv, TypeOK', NEW b, LongerLog(b)
  PROVE  /\ LogsAgree' /\ BasedOnLatest' /\ ToSet(disk.log) \subseteq ToSet(disk'.log)
         /\ IsPrefix(disk.log, disk'.log) /\ ToSet(file'.log) = ToSet(file.log) \cup {b}
<1>1. TypeOK /\ LogsAgree /\ BasedOnLatest /\ b \in Batch
  BY DEF JournalInv, LongerLog
<1>2. ToSet(disk.log) \subseteq ToSet(file.log)
  BY <1>1, LogTypes, PrefixFacts DEF LogsAgree
<1>3. /\ file.log \in Seq(Batch) /\ disk.log \in Seq(Batch)
      /\ IsPrefix(disk.log, file.log)
  BY <1>1, LogTypes DEF LogsAgree
<1>4. /\ file'.log \in Seq(Batch) /\ ToSet(file'.log) = ToSet(file.log) \cup {b}
      /\ IsPrefix(disk.log, file'.log)
  BY <1>1, <1>3, GrowLemma DEF LongerLog
<1>5. IsPrefix(file'.log, file'.log) /\ IsPrefix(file.log, file'.log)
  <2>1. IsPrefix(file'.log, file'.log)
    BY <1>4, PrefixLemma
  <2>2. IsPrefix(file.log, file.log)
    BY <1>3, PrefixLemma
  <2>3. IsPrefix(file.log, Append(file.log, b))
    BY <1>1, <1>3, <2>2, GrowLemma
  <2> QED BY <2>1, <2>3 DEF LongerLog
<1>6. LogsAgree'
  BY <1>1, <1>2, <1>4, <1>5, NamesLemma DEF LogsAgree, LongerLog, DiskFollows, HistoryKept
<1>7. BasedOnLatest'
  <2>1. BasedOn(file.log, prior, passed)
    BY <1>1, LogTypes
  <2>2. BasedOn(Append(file.log, b), prior', passed)
    BY <1>1, <1>3, <2>1, BasedLemma DEF LongerLog, HistoryKept
  <2> QED BY <2>2 DEF LongerLog, HistoryKept, BasedOn, BasedOnLatest
<1>8. IsPrefix(disk.log, disk.log)
  BY <1>3, PrefixLemma
<1> QED BY <1>2, <1>3, <1>4, <1>6, <1>7, <1>8 DEF LongerLog, DiskFollows

-----------------------------------------------------------------------------
(* What a step of one instance leaves to the others.                       *)

OthersKept(i) == \A j \in Instance \ {i} :
  /\ owner'[j] = owner[j] /\ view'[j] = view[j]
  /\ target'[j] = target[j] /\ pending'[j] = pending[j]
  /\ j \notin stale' => file' = file /\ j \notin stale

\* What the step may write or take in hand.
Own(i) == Hands(i) \cup (used' \ used)

\* The number of transactions tells the others that the file changed.
CountTells ==
  \/ SameLog /\ file'.count = file.count
  \/ file'.count = file.count + 1
  \/ \A j \in Instance : pending[j] = Settled \/ pending[j].batch \in passed'

StepOf(i) ==
  /\ OthersKept(i) /\ CountTells
  /\ SameLog \/ \E b \in Own(i) : LongerLog(b)
  /\ \A c \in used \ Hands(i) : prior'[c] = prior[c]
  /\ {target'[i], pending'[i].batch} \cap Batch \subseteq Own(i)
  /\ owner'[i] = "closed" \/ i \in stale' \/ view'[i] = [file' EXCEPT !.torn = FALSE]
  /\ \/ pending'[i] = Settled
     \/ /\ pending'[i] = pending[i] /\ prior' = prior
        /\ \/ SameLog /\ file'.count = file.count
           \/ file'.log = Append(file.log, pending[i].batch) /\ file'.count = file.count + 1
     \/ /\ pending'[i].batch \in Batch /\ pending'[i].seq = file.count + 1
        /\ \/ pending'[i].batch \in passed
           \/ pending'[i].batch \notin ToSet(file.log) /\ prior'[pending'[i].batch] = file.log
        /\ \/ SameLog /\ file'.count = file.count
           \/ file'.count = file.count + 1
  /\ \/ target'[i] \notin ToSet(file'.log) \/ target'[i] \in ToSet(disk'.log)
     \/ target'[i] = pending'[i].batch

LEMMA OwnedStep ==
  ASSUME JournalInv, TypeOK', NEW i \in Instance, StepOf(i), HistoryKept
  PROVE  OneOwner'
<1>1. /\ OneOwner /\ used \subseteq used'
  BY DEF JournalInv, HistoryKept
<1>2. \A j \in Instance \ {i} : target'[j] = target[j] /\ pending'[j] = pending[j]
  BY DEF StepOf, OthersKept
<1>3. {target'[i], pending'[i].batch} \cap Batch \subseteq Own(i)
  BY DEF StepOf
<1>4. Own(i) \subseteq Batch /\ Own(i) \subseteq used'
  BY <1>1 DEF Own, OneOwner, Hands, TypeOK
<1>5. \A j \in Instance : {target'[j], pending'[j].batch} \cap Batch \subseteq used'
  BY <1>1, <1>2, <1>3, <1>4 DEF OneOwner, Hands
<1>6. \A j \in Instance \ {i} : Own(i) \cap ({target'[j], pending'[j].batch} \cap Batch) = {}
  BY <1>1, <1>2 DEF OneOwner, Hands, Own
<1>7. \A j, k \in Instance : j # k =>
        ({target'[j], pending'[j].batch} \cap Batch) \cap ({target'[k], pending'[k].batch} \cap Batch) = {}
  <2> SUFFICES ASSUME NEW j \in Instance, NEW k \in Instance, j # k
               PROVE ({target'[j], pending'[j].batch} \cap Batch)
                       \cap ({target'[k], pending'[k].batch} \cap Batch) = {}
    OBVIOUS
  <2>1. CASE j = i
    BY <1>3, <1>6, <2>1
  <2>2. CASE k = i
    BY <1>3, <1>6, <2>2
  <2>3. CASE j # i /\ k # i
    BY <1>1, <1>2, <2>3 DEF OneOwner, Hands
  <2> QED BY <2>1, <2>2, <2>3
<1> QED BY <1>5, <1>7 DEF OneOwner, Hands

LEMMA UncertainStep ==
  ASSUME JournalInv, TypeOK', NEW i \in Instance, StepOf(i), HistoryKept
  PROVE  \A j \in Instance : Uncertain(j)'
<1>1. TypeOK /\ OneOwner /\ \A j \in Instance : Uncertain(j)
  BY DEF JournalInv
<1>2. /\ file.count \in Nat /\ file.log \in Seq(Batch) /\ file'.count \in Nat
      /\ ToSet(file.log) \subseteq Batch
      /\ \A j \in Instance : pending[j].seq \in Nat /\ pending'[j].seq \in Nat
  BY <1>1, LogTypes DEF TypeOK, File
<1>3. ASSUME NEW j \in Instance \ {i} PROVE Uncertain(j)'
  <2>1. pending'[j] = pending[j]
    BY DEF StepOf, OthersKept
  <2> SUFFICES ASSUME pending[j] # Settled, pending[j].batch \notin passed'
               PROVE  /\ pending[j].batch \in Batch
                      /\ pending[j].seq <= file'.count + 1
                      /\ pending[j].seq = file'.count + 1 =>
                           /\ prior'[pending[j].batch] = file'.log
                           /\ pending[j].batch \notin ToSet(file'.log)
    <3>1. pending[j] # Settled => pending[j].batch \in Batch
      BY <1>1 DEF Uncertain
    <3> QED BY <2>1, <3>1 DEF Uncertain, InPlace
  <2>2. /\ pending[j].batch \in Batch /\ pending[j].seq <= file.count + 1
        /\ pending[j].seq = file.count + 1 =>
             prior[pending[j].batch] = file.log /\ pending[j].batch \notin ToSet(file.log)
    BY <1>1 DEF Uncertain, InPlace, HistoryKept
  <2>3. pending[j].batch \in used \ Hands(i)
    BY <1>1, <2>2 DEF OneOwner, Hands
  <2>4. prior'[pending[j].batch] = prior[pending[j].batch]
    BY <2>3 DEF StepOf
  <2>5. CASE SameLog /\ file'.count = file.count
    BY <2>2, <2>4, <2>5 DEF SameLog
  <2>6. CASE file'.count = file.count + 1
    BY <1>2, <2>2, <2>6
  <2> QED BY <2>5, <2>6 DEF StepOf, CountTells
<1>4. Uncertain(i)'
  <2> SUFFICES ASSUME pending'[i] # Settled
               PROVE  /\ pending'[i].batch \in Batch
                      /\ pending'[i].batch \notin passed' =>
                           /\ pending'[i].seq <= file'.count + 1
                           /\ pending'[i].seq = file'.count + 1 =>
                                /\ prior'[pending'[i].batch] = file'.log
                                /\ pending'[i].batch \notin ToSet(file'.log)
    BY DEF Uncertain, InPlace
  <2>1. CASE pending'[i] = pending[i] /\ prior' = prior
             /\ SameLog /\ file'.count = file.count
    BY <1>1, <2>1 DEF Uncertain, InPlace, SameLog, HistoryKept
  <2>2. CASE pending'[i] = pending[i] /\ prior' = prior /\ file'.count = file.count + 1
    <3>1. /\ pending[i].batch \in Batch
          /\ pending[i].batch \notin passed' => pending[i].seq <= file.count + 1
      BY <1>1, <2>2 DEF Uncertain, InPlace, HistoryKept
    <3> QED BY <1>2, <2>2, <3>1
  <2>3. CASE /\ pending'[i].batch \in Batch /\ pending'[i].seq = file.count + 1
             /\ \/ pending'[i].batch \in passed
                \/ pending'[i].batch \notin ToSet(file.log) /\ prior'[pending'[i].batch] = file.log
             /\ SameLog /\ file'.count = file.count
    BY <1>2, <2>3 DEF SameLog, HistoryKept
  <2>4. CASE /\ pending'[i].batch \in Batch
             /\ pending'[i].seq = file.count + 1 /\ file'.count = file.count + 1
    BY <1>2, <2>4
  <2> QED BY <2>1, <2>2, <2>3, <2>4 DEF StepOf
<1> QED BY <1>3, <1>4

LEMMA TargetStep ==
  ASSUME JournalInv, TypeOK', NEW i \in Instance, StepOf(i)
  PROVE  \A j \in Instance : TargetIsSafe(j)'
<1>1. TypeOK /\ OneOwner /\ \A j \in Instance : TargetIsSafe(j)
  BY DEF JournalInv
<1>2. ToSet(file.log) \subseteq Batch
  BY <1>1, LogTypes
<1>3. /\ ToSet(disk.log) \subseteq ToSet(disk'.log)
      /\ ToSet(file'.log) \subseteq ToSet(file.log) \cup Own(i)
  <2>1. CASE SameLog
    BY <2>1, SameLogStep DEF SameLog
  <2>2. ASSUME NEW b \in Own(i), LongerLog(b) PROVE <1>3!1 /\ <1>3!2
    BY <2>2, LongerLogStep
  <2> QED BY <2>1, <2>2 DEF StepOf
<1>4. ASSUME NEW j \in Instance \ {i} PROVE TargetIsSafe(j)'
  <2>1. pending'[j] = pending[j] /\ target'[j] = target[j]
    BY DEF StepOf, OthersKept
  <2>2. ASSUME target[j] \in Own(i) PROVE target[j] \notin Batch
    BY <1>1, <2>2 DEF OneOwner, Hands, Own
  <2>3. ASSUME target[j] \in ToSet(file'.log)
        PROVE  target[j] \in ToSet(disk'.log) \/ pending[j].batch = target[j]
    <3>1. target[j] \in Batch
      BY <2>3, LogTypes, <1>2, <1>3, <1>1 DEF Own, OneOwner, Hands, TypeOK
    <3>2. target[j] \in ToSet(file.log)
      BY <1>3, <2>2, <2>3, <3>1
    <3>3. target[j] \in ToSet(disk.log) \/ pending[j].batch = target[j]
      BY <1>1, <3>2 DEF TargetIsSafe
    <3> QED BY <1>3, <3>3
  <2> QED BY <2>1, <2>3 DEF TargetIsSafe
<1>5. TargetIsSafe(i)'
  BY DEF StepOf, TargetIsSafe
<1> QED BY <1>4, <1>5

LEMMA ViewsStep ==
  ASSUME JournalInv, NEW i \in Instance, StepOf(i)
  PROVE  ViewsAreFresh'
<1>1. ASSUME NEW j \in Instance \ {i}, owner'[j] # "closed", j \notin stale'
      PROVE  view'[j] = [file' EXCEPT !.torn = FALSE]
  <2>1. owner[j] # "closed" /\ j \notin stale /\ file' = file /\ view'[j] = view[j]
    BY <1>1 DEF StepOf, OthersKept
  <2>2. view[j] = [file EXCEPT !.torn = FALSE]
    BY <2>1 DEF JournalInv, ViewsAreFresh, Open, Healed
  <2> QED BY <2>1, <2>2
<1>2. ASSUME owner'[i] # "closed", i \notin stale'
      PROVE  view'[i] = [file' EXCEPT !.torn = FALSE]
  BY <1>2 DEF StepOf
<1> QED BY <1>1, <1>2 DEF ViewsAreFresh, Open, Healed

LEMMA StepLemma ==
  ASSUME JournalInv, TypeOK', NEW i \in Instance, StepOf(i)
  PROVE  /\ JournalInv' /\ IsPrefix(disk.log, disk'.log)
         /\ acked \subseteq acked' /\ passed \subseteq passed'
<1>1. HistoryKept
  BY DEF StepOf, SameLog, LongerLog
<1>2. LogsAgree' /\ BasedOnLatest' /\ IsPrefix(disk.log, disk'.log)
  BY SameLogStep, LongerLogStep DEF StepOf
<1>3. acked \subseteq acked' /\ passed \subseteq passed'
  BY <1>1 DEF HistoryKept
<1> QED BY <1>1, <1>3, <1>2, OwnedStep, UncertainStep, TargetStep, ViewsStep DEF JournalInv

-----------------------------------------------------------------------------
(* The ways an operation ends: the file was read, a batch was written, or  *)
(* the write failed.                                                       *)

LEMMA ReadLemma ==
  ASSUME JournalInv, NEW i \in Instance, NEW kept \in {disk, Healed}, JustRead(i, Healed, kept)
  PROVE  /\ file' \in File /\ disk' \in File /\ file' = Healed
         /\ file'.log = file.log /\ file'.last = file.last /\ file'.count = file.count
         /\ DiskFollows /\ (kept = Healed => disk' = file')
         /\ view' \in [Instance -> File] /\ view'[i] = [file' EXCEPT !.torn = FALSE]
         /\ \A j \in Instance : ~view'[j].torn
         /\ \A j \in Instance \ {i} : /\ view'[j] = view[j]
                                      /\ j \notin stale' => file' = file /\ j \notin stale
         /\ stale' \subseteq Instance
         /\ count' \in Counts /\ passed' = passed
<1>1. TypeOK
  BY DEF JournalInv
<1>2. /\ file' = Healed /\ disk' = kept /\ view' = [view EXCEPT ![i] = Healed]
      /\ stale' = (IF file' = file THEN stale ELSE Instance) \ {i} /\ count' = count
      /\ passed' = passed
  BY DEF JustRead
<1>3. /\ Healed \in File /\ Healed.log = file.log /\ Healed.count = file.count
      /\ Healed.last = file.last /\ ~Healed.torn
  BY <1>1, FileLemma
<1>4. [Healed EXCEPT !.torn = FALSE] = Healed
  BY <1>1 DEF Healed, TypeOK, File
<1>5. disk \in File /\ view \in [Instance -> File] /\ \A j \in Instance : ~view[j].torn
  BY <1>1 DEF TypeOK
<1>6. DiskFollows
  BY <1>2, <1>3 DEF DiskFollows
<1>7. stale \subseteq Instance /\ count \in Counts
  BY <1>1 DEF TypeOK
<1> HIDE DEF Healed
<1> QED BY <1>2, <1>3, <1>4, <1>5, <1>6, <1>7

LEMMA DoneLemma ==
  ASSUME JournalInv, NEW i \in Instance, NEW b \in Batch, WriteDone(i, b, Healed)
  PROVE  /\ file' \in File /\ disk' \in File /\ disk' = file'
         /\ file'.log = Append(file.log, b) /\ file'.last = b /\ file'.count = file.count + 1
         /\ DiskFollows
         /\ view' \in [Instance -> File] /\ view'[i] = [file' EXCEPT !.torn = FALSE]
         /\ \A j \in Instance : ~view'[j].torn
         /\ \A j \in Instance \ {i} : view'[j] = view[j] /\ j \in stale'
         /\ stale' \subseteq Instance
         /\ pending' = [pending EXCEPT ![i] = Settled]
         /\ count' \in Counts /\ passed' = passed
<1> DEFINE new == With(Healed, b)
<1>1. TypeOK
  BY DEF JournalInv
<1>2. /\ file' = new /\ disk' = file' /\ view' = [view EXCEPT ![i] = file']
      /\ stale' = Instance \ {i} /\ pending' = [pending EXCEPT ![i] = Settled] /\ count' = count
      /\ passed' = passed
  BY DEF WriteDone
<1>3. /\ new \in File /\ new.log = Append(file.log, b) /\ new.count = file.count + 1
      /\ new.last = b /\ ~new.torn
  BY <1>1, FileLemma
<1> HIDE DEF new
<1>4. [new EXCEPT !.torn = FALSE] = new
  BY <1>3 DEF File
<1>5. view \in [Instance -> File] /\ \A j \in Instance : ~view[j].torn
  BY <1>1 DEF TypeOK
<1>6. count \in Counts
  BY <1>1 DEF TypeOK
<1> QED BY <1>2, <1>3, <1>4, <1>5, <1>6 DEF DiskFollows

LEMMA FailsLemma ==
  ASSUME JournalInv, NEW i \in Instance, NEW b \in Batch, NEW kept \in {disk, Healed},
         WriteFails(i, b, Healed, kept)
  PROVE  /\ file' \in File /\ disk' \in File
         /\ \/ file'.log = file.log /\ file'.last = file.last /\ file'.count = file.count
            \/ file'.log = Append(file.log, b) /\ file'.last = b /\ file'.count = file.count + 1
         /\ DiskFollows
         /\ view' \in [Instance -> File]
         /\ i \in stale' \/ view'[i] = [file' EXCEPT !.torn = FALSE]
         /\ \A j \in Instance : ~view'[j].torn
         /\ \A j \in Instance \ {i} : /\ view'[j] = view[j]
                                      /\ j \notin stale' => file' = file /\ j \notin stale
         /\ stale' \subseteq Instance
         /\ pending' = [pending EXCEPT ![i] = [batch |-> b, seq |-> file.count + 1]]
         /\ count' \in Counts /\ passed' = passed
<1> DEFINE torn == Torn(Healed)
           new == With(Healed, b)
<1>1. TypeOK
  BY DEF JournalInv
<1>2. /\ CanFail(i) /\ Fault /\ file' \in {Healed, torn, new} /\ disk' = kept
      /\ view' = [view EXCEPT ![i] = Healed]
      /\ stale' = IF file' = file THEN stale \ {i}
                  ELSE IF file' = Healed THEN Instance \ {i} ELSE Instance
      /\ pending' = [pending EXCEPT ![i] = [batch |-> b, seq |-> Healed.count + 1]]
      /\ passed' = passed
  BY DEF WriteFails
<1>3. /\ Healed \in File /\ Healed.log = file.log /\ Healed.count = file.count
      /\ Healed.last = file.last /\ ~Healed.torn
      /\ torn \in File /\ torn.log = file.log /\ torn.count = file.count /\ torn.last = file.last
      /\ new \in File /\ new.log = Append(file.log, b) /\ new.count = file.count + 1
      /\ new.last = b /\ ~new.torn
  BY <1>1, FileLemma
<1>4. /\ [Healed EXCEPT !.torn = FALSE] = Healed
      /\ file' = file => [file' EXCEPT !.torn = FALSE] = Healed
  BY <1>1 DEF Healed, TypeOK, File
<1>5. /\ disk \in File /\ view \in [Instance -> File] /\ \A j \in Instance : ~view[j].torn
      /\ stale \subseteq Instance
  BY <1>1 DEF TypeOK
<1>6. count' \in Counts
  BY <1>1, <1>2, CountLemma
<1> HIDE DEF torn, new, Healed
<1>7. DiskFollows
  BY <1>2, <1>3 DEF DiskFollows
<1>8. /\ \/ file'.log = file.log /\ file'.last = file.last /\ file'.count = file.count
         \/ file'.log = Append(file.log, b) /\ file'.last = b /\ file'.count = file.count + 1
      /\ file' \in File /\ disk' \in File
  BY <1>2, <1>3, <1>5
<1>9. /\ view' \in [Instance -> File] /\ \A j \in Instance : ~view'[j].torn
      /\ \A j \in Instance \ {i} : view'[j] = view[j]
      /\ view'[i] = Healed
  BY <1>2, <1>3, <1>5
<1>10. i \in stale' \/ view'[i] = [file' EXCEPT !.torn = FALSE]
  BY <1>2, <1>4, <1>9
<1>11. /\ stale' \subseteq Instance
       /\ \A j \in Instance \ {i} : j \notin stale' => file' = file /\ j \notin stale
  BY <1>2, <1>5
<1> QED BY <1>2, <1>3, <1>6, <1>7, <1>8, <1>9, <1>10, <1>11

\* Types hold where the rest of the state was left alone.
Kind == {"closed", "idle", "start", "ready", "waiting"}
LEMMA TypeStep ==
  ASSUME TypeOK, NEW i \in Instance,
         file' \in File, disk' \in File, view' \in [Instance -> File],
         \A j \in Instance : ~view'[j].torn, stale' \subseteq Instance,
         pending' \in [Instance -> [batch : Batch \cup {NoBatch}, seq : Nat]],
         owner' \in [Instance -> Kind], target' \in [Instance -> Batch \cup {NoBatch, Compact}],
         \A j \in Instance \ {i} :
           owner'[j] = owner[j] /\ target'[j] = target[j] /\ pending'[j] = pending[j],
         owner'[i] = "closed" => pending'[i] = Settled,
         owner'[i] \in {"closed", "idle"} <=> target'[i] = NoBatch,
         used' \subseteq Batch, acked' \subseteq used', passed' \subseteq used',
         prior' \in [Batch -> Seq(Batch)],
         count' \in Counts
  PROVE  TypeOK'
BY DEF TypeOK, Kind

LEMMA LoopLemma ==
  ASSUME TypeOK, NEW i \in Instance
  PROVE  /\ \A step \in {"start", "ready", "waiting"} : Go(i, step) =>
              /\ owner' \in [Instance -> Kind] /\ owner'[i] = step
              /\ target' = target /\ used' = used
              /\ target \in [Instance -> Batch \cup {NoBatch, Compact}]
              /\ \A j \in Instance \ {i} : owner'[j] = owner[j]
         /\ Finish(i) =>
              /\ owner' \in [Instance -> Kind] /\ owner'[i] = "idle"
              /\ target' \in [Instance -> Batch \cup {NoBatch, Compact}]
              /\ target'[i] = NoBatch /\ used' = used
              /\ \A j \in Instance \ {i} : owner'[j] = owner[j] /\ target'[j] = target[j]
         /\ owner[i] \in {"start", "ready", "waiting"} => target[i] \in Batch \cup {Compact}
BY DEF TypeOK, Go, Finish, Kind

-----------------------------------------------------------------------------
(* Each action.                                                            *)

Advances == /\ JournalInv' /\ IsPrefix(disk.log, disk'.log)
            /\ acked \subseteq acked' /\ passed \subseteq passed'

\* Steps of the write loop that touch neither the file nor what is uncertain.
LEMMA FrameStep ==
  ASSUME JournalInv, NEW i \in Instance,
         UNCHANGED <<file, disk, mem, prior, acked>>,
         count' \in Counts,
         owner' \in [Instance -> Kind], target' \in [Instance -> Batch \cup {NoBatch, Compact}],
         \A j \in Instance \ {i} : owner'[j] = owner[j] /\ target'[j] = target[j],
         Open(i), owner'[i] # "closed", owner'[i] = "idle" <=> target'[i] = NoBatch,
         used \subseteq used', used' \subseteq Batch,
         target'[i] \in {target[i], NoBatch, Compact} \cup (used' \ used)
  PROVE  Advances
<1>1. TypeOK /\ LogsAgree /\ OneOwner /\ ViewsAreFresh /\ TargetIsSafe(i) /\ Uncertain(i)
  BY DEF JournalInv
<1>2. TypeOK'
  BY <1>1 DEF TypeOK, Kind, Open, mem
<1>3. SameLog /\ file'.count = file.count
  BY <1>1, LogTypes, PrefixFacts DEF SameLog, DiskFollows, HistoryKept, LogsAgree, mem
<1>4. OthersKept(i) /\ CountTells
  BY <1>3 DEF OthersKept, CountTells, mem
<1>5. {target'[i], pending'[i].batch} \cap Batch \subseteq Own(i)
  BY NamesLemma DEF Own, Hands, mem
<1>6. owner'[i] = "closed" \/ i \in stale' \/ view'[i] = [file' EXCEPT !.torn = FALSE]
  BY <1>1 DEF ViewsAreFresh, Healed, mem
<1>7. \/ target'[i] \notin ToSet(file'.log) \/ target'[i] \in ToSet(disk'.log)
      \/ target'[i] = pending'[i].batch
  BY <1>1, LogTypes, NamesLemma DEF TargetIsSafe, LogsAgree, mem
<1>8. pending'[i] = pending[i] /\ prior' = prior /\ acked' = acked
  BY DEF mem
<1>9. StepOf(i)
  BY <1>3, <1>4, <1>5, <1>6, <1>7, <1>8 DEF StepOf
<1> QED BY <1>2, <1>8, <1>9, StepLemma DEF Advances

LEMMA BeginStep == ASSUME JournalInv, NEW i \in Instance, Begin(i) PROVE Advances
<1>1. TypeOK
  BY DEF JournalInv
<1>2. PICK t \in (Batch \ used) \cup {c \in {Compact} : count.compactions < MaxCompactions} :
        /\ target' = [target EXCEPT ![i] = t] /\ used' = used \cup ({t} \cap Batch)
        /\ count' = IF t = Compact THEN [count EXCEPT !.compactions = @ + 1] ELSE count
  BY DEF Begin
<1>3. owner[i] = "idle" /\ owner' = [owner EXCEPT ![i] = "start"]
      /\ UNCHANGED <<file, disk, mem, prior, acked>>
  BY DEF Begin
<1>4. t \in Batch \cup {Compact} /\ t \in {Compact} \cup (used' \ used)
  BY <1>2, NamesLemma
<1>5. target' \in [Instance -> Batch \cup {NoBatch, Compact}] /\ target'[i] = t
      /\ \A j \in Instance \ {i} : target'[j] = target[j]
  BY <1>1, <1>2, <1>4 DEF TypeOK
<1>6. owner' \in [Instance -> Kind] /\ owner'[i] = "start"
      /\ \A j \in Instance \ {i} : owner'[j] = owner[j]
  BY <1>1, <1>3 DEF TypeOK, Kind
<1>7. used \subseteq used' /\ used' \subseteq Batch /\ t # NoBatch
  BY <1>1, <1>2, <1>4, NamesLemma DEF TypeOK
<1>8. count' \in Counts
  <2>1. count \in Counts /\ MaxCompactions \in Nat
    BY <1>1, SessionJournalAssumption DEF TypeOK
  <2>2. t = Compact => count.compactions < MaxCompactions
    BY NamesLemma
  <2>3. CASE t = Compact
    BY <1>2, <2>1, <2>2, <2>3 DEF Counts
  <2> QED BY <1>2, <2>1, <2>3
<1>9. Open(i)
  BY <1>3 DEF Open
<1> QED BY <1>3, <1>4, <1>5, <1>6, <1>7, <1>8, <1>9, FrameStep

LEMMA GoStep ==
  ASSUME JournalInv, NEW i \in Instance, NEW step \in {"start", "ready", "waiting"},
         owner[i] \in {"start", "ready", "waiting"}, Go(i, step) \/ Finish(i),
         UNCHANGED <<file, disk, mem, prior, acked>>,
         count' \in Counts
  PROVE  Advances
<1>1. TypeOK /\ OneOwner
  BY DEF JournalInv
<1>2. used \subseteq Batch /\ Open(i) /\ target[i] \in Batch \cup {Compact}
  BY <1>1, LoopLemma DEF TypeOK, Open
<1>3. owner' \in [Instance -> Kind] /\ target' \in [Instance -> Batch \cup {NoBatch, Compact}]
      /\ used' = used /\ \A j \in Instance \ {i} : owner'[j] = owner[j] /\ target'[j] = target[j]
  BY <1>1, LoopLemma
<1>4. /\ owner'[i] # "closed" /\ (owner'[i] = "idle" <=> target'[i] = NoBatch)
      /\ target'[i] \in {target[i], NoBatch}
  BY <1>1, <1>2, LoopLemma, NamesLemma
<1> QED BY <1>2, <1>3, <1>4, FrameStep

\* Moving on, giving up, being refused, or failing before anything is written.
LEMMA LoopStep ==
  ASSUME JournalInv, NEW i \in Instance,
         \/ RetryNothing(i) \/ RetryFails(i) \/ Refused(i) \/ NewInput(i) \/ GiveUp(i)
         \/ CompactFile(i) /\ CanFail(i) /\ Fault /\ Go(i, "waiting")
            /\ UNCHANGED <<file, disk, view, stale, passed>>
  PROVE  Advances
<1>1. TypeOK
  BY DEF JournalInv
<1>2. count \in Counts
  BY <1>1 DEF TypeOK
<1>3. CASE RetryNothing(i) \/ Refused(i) \/ NewInput(i) \/ GiveUp(i)
  <2>1. /\ owner[i] \in {"start", "ready", "waiting"} /\ count' = count
        /\ UNCHANGED <<file, disk, mem, prior, acked>>
        /\ \E step \in {"start", "ready", "waiting"} : Go(i, step) \/ Finish(i)
    BY <1>3 DEF RetryNothing, Refused, NewInput, GiveUp
  <2> QED BY <1>2, <2>1, GoStep
<1>4. CASE RetryFails(i)
  <2>1. /\ owner[i] = "start" /\ CanFail(i) /\ Fault /\ Go(i, "waiting")
        /\ UNCHANGED <<file, disk, mem, prior, acked>>
    BY <1>4 DEF RetryFails
  <2> QED BY <1>1, <2>1, CountLemma, GoStep
<1>5. CASE CompactFile(i) /\ CanFail(i) /\ Fault /\ Go(i, "waiting")
           /\ UNCHANGED <<file, disk, view, stale, passed>>
  <2>1. owner[i] = "ready" /\ UNCHANGED <<file, disk, mem, prior, acked>>
    BY <1>5 DEF CompactFile, mem
  <2> QED BY <1>1, <1>5, <2>1, CountLemma, GoStep
<1> QED BY <1>3, <1>4, <1>5

\* Reading the file again, with what the instance had in hand settled, kept
\* or found to be saved.
LEMMA ReadStep ==
  ASSUME JournalInv, NEW i \in Instance, NEW kept \in {disk, Healed}, JustRead(i, Healed, kept),
         pending' \in [Instance -> [batch : Batch \cup {NoBatch}, seq : Nat]],
         owner' \in [Instance -> Kind], target' \in [Instance -> Batch \cup {NoBatch, Compact}],
         \A j \in Instance \ {i} :
           owner'[j] = owner[j] /\ target'[j] = target[j] /\ pending'[j] = pending[j],
         owner'[i] # "closed", owner'[i] = "idle" <=> target'[i] = NoBatch,
         used' = used, prior' = prior,
         target'[i] \in {target[i], NoBatch}, pending'[i] \in {pending[i], Settled},
         pending'[i] = pending[i] \/ kept = Healed,
         acked' = acked \/ (/\ pending[i] = Settled /\ target[i] \in ToSet(file.log)
                            /\ acked' = acked \cup {target[i]})
  PROVE  Advances
<1>1. TypeOK /\ LogsAgree /\ OneOwner /\ TargetIsSafe(i)
  BY DEF JournalInv
<1>2. /\ file' \in File /\ disk' \in File /\ file' = Healed
      /\ file'.log = file.log /\ file'.last = file.last /\ file'.count = file.count
      /\ DiskFollows /\ (kept = Healed => disk' = file')
      /\ view' \in [Instance -> File] /\ view'[i] = [file' EXCEPT !.torn = FALSE]
      /\ \A j \in Instance : ~view'[j].torn
      /\ \A j \in Instance \ {i} : /\ view'[j] = view[j]
                                   /\ j \notin stale' => file' = file /\ j \notin stale
      /\ stale' \subseteq Instance
      /\ count' \in Counts /\ passed' = passed
  BY ReadLemma
<1>3. ToSet(disk.log) \subseteq ToSet(file.log) /\ ToSet(file.log) \subseteq Batch
  BY <1>1, LogTypes, PrefixFacts DEF LogsAgree
<1>4. ToSet(disk.log) \subseteq ToSet(disk'.log)
  BY <1>2, <1>3 DEF DiskFollows
<1>5. target[i] \in ToSet(file.log) =>
        target[i] \in ToSet(disk.log) \/ pending[i].batch = target[i]
  BY <1>1 DEF TargetIsSafe
<1>6. acked \subseteq acked' /\ acked' \subseteq ToSet(disk'.log)
  BY <1>1, <1>3, <1>4, <1>5, NamesLemma DEF LogsAgree
<1>7. SameLog /\ file'.count = file.count
  BY <1>2, <1>6 DEF SameLog, HistoryKept
<1>8. TypeOK'
  <2>1. /\ used' \subseteq Batch /\ acked' \subseteq used' /\ prior' \in [Batch -> Seq(Batch)]
        /\ passed' \subseteq used'
    BY <1>1, <1>2, <1>6 DEF TypeOK, LogsAgree
  <2> QED BY <1>1, <1>2, <2>1, TypeStep
<1>9. StepOf(i)
  <2>1. OthersKept(i) /\ CountTells
    BY <1>2, <1>7 DEF OthersKept, CountTells
  <2>2. {target'[i], pending'[i].batch} \cap Batch \subseteq Own(i)
    BY NamesLemma DEF Own, Hands
  <2>3. \/ target'[i] \notin ToSet(file'.log) \/ target'[i] \in ToSet(disk'.log)
        \/ target'[i] = pending'[i].batch
    BY <1>2, <1>3, <1>4, <1>5, NamesLemma
  <2> QED BY <1>2, <1>7, <2>1, <2>2, <2>3 DEF StepOf
<1> QED BY <1>6, <1>8, <1>9, StepLemma DEF Advances

LEMMA ReadingStep ==
  ASSUME JournalInv, NEW i \in Instance,
         RetryFound(i) \/ RetryConflict(i) \/ SaveKnown(i) \/ Load(i)
  PROVE  Advances
<1>1. TypeOK
  BY DEF JournalInv
<1>2. /\ pending \in [Instance -> [batch : Batch \cup {NoBatch}, seq : Nat]]
      /\ owner \in [Instance -> Kind]
      /\ target \in [Instance -> Batch \cup {NoBatch, Compact}]
  BY <1>1 DEF TypeOK, Kind
<1>3. CASE RetryFound(i)
  <2>1. /\ owner[i] = "start" /\ JustRead(i, Healed, Healed) /\ Go(i, "ready")
        /\ pending' = [pending EXCEPT ![i] = Settled] /\ prior' = prior /\ acked' = acked
    BY <1>3 DEF RetryFound
  <2>2. pending' \in [Instance -> [batch : Batch \cup {NoBatch}, seq : Nat]]
        /\ pending'[i] = Settled /\ \A j \in Instance \ {i} : pending'[j] = pending[j]
    BY <1>2, <2>1, NamesLemma
  <2>3. target[i] # NoBatch
    BY <1>1, <2>1, LoopLemma, NamesLemma
  <2> QED BY <1>1, <1>2, <2>1, <2>2, <2>3, LoopLemma, ReadStep
<1>4. CASE RetryConflict(i)
  <2>1. /\ owner[i] = "start" /\ JustRead(i, Healed, Healed) /\ Go(i, "waiting")
        /\ pending' = pending /\ prior' = prior /\ acked' = acked
    BY <1>4 DEF RetryConflict
  <2>2. target[i] # NoBatch
    BY <1>1, <2>1, LoopLemma, NamesLemma
  <2> QED BY <1>1, <1>2, <2>1, <2>2, LoopLemma, ReadStep
<1>5. CASE SaveKnown(i)
  <2>1. /\ owner[i] = "ready" /\ pending[i] = Settled /\ target[i] \in ToSet(Fresh(i).log)
        /\ JustRead(i, Fresh(i), Kept(i)) /\ Finish(i)
        /\ acked' = acked \cup {target[i]} /\ pending' = pending /\ prior' = prior
    BY <1>5 DEF SaveKnown
  <2>2. Fresh(i) = Healed /\ Kept(i) \in {disk, Healed}
    BY <2>1, FreshLemma DEF Open
  <2>3. JustRead(i, Healed, Kept(i)) /\ target[i] \in ToSet(file.log)
    BY <1>1, <2>1, <2>2, FileLemma
  <2> QED BY <1>1, <1>2, <2>1, <2>2, <2>3, LoopLemma, ReadStep
<1>6. CASE Load(i)
  <2> DEFINE kept == IF file.torn THEN Healed ELSE disk
  <2>1. /\ owner[i] = "closed" /\ JustRead(i, Healed, kept)
        /\ owner' = [owner EXCEPT ![i] = "idle"] /\ pending' = pending /\ target' = target
        /\ used' = used /\ prior' = prior /\ acked' = acked
    BY <1>6 DEF Load
  <2>2. target[i] = NoBatch /\ pending[i] = Settled
    BY <1>1, <2>1 DEF TypeOK
  <2>3. owner' \in [Instance -> Kind] /\ owner'[i] = "idle"
        /\ \A j \in Instance \ {i} : owner'[j] = owner[j]
    BY <1>2, <2>1 DEF Kind
  <2>4. kept \in {disk, Healed}
    OBVIOUS
  <2> HIDE DEF kept
  <2> QED BY <1>2, <2>1, <2>2, <2>3, <2>4, ReadStep
<1> QED BY <1>3, <1>4, <1>5, <1>6

\* Writing a batch the instance has in hand, or takes, behind the log.
Written(i, b) ==
  /\ b \in Own(i) /\ b \in Batch
  /\ b \in passed \/ (b \notin ToSet(file.log) /\ prior'[b] = file.log)
  /\ prior' \in [Batch -> Seq(Batch)] /\ \A c \in ToSet(file.log) : prior'[c] = prior[c]
  /\ \A c \in Batch \ {b} : prior'[c] = prior[c]
  /\ used \subseteq used' /\ used' \subseteq Batch
  /\ owner' \in [Instance -> Kind] /\ target' \in [Instance -> Batch \cup {NoBatch, Compact}]
  /\ \A j \in Instance \ {i} : owner'[j] = owner[j] /\ target'[j] = target[j]
  /\ owner'[i] # "closed" /\ (owner'[i] = "idle" <=> target'[i] = NoBatch)

LEMMA DoneStep ==
  ASSUME JournalInv, NEW i \in Instance, NEW b, Written(i, b), WriteDone(i, b, Healed),
         target'[i] \in {target[i], NoBatch},
         acked' = acked \/ acked' = acked \cup {b}
  PROVE  Advances
<1>1. TypeOK /\ LogsAgree /\ OneOwner /\ b \in Batch
  BY DEF JournalInv, Written
<1>2. /\ file' \in File /\ disk' \in File /\ disk' = file'
      /\ file'.log = Append(file.log, b) /\ file'.last = b /\ file'.count = file.count + 1
      /\ DiskFollows
      /\ view' \in [Instance -> File] /\ view'[i] = [file' EXCEPT !.torn = FALSE]
      /\ \A j \in Instance : ~view'[j].torn
      /\ \A j \in Instance \ {i} : view'[j] = view[j] /\ j \in stale'
      /\ stale' \subseteq Instance
      /\ pending' = [pending EXCEPT ![i] = Settled]
      /\ count' \in Counts /\ passed' = passed
  BY <1>1, DoneLemma
<1>3. /\ pending' \in [Instance -> [batch : Batch \cup {NoBatch}, seq : Nat]]
      /\ pending'[i] = Settled /\ \A j \in Instance \ {i} : pending'[j] = pending[j]
  BY <1>1, <1>2, NamesLemma DEF TypeOK
<1>4. /\ ToSet(file.log) \subseteq Batch /\ ToSet(disk.log) \subseteq ToSet(file.log)
      /\ ToSet(Append(file.log, b)) = ToSet(file.log) \cup {b}
  BY <1>1, LogTypes, PrefixFacts, GrowLemma DEF LogsAgree, Written
<1>5. acked \subseteq acked' /\ acked' \subseteq ToSet(disk'.log)
  BY <1>1, <1>2, <1>4 DEF LogsAgree
<1>6. b \in used'
  BY <1>1 DEF Written, Own, OneOwner
<1>7. LongerLog(b)
  BY <1>1, <1>2, <1>4, <1>5, <1>6 DEF LongerLog, HistoryKept, Written
<1>8. TypeOK'
  <2>1. acked' \subseteq used' /\ passed' \subseteq used'
    BY <1>1, <1>2, <1>6 DEF TypeOK, Written
  <2> QED BY <1>1, <1>2, <1>3, <2>1, TypeStep DEF Written
<1>9. StepOf(i)
  <2>1. OthersKept(i) /\ CountTells
    BY <1>2, <1>3 DEF OthersKept, CountTells, Written
  <2>2. {target'[i], pending'[i].batch} \cap Batch \subseteq Own(i)
    BY <1>3, NamesLemma DEF Own, Hands
  <2>4. \A c \in used \ Hands(i) : prior'[c] = prior[c]
    BY <1>1 DEF Written, Own, TypeOK
  <2>5. b \in Own(i)
    BY DEF Written
  <2> QED BY <1>2, <1>3, <1>7, <2>1, <2>2, <2>4, <2>5 DEF StepOf
<1> QED BY <1>5, <1>8, <1>9, StepLemma DEF Advances

LEMMA FailStep ==
  ASSUME JournalInv, NEW i \in Instance, NEW b, NEW kept \in {disk, Healed}, Written(i, b),
         WriteFails(i, b, Healed, kept), target' = target, acked' = acked,
         pending[i] = Settled \/ pending[i].batch = b
  PROVE  Advances
<1>1. TypeOK /\ LogsAgree /\ OneOwner /\ b \in Batch /\ TargetIsSafe(i)
  BY DEF JournalInv, Written
<1> DEFINE held == [batch |-> b, seq |-> file.count + 1]
<1>2. /\ file' \in File /\ disk' \in File
      /\ \/ file'.log = file.log /\ file'.last = file.last /\ file'.count = file.count
         \/ file'.log = Append(file.log, b) /\ file'.last = b /\ file'.count = file.count + 1
      /\ DiskFollows
      /\ view' \in [Instance -> File]
      /\ i \in stale' \/ view'[i] = [file' EXCEPT !.torn = FALSE]
      /\ \A j \in Instance : ~view'[j].torn
      /\ \A j \in Instance \ {i} : /\ view'[j] = view[j]
                                   /\ j \notin stale' => file' = file /\ j \notin stale
      /\ stale' \subseteq Instance
      /\ pending' = [pending EXCEPT ![i] = held]
      /\ count' \in Counts /\ passed' = passed
  BY <1>1, FailsLemma
<1>3. /\ held \in [batch : Batch \cup {NoBatch}, seq : Nat] /\ held # Settled
      /\ held.batch = b /\ held.seq = file.count + 1
  BY <1>1, LogTypes, NamesLemma
<1> HIDE DEF held
<1>4. /\ pending' \in [Instance -> [batch : Batch \cup {NoBatch}, seq : Nat]]
      /\ pending'[i] = held /\ \A j \in Instance \ {i} : pending'[j] = pending[j]
  BY <1>1, <1>2, <1>3 DEF TypeOK
<1>5. /\ ToSet(file.log) \subseteq Batch /\ ToSet(disk.log) \subseteq ToSet(file.log)
      /\ ToSet(Append(file.log, b)) = ToSet(file.log) \cup {b}
  BY <1>1, LogTypes, PrefixFacts, GrowLemma DEF LogsAgree, Written
<1>6. ToSet(disk.log) \subseteq ToSet(disk'.log)
  BY <1>2, <1>5 DEF DiskFollows
<1>7. acked \subseteq acked' /\ acked' \subseteq ToSet(disk'.log)
  BY <1>1, <1>6 DEF LogsAgree
<1>8. b \in used'
  BY <1>1 DEF Written, Own, OneOwner
<1>9. HistoryKept
  BY <1>1, <1>2, <1>5, <1>7 DEF HistoryKept, Written
<1>10. (SameLog /\ file'.count = file.count) \/ (LongerLog(b) /\ file'.count = file.count + 1)
  BY <1>1, <1>2, <1>8, <1>9 DEF SameLog, LongerLog, Written
<1>11. TypeOK'
  <2>1. acked' \subseteq used' /\ passed' \subseteq used'
    BY <1>1, <1>2 DEF TypeOK, Written
  <2> QED BY <1>1, <1>2, <1>4, <2>1, TypeStep DEF Written
<1>12. StepOf(i)
  <2>1. OthersKept(i) /\ CountTells
    BY <1>2, <1>4, <1>10 DEF OthersKept, CountTells, Written
  <2>2. {target'[i], pending'[i].batch} \cap Batch \subseteq Own(i)
    BY <1>3, <1>4 DEF Own, Hands, Written
  <2>4. \A c \in used \ Hands(i) : prior'[c] = prior[c]
    BY <1>1 DEF Written, Own, TypeOK
  <2>5. /\ b \in Own(i) /\ b \in Batch
        /\ b \in passed \/ (b \notin ToSet(file.log) /\ prior'[b] = file.log)
    BY DEF Written
  <2>6. \/ target'[i] \notin ToSet(file'.log) \/ target'[i] \in ToSet(disk'.log)
        \/ target'[i] = pending'[i].batch
    BY <1>1, <1>2, <1>3, <1>4, <1>5, <1>6, NamesLemma DEF TargetIsSafe
  <2>7. /\ pending'[i].batch \in Batch /\ pending'[i].seq = file.count + 1
        /\ \/ pending'[i].batch \in passed
           \/ pending'[i].batch \notin ToSet(file.log) /\ prior'[pending'[i].batch] = file.log
    BY <1>3, <1>4, <2>5
  <2>8. /\ SameLog \/ \E c \in Own(i) : LongerLog(c)
        /\ (SameLog /\ file'.count = file.count) \/ file'.count = file.count + 1
    BY <1>10, <2>5, Zenon
  <2>9. owner'[i] = "closed" \/ i \in stale' \/ view'[i] = [file' EXCEPT !.torn = FALSE]
    BY <1>2
  <2> QED BY <2>1, <2>2, <2>4, <2>6, <2>7, <2>8, <2>9 DEF StepOf
<1> QED BY <1>7, <1>11, <1>12, StepLemma DEF Advances

LEMMA RetryWriteStep == ASSUME JournalInv, NEW i \in Instance, RetryWrite(i) PROVE Advances
<1> DEFINE b == pending[i].batch
<1>1. TypeOK /\ OneOwner /\ Uncertain(i)
  BY DEF JournalInv
<1>2. /\ owner[i] = "start" /\ pending[i] # Settled /\ pending[i].seq = Healed.count + 1
      /\ \/ WriteDone(i, b, Healed) /\ Go(i, "ready")
         \/ WriteFails(i, b, Healed, Healed) /\ Go(i, "waiting")
      /\ prior' = prior /\ acked' = acked
  BY DEF RetryWrite
<1>3. b \in Batch /\ (b \in passed \/ (b \notin ToSet(file.log) /\ prior[b] = file.log))
  BY <1>1, <1>2, FileLemma DEF Uncertain, InPlace
<1>4. target[i] # NoBatch /\ prior \in [Batch -> Seq(Batch)] /\ used \subseteq Batch
  BY <1>1, <1>2, LoopLemma, NamesLemma DEF TypeOK
<1>5. /\ target' = target /\ used' = used /\ owner' \in [Instance -> Kind]
      /\ target \in [Instance -> Batch \cup {NoBatch, Compact}]
      /\ owner'[i] \in {"ready", "waiting"}
      /\ \A j \in Instance \ {i} : owner'[j] = owner[j]
  BY <1>1, <1>2, LoopLemma
<1>6. b \in Own(i)
  BY <1>3 DEF Own, Hands
<1> HIDE DEF b
<1>7. Written(i, b)
  BY <1>2, <1>3, <1>4, <1>5, <1>6 DEF Written
<1>8. pending[i].batch = b
  BY DEF b
<1> QED BY <1>2, <1>5, <1>7, <1>8, DoneStep, FailStep

LEMMA SaveStep == ASSUME JournalInv, NEW i \in Instance, Save(i) PROVE Advances
<1> DEFINE b == target[i]
<1>1. TypeOK /\ OneOwner
  BY DEF JournalInv
<1>2. /\ owner[i] = "ready" /\ b \in Batch \ ToSet(Fresh(i).log) /\ pending[i] = Settled
      /\ prior' = [prior EXCEPT ![b] = Fresh(i).log]
      /\ \/ WriteDone(i, b, Fresh(i)) /\ acked' = acked \cup {b} /\ Finish(i)
         \/ WriteFails(i, b, Fresh(i), Kept(i)) /\ Go(i, "waiting") /\ acked' = acked
  BY DEF Save
<1>3. Fresh(i) = Healed /\ Kept(i) \in {disk, Healed} /\ Healed.log = file.log
  BY <1>1, <1>2, FreshLemma, FileLemma DEF Open
<1>4. /\ b \in Batch \ ToSet(file.log) /\ file.log \in Seq(Batch)
      /\ prior \in [Batch -> Seq(Batch)] /\ used \subseteq Batch
      /\ ToSet(file.log) \subseteq Batch
  BY <1>1, <1>2, <1>3, LogTypes DEF TypeOK
<1>5. /\ prior' \in [Batch -> Seq(Batch)] /\ prior'[b] = file.log
      /\ \A c \in Batch \ {b} : prior'[c] = prior[c]
      /\ \A c \in ToSet(file.log) : prior'[c] = prior[c]
  BY <1>2, <1>3, <1>4
<1>6. b \in Own(i)
  BY <1>4 DEF Own, Hands
<1>7. b # NoBatch
  BY <1>4, NamesLemma
<1>8. CASE WriteDone(i, b, Fresh(i)) /\ acked' = acked \cup {b} /\ Finish(i)
  <2>1. /\ target' \in [Instance -> Batch \cup {NoBatch, Compact}] /\ target'[i] = NoBatch
        /\ used' = used /\ owner' \in [Instance -> Kind] /\ owner'[i] = "idle"
        /\ \A j \in Instance \ {i} : owner'[j] = owner[j] /\ target'[j] = target[j]
    BY <1>1, <1>8, LoopLemma
  <2>2. WriteDone(i, b, Healed)
    BY <1>3, <1>8
  <2> HIDE DEF b
  <2>3. Written(i, b)
    BY <1>4, <1>5, <1>6, <2>1 DEF Written
  <2> QED BY <1>8, <2>1, <2>2, <2>3, DoneStep
<1>9. CASE WriteFails(i, b, Fresh(i), Kept(i)) /\ Go(i, "waiting") /\ acked' = acked
  <2>1. /\ target \in [Instance -> Batch \cup {NoBatch, Compact}] /\ target' = target
        /\ used' = used /\ owner' \in [Instance -> Kind] /\ owner'[i] = "waiting"
        /\ \A j \in Instance \ {i} : owner'[j] = owner[j]
    BY <1>1, <1>9, LoopLemma
  <2>2. WriteFails(i, b, Healed, Kept(i))
    BY <1>3, <1>9
  <2>3. target'[i] # NoBatch
    BY <1>7, <2>1
  <2> HIDE DEF b
  <2>4. Written(i, b)
    BY <1>4, <1>5, <1>6, <2>1, <2>3 DEF Written
  <2> QED BY <1>2, <1>3, <1>9, <2>1, <2>2, <2>4, FailStep
<1> QED BY <1>2, <1>8, <1>9

LEMMA BackgroundStep == ASSUME JournalInv, NEW i \in Instance, Background(i) PROVE Advances
<1>1. TypeOK /\ LogsAgree
  BY DEF JournalInv
<1>2. PICK b \in Batch \ used :
        /\ used' = used \cup {b} /\ prior' = [prior EXCEPT ![b] = Fresh(i).log]
        /\ \/ WriteDone(i, b, Fresh(i)) /\ acked' = acked \cup {b}
           \/ WriteFails(i, b, Fresh(i), Kept(i)) /\ acked' = acked
  BY DEF Background
<1>3. owner[i] # "closed" /\ pending[i] = Settled /\ owner' = owner /\ target' = target
  BY DEF Background, Open
<1>4. Fresh(i) = Healed /\ Kept(i) \in {disk, Healed} /\ Healed.log = file.log
  BY <1>1, <1>3, FreshLemma, FileLemma DEF Open
<1>5. /\ b \in Batch \ ToSet(file.log) /\ file.log \in Seq(Batch)
      /\ prior \in [Batch -> Seq(Batch)] /\ used \subseteq Batch
      /\ ToSet(file.log) \subseteq Batch
  BY <1>1, <1>2, LogTypes DEF TypeOK, LogsAgree
<1>6. /\ prior' \in [Batch -> Seq(Batch)] /\ prior'[b] = file.log
      /\ \A c \in Batch \ {b} : prior'[c] = prior[c]
      /\ \A c \in ToSet(file.log) : prior'[c] = prior[c]
  BY <1>2, <1>4, <1>5
<1>7. b \in Own(i) /\ used \subseteq used' /\ used' \subseteq Batch
  BY <1>2, <1>5 DEF Own
<1>8. /\ owner' \in [Instance -> Kind] /\ target' \in [Instance -> Batch \cup {NoBatch, Compact}]
      /\ owner'[i] = "idle" <=> target'[i] = NoBatch
  BY <1>1, <1>3 DEF TypeOK, Kind
<1>9. Written(i, b)
  BY <1>3, <1>5, <1>6, <1>7, <1>8 DEF Written
<1> QED BY <1>2, <1>3, <1>4, <1>9, DoneStep, FailStep

\* Compaction sets the number of transactions back; what is uncertain then is
\* passed.
LEMMA CompactStep ==
  ASSUME JournalInv, NEW i \in Instance, CompactFile(i) PROVE Advances
<1>1. TypeOK /\ LogsAgree /\ OneOwner
  BY DEF JournalInv
<1>2. /\ owner[i] = "ready" /\ target[i] = Compact /\ pending[i] = Settled
      /\ pending' = pending /\ prior' = prior /\ acked' = acked
  BY DEF CompactFile
<1>3. Fresh(i) = Healed
  BY <1>2, FreshLemma DEF Open
<1> DEFINE whole == [Healed EXCEPT !.count = 1, !.last = Compact]
<1>4. /\ whole \in File /\ whole.log = file.log /\ whole.last = Compact
      /\ [whole EXCEPT !.torn = FALSE] = whole /\ ~whole.torn
  BY <1>1 DEF Healed, TypeOK, File
<1>5. CASE /\ file' = whole /\ disk' = file' /\ view' = [view EXCEPT ![i] = file']
           /\ stale' = Instance \ {i} /\ Finish(i) /\ count' = count
           /\ passed' = passed \cup {pending[j].batch : j \in {j \in Instance : pending[j] # Settled}}
  <2> HIDE DEF whole
  <2>0. /\ passed \subseteq passed' /\ passed' \subseteq used
        /\ \A j \in Instance : pending[j] = Settled \/ pending[j].batch \in passed'
    <3>1. \A j \in Instance : pending[j] # Settled => pending[j].batch \in used
      BY <1>1 DEF JournalInv, Uncertain, OneOwner, Hands
    <3> QED BY <1>1, <1>5, <3>1 DEF TypeOK
  <2>1. /\ target' \in [Instance -> Batch \cup {NoBatch, Compact}] /\ target'[i] = NoBatch
        /\ used' = used /\ owner' \in [Instance -> Kind] /\ owner'[i] = "idle"
        /\ \A j \in Instance \ {i} : owner'[j] = owner[j] /\ target'[j] = target[j]
    BY <1>1, <1>5, LoopLemma
  <2>2. /\ view' \in [Instance -> File] /\ \A j \in Instance : ~view'[j].torn
        /\ view'[i] = whole /\ \A j \in Instance \ {i} : view'[j] = view[j]
    BY <1>1, <1>4, <1>5 DEF TypeOK
  <2>3. TypeOK'
    <3>1. count' \in Counts
      BY <1>1, <1>5 DEF TypeOK
    <3>2. /\ pending' \in [Instance -> [batch : Batch \cup {NoBatch}, seq : Nat]]
          /\ used' \subseteq Batch /\ acked' \subseteq used' /\ prior' \in [Batch -> Seq(Batch)]
          /\ passed' \subseteq used'
      BY <1>1, <1>2, <2>0, <2>1 DEF TypeOK
    <3>3. stale' \subseteq Instance /\ file' \in File /\ disk' \in File
      BY <1>4, <1>5
    <3> QED BY <1>1, <1>2, <2>1, <2>2, <3>1, <3>2, <3>3, TypeStep
  <2>4. ToSet(disk.log) \subseteq ToSet(file.log)
    BY <1>1, LogTypes, PrefixFacts DEF LogsAgree
  <2>5. SameLog
    BY <1>1, <1>2, <1>4, <1>5, <2>0, <2>1, <2>4 DEF SameLog, DiskFollows, HistoryKept, LogsAgree
  <2>7. OthersKept(i) /\ CountTells
    BY <1>2, <1>5, <2>0, <2>1, <2>2 DEF OthersKept, CountTells
  <2>8. StepOf(i)
    BY <1>2, <1>4, <1>5, <2>1, <2>2, <2>5, <2>7, NamesLemma DEF StepOf
  <2> QED BY <1>2, <2>3, <2>8, StepLemma DEF Advances
<1>6. CASE CanFail(i) /\ Fault /\ Go(i, "waiting") /\ UNCHANGED <<file, disk, view, stale, passed>>
  BY <1>6, LoopStep
<1> QED BY <1>3, <1>5, <1>6 DEF CompactFile

\* An instance is gone, and with it what it remembered.
LEMMA GoneStep ==
  ASSUME JournalInv, NEW i \in Instance,
         owner' = [owner EXCEPT ![i] = "closed"], target' = [target EXCEPT ![i] = NoBatch],
         pending' = [pending EXCEPT ![i] = Settled], view' = [view EXCEPT ![i] = Empty],
         stale' = IF file' = file THEN stale ELSE Instance,
         file' \in File, disk' = disk, used' = used, acked' = acked, passed' = passed,
         prior' \in [Batch -> Seq(Batch)],
         \A c \in ToSet(file.log) \cup (used \ Hands(i)) : prior'[c] = prior[c],
         \/ file'.log = file.log /\ file'.last = file.last /\ file'.count = file.count
         \/ \E b \in Hands(i) :
              /\ file'.log = Append(file.log, b) /\ file'.last = b
              /\ file'.count = file.count + 1 /\ (b \in passed \/ prior'[b] = file.log),
         count' \in Counts
  PROVE  Advances
<1>1. TypeOK /\ LogsAgree /\ OneOwner
  BY DEF JournalInv
<1>2. Empty \in File /\ ~Empty.torn
  BY DEF Empty, File
<1>3. /\ view' \in [Instance -> File] /\ \A j \in Instance : ~view'[j].torn
      /\ pending' \in [Instance -> [batch : Batch \cup {NoBatch}, seq : Nat]]
      /\ pending'[i] = Settled /\ owner' \in [Instance -> Kind] /\ owner'[i] = "closed"
      /\ target' \in [Instance -> Batch \cup {NoBatch, Compact}] /\ target'[i] = NoBatch
      /\ stale' \subseteq Instance
      /\ \A j \in Instance \ {i} : /\ owner'[j] = owner[j] /\ view'[j] = view[j]
                                   /\ target'[j] = target[j] /\ pending'[j] = pending[j]
  BY <1>1, <1>2, NamesLemma DEF TypeOK, Kind
<1>4. TypeOK'
  <2>1. /\ used' \subseteq Batch /\ acked' \subseteq used' /\ disk' \in File
        /\ passed' \subseteq used'
        /\ owner'[i] \in {"closed", "idle"} <=> target'[i] = NoBatch
    BY <1>1, <1>3 DEF TypeOK
  <2> QED BY <1>1, <1>3, <2>1, TypeStep
<1>5. HistoryKept /\ DiskFollows
  BY <1>1 DEF HistoryKept, DiskFollows, LogsAgree
<1>6. \/ SameLog /\ file'.count = file.count
      \/ \E b \in Own(i) : LongerLog(b) /\ file'.count = file.count + 1
  BY <1>1, <1>5 DEF SameLog, LongerLog, Own, OneOwner, Hands
<1>7. OthersKept(i) /\ CountTells
  BY <1>3, <1>6 DEF OthersKept, CountTells
<1>8. NoBatch \notin ToSet(file'.log)
  BY <1>4, LogTypes, ToSetLemma, NamesLemma DEF TypeOK, File
<1>9. StepOf(i)
  BY <1>3, <1>6, <1>7, <1>8, NamesLemma DEF StepOf
<1> QED BY <1>4, <1>5, <1>9, StepLemma DEF Advances, HistoryKept

LEMMA CloseStep == ASSUME JournalInv, NEW i \in Instance, Close(i) PROVE Advances
<1>1. TypeOK
  BY DEF JournalInv
<1>2. /\ file \in File /\ prior \in [Batch -> Seq(Batch)]
      /\ count \in Counts
  BY <1>1 DEF TypeOK
<1> QED BY <1>2, GoneStep DEF Close, Shut

LEMMA DieStep == ASSUME JournalInv, NEW i \in Instance, Die(i) PROVE Advances
<1>1. TypeOK /\ LogsAgree /\ OneOwner /\ Uncertain(i)
  BY DEF JournalInv
<1>2. /\ Open(i) /\ Crash /\ file' \in DeathLeaves(i)
      /\ owner' = [owner EXCEPT ![i] = "closed"] /\ target' = [target EXCEPT ![i] = NoBatch]
      /\ pending' = [pending EXCEPT ![i] = Settled] /\ view' = [view EXCEPT ![i] = Empty]
      /\ stale' = IF file' = file THEN stale ELSE Instance
      /\ prior' = IF file'.last \in Batch \ ToSet(file.log) /\ owner[i] = "ready"
                    THEN [prior EXCEPT ![file'.last] = Fresh(i).log] ELSE prior
      /\ disk' = disk /\ used' = used /\ acked' = acked /\ passed' = passed
  BY DEF Die
<1>3. /\ file \in File /\ prior \in [Batch -> Seq(Batch)] /\ file.log \in Seq(Batch)
      /\ count' \in Counts
      /\ ToSet(file.log) \subseteq Batch
  BY <1>1, <1>2, LogTypes, CountLemma DEF TypeOK
<1>4. /\ Healed.log = file.log /\ Torn(Healed) \in File /\ Torn(Healed).log = file.log
      /\ Torn(Healed).count = file.count /\ Torn(Healed).last = file.last
      /\ Healed.count = file.count
  BY <1>1, FileLemma
<1>5. file.last \notin Batch \ ToSet(file.log)
  BY <1>1 DEF LogsAgree
<1>6. CASE file' = file \/ file' = Torn(Healed)
  <2>1. /\ file' \in File /\ file'.log = file.log /\ file'.last = file.last
        /\ file'.count = file.count
    BY <1>3, <1>4, <1>6
  <2>2. prior' = prior
    BY <1>2, <1>5, <2>1
  <2> QED BY <1>2, <1>3, <2>1, <2>2, GoneStep
<1>7. CASE /\ owner[i] = "ready" /\ pending[i] = Settled
           /\ target[i] \in Batch \ ToSet(Fresh(i).log)
           /\ file' \in {Torn(Fresh(i)), With(Fresh(i), target[i])}
  <2> DEFINE b == target[i]
  <2>1. Fresh(i) = Healed
    BY <1>2, <1>7, FreshLemma
  <2>2. b \in Batch \ ToSet(file.log) /\ b \in Hands(i)
    BY <1>4, <1>7, <2>1 DEF Hands
  <2>3. CASE file' = With(Healed, b)
    <3>1. /\ file' \in File /\ file'.log = Append(file.log, b) /\ file'.last = b
          /\ file'.count = file.count + 1
      BY <1>1, <2>2, <2>3, FileLemma
    <3>2. prior' = [prior EXCEPT ![b] = file.log]
      BY <1>2, <1>4, <1>7, <2>1, <2>2, <3>1
    <3>3. /\ prior' \in [Batch -> Seq(Batch)] /\ prior'[b] = file.log
          /\ \A c \in ToSet(file.log) \cup (used \ Hands(i)) : prior'[c] = prior[c]
      BY <1>1, <1>3, <2>2, <3>2 DEF TypeOK
    <3> HIDE DEF b
    <3> QED BY <1>2, <1>3, <2>2, <3>1, <3>3, GoneStep
  <2> QED BY <1>6, <1>7, <2>1, <2>3
<1>8. CASE /\ owner[i] = "start" /\ pending[i] # Settled
           /\ pending[i].seq = Healed.count + 1
           /\ file' \in {Torn(Healed), With(Healed, pending[i].batch)}
  <2> DEFINE b == pending[i].batch
  <2>1. b \in Batch /\ b \in Hands(i) /\ (b \in passed \/ prior[b] = file.log)
    BY <1>1, <1>4, <1>8 DEF Uncertain, InPlace, Hands
  <2>2. CASE file' = With(Healed, b)
    <3>1. /\ file' \in File /\ file'.log = Append(file.log, b) /\ file'.last = b
          /\ file'.count = file.count + 1
      BY <1>1, <2>1, <2>2, FileLemma
    <3>2. prior' = prior
      BY <1>2, <1>8
    <3> HIDE DEF b
    <3> QED BY <1>2, <1>3, <2>1, <3>1, <3>2, GoneStep
  <2> QED BY <1>6, <1>8, <2>2
<1> QED BY <1>2, <1>6, <1>7, <1>8 DEF DeathLeaves

LEMMA PowerLossStep == ASSUME JournalInv, PowerLoss PROVE Advances
<1>1. TypeOK /\ LogsAgree /\ BasedOnLatest
  BY DEF JournalInv
<1>2. /\ Crash /\ file' \in {file, disk, Torn(disk)} /\ disk' = file'
      /\ owner' = [i \in Instance |-> "closed"] /\ target' = [i \in Instance |-> NoBatch]
      /\ pending' = [i \in Instance |-> Settled] /\ view' = [i \in Instance |-> Empty]
      /\ stale' = Instance /\ used' = used /\ prior' = prior /\ acked' = acked /\ passed' = passed
  BY DEF PowerLoss
<1>3. file \in File /\ disk \in File
  BY <1>1 DEF TypeOK
<1>4. /\ Torn(disk) \in File /\ Torn(disk).log = disk.log /\ Torn(disk).last = disk.last
  BY <1>3 DEF Torn, File
<1>5. /\ file' \in File
      /\ \/ file'.log = file.log /\ file'.last = file.last
         \/ file'.log = disk.log /\ file'.last = disk.last
  BY <1>2, <1>3, <1>4
<1>6. Empty \in File /\ ~Empty.torn
  BY DEF Empty, File
<1>7. count' \in Counts
  BY <1>1, <1>2, CountLemma
<1>8. TypeOK'
  BY <1>1, <1>2, <1>5, <1>6, <1>7, NamesLemma DEF TypeOK
<1>9. /\ file.log \in Seq(Batch) /\ disk.log \in Seq(Batch) /\ IsPrefix(disk.log, file.log)
      /\ IsPrefix(disk.log, disk.log) /\ BasedOn(file.log, prior, passed)
  BY <1>1, LogTypes, PrefixLemma DEF LogsAgree
<1>10. ToSet(disk.log) \subseteq ToSet(file.log) /\ BasedOn(disk.log, prior, passed)
  BY <1>9, PrefixFacts
<1>11. /\ IsPrefix(disk.log, file'.log) /\ BasedOn(file'.log, prior, passed)
       /\ ToSet(disk.log) \subseteq ToSet(file'.log) /\ ToSet(file'.log) \subseteq ToSet(file.log)
       /\ file'.last \in Batch => file'.last \in ToSet(file'.log)
  BY <1>1, <1>5, <1>9, <1>10 DEF LogsAgree
<1>12. IsPrefix(file'.log, file'.log)
  BY <1>5, <1>9, PrefixLemma
<1>13. LogsAgree'
  BY <1>1, <1>2, <1>11, <1>12 DEF LogsAgree
<1>14. BasedOnLatest'
  BY <1>2, <1>11 DEF BasedOn, BasedOnLatest
<1>15. ViewsAreFresh' /\ OneOwner' /\ \A i \in Instance : Uncertain(i)'
  BY <1>2, NamesLemma DEF ViewsAreFresh, Open, OneOwner, Hands, Uncertain
<1>16. \A i \in Instance : TargetIsSafe(i)'
  BY <1>2 DEF TargetIsSafe
<1> QED BY <1>2, <1>8, <1>11, <1>13, <1>14, <1>15, <1>16 DEF Advances, JournalInv

-----------------------------------------------------------------------------
(* The theorems.                                                           *)

LEMMA JournalInit == Init => JournalInv
<1> SUFFICES ASSUME Init PROVE JournalInv
  OBVIOUS
<1> DEFINE none == <<>>
<1>1. none \in Seq(Batch) /\ Len(none) = 0
  OBVIOUS
<1>2. ToSet(none) = {}
  BY DEF ToSet
<1> HIDE DEF none
<1>3. IsPrefix(none, none)
  <2>1. \A s \in Seq(Batch) : IsPrefix(s, s)
    BY PrefixLemma
  <2> QED BY <1>1, <2>1
<1>4. Empty = [log |-> none, count |-> 0, last |-> NoBatch, torn |-> FALSE]
  BY DEF Empty, none
<1>5. /\ Empty \in File /\ ~Empty.torn /\ Empty.log = none /\ Empty.last = NoBatch
      /\ Empty.count = 0 /\ [Empty EXCEPT !.torn = FALSE] = Empty
  <2>1. Empty.log = none /\ Empty.last = NoBatch /\ Empty.count = 0 /\ ~Empty.torn
    BY <1>4
  <2>2. Empty \in File
    BY <1>1, <1>4 DEF File
  <2> QED BY <2>1, <2>2 DEF File
<1>6. TypeOK
  <2>1. prior = [b \in Batch |-> none]
    BY DEF Init, none
  <2>2. count \in Counts
    BY SessionJournalAssumption DEF Init, Counts
  <2> QED BY <1>1, <1>5, <2>1, <2>2, NamesLemma DEF Init, TypeOK
<1>7. LogsAgree
  BY <1>5, <1>2, <1>3, NamesLemma DEF Init, LogsAgree
<1>8. BasedOnLatest
  <2>1. DOMAIN none = {}
    BY <1>1
  <2> QED BY <1>5, <2>1 DEF Init, BasedOnLatest
<1>9. ViewsAreFresh
  BY DEF Init, ViewsAreFresh, Open
<1>10. OneOwner /\ \A i \in Instance : Uncertain(i) /\ TargetIsSafe(i)
  BY <1>5, <1>2, NamesLemma DEF Init, OneOwner, Hands, Uncertain, TargetIsSafe
<1> QED BY <1>6, <1>7, <1>8, <1>9, <1>10 DEF JournalInv

\* Every step keeps the invariant and only lengthens what is stored.
LEMMA JournalStep == JournalInv /\ [Next]_vars => Advances
<1> SUFFICES ASSUME JournalInv, [Next]_vars PROVE Advances
  OBVIOUS
<1>1. ASSUME NEW i \in Instance, Retry(i) PROVE Advances
  BY <1>1, LoopStep, ReadingStep, RetryWriteStep DEF Retry
<1>2. ASSUME NEW i \in Instance, Operation(i) PROVE Advances
  BY <1>2, LoopStep, ReadingStep, SaveStep, CompactStep DEF Operation
<1>3. ASSUME NEW i \in Instance, Load(i) \/ Begin(i) \/ NewInput(i) \/ GiveUp(i)
      PROVE  Advances
  BY <1>3, ReadingStep, BeginStep, LoopStep
<1>4. ASSUME NEW i \in Instance, Background(i) \/ Close(i) \/ Die(i) PROVE Advances
  BY <1>4, BackgroundStep, CloseStep, DieStep
<1>5. CASE PowerLoss
  BY <1>5, PowerLossStep
<1>6. CASE UNCHANGED vars
  <2>1. /\ TypeOK' /\ LogsAgree' /\ BasedOnLatest' /\ ViewsAreFresh' /\ OneOwner'
        /\ \A i \in Instance : Uncertain(i)' /\ TargetIsSafe(i)'
    BY <1>6 DEF vars, mem, loop, JournalInv, TypeOK, LogsAgree, BasedOnLatest, ViewsAreFresh,
                Open, Healed, OneOwner, Hands, Uncertain, InPlace, TargetIsSafe
  <2>2. IsPrefix(disk.log, disk.log)
    BY LogTypes, PrefixLemma DEF JournalInv
  <2> QED BY <1>6, <2>1, <2>2 DEF Advances, JournalInv, vars, mem
<1> QED BY <1>1, <1>2, <1>3, <1>4, <1>5, <1>6 DEF Next

THEOREM JournalInvariant == Spec => []JournalInv
<1>1. JournalInv /\ [Next]_vars => JournalInv'
  BY JournalStep DEF Advances
<1> QED BY <1>1, JournalInit, PTL DEF Spec

\* The state of the journal stays well-formed (SessionFile, storage.py).
THEOREM JournalTypeCorrect == Spec => []TypeOK
<1>1. JournalInv => TypeOK
  BY DEF JournalInv
<1> QED BY <1>1, JournalInvariant, PTL

\* Every batch in the file follows exactly what it was prepared against: no
\* save overwrites, passes over or repeats another writer's (_refresh,
\* retry_pending), but for batches that were uncertain at a compaction.
THEOREM BasedOnLatestCorrect == Spec => []BasedOnLatest
<1>1. JournalInv => BasedOnLatest
  BY DEF JournalInv
<1> QED BY <1>1, JournalInvariant, PTL

\* The journal implements the log its writers are promised: whatever fails,
\* dies or loses power, stable storage only grows, by batches not yet there
\* unless they were uncertain at a compaction, and holds every batch whose save
\* was reported as done.
THEOREM JournalIsLogCorrect == Spec => JournalIsLog
<1>1. Init => Promise!Init
  BY DEF Init, Promise!Init, Empty
<1>2. ASSUME JournalInv, JournalInv', [Next]_vars
      PROVE  [Promise!Next]_<<disk.log, acked, passed>>
  <2>1. Advances
    BY <1>2, JournalStep
  <2>2. TypeOK' /\ LogsAgree' /\ BasedOnLatest'
    BY <1>2 DEF JournalInv
  <2>3. /\ disk'.log \in Seq(Batch) /\ file'.log \in Seq(Batch)
        /\ IsPrefix(disk'.log, file'.log) /\ BasedOn(file'.log, prior', passed')
    BY <2>2 DEF TypeOK, LogsAgree, File, BasedOn, BasedOnLatest
  <2>4. BasedOn(disk'.log, prior', passed')
    BY <2>3, PrefixFacts
  <2>5. Promise!Once(disk'.log, passed')
    BY <2>3, <2>4, OnceLemma DEF Promise!Once
  <2>6. Promise!Grow /\ Promise!Report
    BY <2>1, <2>2, <2>3, <2>5 DEF Advances, LogsAgree, Promise!Grow, Promise!Report,
         Promise!IsPrefix, IsPrefix, Promise!ToSet, ToSet
  <2> QED BY <2>1, <2>6 DEF Advances, Promise!Next
<1>3. JournalInv => BasedOnLatest
  BY DEF JournalInv
<1> QED BY <1>1, <1>2, <1>3, JournalInvariant, PTL DEF Spec, Promise!Spec, JournalIsLog
=============================================================================
