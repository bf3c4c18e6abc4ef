----------------------------- MODULE DurableLog -----------------------------
(***************************************************************************)
(* What a session journal promises its writers: a log on stable storage    *)
(* that only grows, holds each batch at most once but for those excused,   *)
(* and holds every batch whose save was reported as done.                  *)
(***************************************************************************)
EXTENDS Sequences, SequencesExt

CONSTANT Batch

VARIABLES
  log,   \* the batches on stable storage, in order
  acked, \* batches whose save was reported as done
  excused \* batches the log may hold more than once

Init == log = <<>> /\ acked = {} /\ excused = {}

Once(l, but) == \A k, m \in DOMAIN l : l[k] = l[m] => k = m \/ l[k] \in but

\* Stable storage receives one batch, or several written since it last did.
Grow == log' \in Seq(Batch) /\ IsPrefix(log, log') /\ Once(log', excused')

\* Saves are reported as done, of batches the log holds by then.
Report == acked \subseteq acked' /\ acked' \subseteq ToSet(log')

Next == (Grow \/ UNCHANGED log) /\ Report /\ excused \subseteq excused'

Spec == Init /\ [][Next]_<<log, acked, excused>>
=============================================================================
