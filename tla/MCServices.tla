----------------------------- MODULE MCServices ------------------------------
(* Five services that share no state, checked side by side: each behaviour  *)
(* is one of the pet's process, of the replies it shows, of the messages    *)
(* of a channel, of the cleanup of sessions, or of the files the tools      *)
(* change.  The files are two parts:                                        *)
(* one file under review with rich contents, and one outside WorkDatabase   *)
(* that two calls of two turns change.                                      *)
EXTENDS PetProcess, PetReplies, ChannelTurns, SessionCleanup, FileReview, TLC

CONSTANTS in, out

VARIABLE part

servicesVars == <<part, petVars, petReplyVars, chatVars, cleanupVars, fileVars>>

MCSymmetry == UNION {Permutations(s) : s \in {Call, Value, Part}}

\* The contents in the part about confirmations: texts of one value.
Plain == {Missing, Empty} \cup {[exists |-> TRUE, text |-> [p \in Part |-> v]] : v \in Value}

MCInit ==
  /\ part \in {"pet", "replies", "channel", "cleanup", "review", "confirm"}
  /\ PetInit /\ PetReplyInit /\ ChatInit /\ CleanupInit /\ FileInit
  /\ part # "cleanup" => stored = [s \in Session |-> [there |-> FALSE, open |-> FALSE, old |-> FALSE]]
  /\ part # "review" => disk[in] = Missing
  /\ part # "confirm" => disk[out] = Missing
  /\ part = "confirm" => disk[out] \in Plain \ {Empty}
  /\ part \notin {"review", "confirm"} => ~reviewing

Within ==
  CASE part = "review" ->
         /\ disk'[out] = Missing /\ turn' = 1
         /\ \A c \in Call : call'[c].at # "idle" => call'[c].file = in
         /\ Cardinality({c \in Call : call'[c].at # "idle"}) <= 1
    [] part = "confirm" ->
         /\ disk'[in] = Missing /\ disk'[out] \in Plain
         /\ count'.changes <= 2
         /\ \A c \in Call : call'[c].at # "idle" =>
              call'[c].file = out /\ call'[c].after \in Plain

\* Three messages and a reset, or two of either (the first talk is 1).
MessagesOrResets == arrived' + (chat' - 1) <= 4

MCNext ==
  \/ part = "pet" /\ PetNext /\ UNCHANGED <<part, petReplyVars, chatVars, cleanupVars, fileVars>>
  \/ part = "replies" /\ PetReplyNext /\ UNCHANGED <<part, petVars, chatVars, cleanupVars, fileVars>>
  \/ part = "channel" /\ ChatNext /\ MessagesOrResets /\ UNCHANGED <<part, petVars, petReplyVars, cleanupVars, fileVars>>
  \/ part = "cleanup" /\ CleanupNext /\ UNCHANGED <<part, petVars, petReplyVars, chatVars, fileVars>>
  \/ /\ part \in {"review", "confirm"} /\ FileNext /\ Within
     /\ UNCHANGED <<part, petVars, petReplyVars, chatVars, cleanupVars>>

MCSpec == MCInit /\ [][MCNext]_servicesVars
=============================================================================
