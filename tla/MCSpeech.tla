------------------------------ MODULE MCSpeech -------------------------------
(* The models on disk, the spoken replies of a session, what is said of a     *)
(* reply and the recordings, checked side by side: each behaviour is one of   *)
(* SpeechModels, of SpeechReplies, of SpokenText or of VoiceInput.            *)
EXTENDS SpeechModels, SpeechReplies, VoiceInput, SpokenText

VARIABLE part

speechVars == <<part, modelVars, replyVars, voiceVars, spokenVars>>

\* Process p has selected the backend with two versions, q the other one.
TaskOf == [t \in Task |-> IF t = "q1" THEN "q" ELSE "p"]
FamilyOf == [p \in Process |-> IF p = "p" THEN {"v0", "v1"} ELSE {"v2"}]
\* Two microphones, exchanged, or one gone while the other is there twice.
PlugsOf == {<<"a", "b">>, <<"b", "a">>, <<"b", "b">>}
NewestOf == [p \in Process |-> IF p = "p" THEN "v1" ELSE "v2"]

\* All texts of up to two of these: words, sentences, a number, a marker, a
\* comment, and the beginnings of either.
GoalText == Opening \o <<"R", ":", " ", "D">> \o Closing
Fragment == {<<"w", "w", "w", "w">>, <<"w", " ", "w">>, <<"1", ".", "1", ".">>, <<"w", ".">>,
  <<"w", ",", "!">>, GoalText, Opening \o <<"w">> \o Closing, <<"<", "!", "-">>,
  Opening \o <<"R", " ">>, Opening \o <<"R", ":", " ", " ", " ", " ", " ", " ">>}
TextsOfTwo == {<<>>} \cup Fragment \cup {a \o b : a, b \in Fragment}

MCInit ==
  /\ part \in {"models", "replies", "voice", "text"}
  /\ ModelsInit /\ RepliesInit /\ VoiceInit /\ SpokenInit
  /\ part # "models" => installed.active = "none"
  /\ part # "text" => text = <<>>
  /\ lib.list = <<"a", "b">>

\* Three operations with a fault or a damaged file, or two with both.
Within == ops' + faults' + damages' <= 4

MCNext ==
  \/ part = "models" /\ ModelsNext /\ Within /\ UNCHANGED <<part, replyVars, voiceVars, spokenVars>>
  \/ part = "replies" /\ RepliesNext /\ UNCHANGED <<part, modelVars, voiceVars, spokenVars>>
  \/ part = "voice" /\ VoiceNext /\ UNCHANGED <<part, modelVars, replyVars, spokenVars>>
  \/ part = "text" /\ SpokenNext /\ UNCHANGED <<part, modelVars, replyVars, voiceVars>>

\* What the fairness of one part names is never enabled in the others;
\* that of the recordings is MCEndings.
MCSpec == MCInit /\ [][MCNext]_speechVars /\ RepliesFairness
=============================================================================
