------------------------------ MODULE MCEndings ------------------------------
(* What has to end although threads of two loops work on it, checked side by  *)
(* side under fairness: each behaviour is one of two children of a session,   *)
(* of one recording, or of two streams of the native voice worker.            *)
EXTENDS SubagentPool, VoiceInput, NativeVoice

CONSTANTS h1, h2, s1

MCPair == {h1, h2}
MCPairSession == [h \in MCPair |-> s1]
MCSession == {s1}

VARIABLE part

endingVars == <<part, vars, voiceVars, nativeVars>>

OneMicrophone == {<<"a">>}
MCFrames == <<<<1>>, <<2, 1>>>>

MCInit == part \in {"pool", "voice", "native"} /\ Init /\ VoiceInit /\ NativeInit

MCNext ==
  \/ part = "pool" /\ Next /\ UNCHANGED <<part, voiceVars, nativeVars>>
  \/ part = "voice" /\ VoiceNext /\ UNCHANGED <<part, vars, nativeVars>>
  \/ part = "native" /\ NativeNext /\ UNCHANGED <<part, vars, voiceVars>>

\* What the fairness of one part names is not enabled while the other runs:
\* nothing is dispatched, nothing recorded.
MCSpec == MCInit /\ [][MCNext]_endingVars /\ Fairness /\ VoiceFairness
=============================================================================
