------------------------------ MODULE MCMemory -------------------------------
(* Two components of the memory service, checked side by side: each behaviour *)
(* is one of MemoryWindows or one of MemoryStore.                             *)
EXTENDS MemoryWindows, MemoryStore

VARIABLE part

memoryVars == <<part, windowVars, storeVars>>

MCInit == part \in {"windows", "store"} /\ WindowsInit /\ StoreInit

MCNext ==
  \/ part = "windows" /\ WindowsNext /\ UNCHANGED <<part, storeVars>>
  \/ part = "store" /\ StoreNext /\ UNCHANGED <<part, windowVars>>

\* In the other part none of the actions that WindowsFairness names is enabled.
MCSpec == MCInit /\ [][MCNext]_memoryVars /\ WindowsFairness
=============================================================================
