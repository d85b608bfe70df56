------------------------------- MODULE MCMemory --------------------------------
(* Instances of how a memory is stored and used: a behaviour belongs to one of the two, the *)
(* other rests.                                                                             *)
EXTENDS RecordStore, MemoryUse

VARIABLE part   \* the component a behaviour is about

memoryVars == <<part, recordVars, useVars>>

\* What a Block loses with age (packages/core/src/blocks.ts), at a decay rate of 1 rather than the
\* usual 0.3, so that two Blocks are enough for a pointer to move.
MCDropped == [a \in 0..MaxIds |-> IF a = 0 THEN 0 ELSE IF a = 1 THEN 2 ELSE IF a = 2 THEN 4 ELSE 5]

MemoryInit == part \in {"store", "use"} /\ StoreInit /\ UseInit
MemoryNext ==
  /\ UNCHANGED part
  /\ \/ part = "store" /\ StoreNext /\ UNCHANGED useVars
     \/ part = "use" /\ UseNext /\ UNCHANGED recordVars
MemorySpec == MemoryInit /\ [][MemoryNext]_memoryVars

\* Conversations, calls and instances are interchangeable.
Alike == Permutations(Thread) \cup Permutations(Call) \cup Permutations(Instance)
===============================================================================
