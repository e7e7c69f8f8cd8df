---------------------------- MODULE MCMemoryManager ----------------------------
(* MemoryManager for TLC: the memories are interchangeable, and no call    *)
(* depends on what the one before returned.                                *)
EXTENDS MemoryManager, TLC

Symmetry == Permutations(MemoryId)
State == <<header, owner, memory, inner, cache>>

===============================================================================
