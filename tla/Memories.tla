-------------------------------- MODULE Memories --------------------------------
(***************************************************************************)
(* What the users of a MemoryManager rely on (the Memory trait of          *)
(* src/lib.rs): independent memories that only grow, by zeroed pages, and  *)
(* whose pages change only when they are written.  A page past the size of *)
(* its memory is Zero.  ret is what the last call returned or, of a write, *)
(* what it wrote.                                                          *)
(***************************************************************************)
EXTENDS Integers, Sequences

CONSTANTS MemoryId, Page, Value, Zero, MaxGrow, MaxLen

VARIABLES size, mem, ret

vars == <<size, mem, ret>>

Init ==
  /\ size = [id \in MemoryId |-> 0]
  /\ mem = [id \in MemoryId |-> [i \in Page |-> Zero]]
  /\ ret = <<>>

Grow(id, pages) ==
  /\ size' = [size EXCEPT ![id] = @ + pages]
  /\ ret' = <<size[id]>>
  /\ UNCHANGED mem

Refuse == ret' = <<-1>> /\ UNCHANGED <<size, mem>>

Write(id, offset, src) ==
  LET written == offset..(offset + Len(src) - 1) IN
  /\ UNCHANGED size
  /\ mem' = [mem EXCEPT ![id] = [i \in Page |-> IF i \in written
                                               THEN src[i - offset + 1] ELSE @[i]]]

Read(id, offset, len) ==
  /\ ret' = [j \in 1..len |-> mem[id][offset + j - 1]]
  /\ UNCHANGED <<size, mem>>

(* After a restart nothing is lost. *)
Restart == ret' = <<>> /\ UNCHANGED <<size, mem>>

Next ==
  \/ Refuse
  \/ Restart
  \/ \E id \in MemoryId :
       \/ \E pages \in 0..MaxGrow : Grow(id, pages)
       \/ \E offset \in Page, len \in 1..MaxLen :
            /\ offset + len =< size[id]
            /\ \/ Read(id, offset, len)
               \/ /\ ret' \in [1..len -> Value]
                  /\ Write(id, offset, ret')

Spec == Init /\ [][Next]_vars

===============================================================================
