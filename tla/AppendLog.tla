------------------------------- MODULE AppendLog -------------------------------
(***************************************************************************)
(* What the users of a stable Log rely on: a sequence of items that grows  *)
(* at its end and is emptied by clear, and an iterator that yields the     *)
(* item at its position if there is one.  ret is what the last call        *)
(* returned and, of an append, the item it was given.                      *)
(***************************************************************************)
EXTENDS Integers, Sequences

CONSTANTS Item, GrowFailed, NoSuchEntry, MaxSkip

VARIABLES entries, pos, ret

vars == <<entries, pos, ret>>

Init == entries = <<>> /\ pos = 0 /\ ret = <<>>

Push(item) ==
  /\ entries' = Append(entries, item)
  /\ ret' = <<Len(entries), item>>
  /\ UNCHANGED pos

Fail == ret' = <<GrowFailed>> /\ UNCHANGED <<entries, pos>>

Clear == entries' = <<>> /\ ret' = <<>> /\ UNCHANGED pos

Iter == pos' = 0 /\ ret' = <<>> /\ UNCHANGED entries

Skip(n) ==
  /\ IF pos + n < Len(entries)
     THEN ret' = <<entries[pos + n + 1]>> /\ pos' = pos + n + 1
     ELSE ret' = <<NoSuchEntry>> /\ pos' = pos + n
  /\ UNCHANGED entries

Next ==
  \/ \E item \in Item : Push(item)
  \/ Fail
  \/ Clear
  \/ Iter
  \/ \E n \in 0..MaxSkip : Skip(n)

Spec == Init /\ [][Next]_vars

===============================================================================
