----------------------------- MODULE VersionedMap -----------------------------
(***************************************************************************)
(* What RepLogMap promises to its users: a map with a version number.      *)
(* Every operation that changes the contents takes the next version;       *)
(* an operation that fails, and a compaction, change neither.              *)
(***************************************************************************)
EXTENDS Naturals

CONSTANTS Key, Value, NoValue, ChangelogFull

VARIABLES
  map,    \* the contents, key to value
  seq,    \* the version of the contents
  ret     \* what the last operation returned

vars == <<map, seq, ret>>

INSTANCE OrderedMap

Init ==
  /\ map = EmptyMap
  /\ seq = 0
  /\ ret = NoValue

Write(k, v) ==
  /\ map' = MapInsert(map, k, v)
  /\ seq' = seq + 1
  /\ ret' = MapGet(map, k)

Delete(k) ==
  /\ k \in DOMAIN map
  /\ map' = MapRemove(map, k)
  /\ seq' = seq + 1
  /\ ret' = MapGet(map, k)

(* Deleting a key that is absent, and a compaction, return nothing. *)
Nothing ==
  /\ ret' = NoValue
  /\ UNCHANGED <<map, seq>>

(* The operation did not happen at all. *)
Refuse ==
  /\ ret' = ChangelogFull
  /\ UNCHANGED <<map, seq>>

(* Even an empty map takes a new version when it is cleared. *)
Clear ==
  /\ map' = EmptyMap
  /\ seq' = seq + 1
  /\ ret' = NoValue

Next ==
  \/ \E k \in Key, v \in Value : Write(k, v)
  \/ \E k \in Key : Delete(k)
  \/ Nothing
  \/ Refuse
  \/ Clear

Spec == Init /\ [][Next]_vars

===============================================================================
