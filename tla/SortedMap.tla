------------------------------- MODULE SortedMap -------------------------------
(***************************************************************************)
(* What a stable BTreeMap promises: a finite map whose operations take     *)
(* effect at once and return the entry they replaced or removed.           *)
(***************************************************************************)
EXTENDS Integers

CONSTANTS Key, Value, None

VARIABLES
  map,
  ret      \* the last operation, and the entry it returned

vars == <<map, ret>>

INSTANCE OrderedMap WITH NoValue <- None

Returns(request, k) ==
  ret' = [of |-> request,
          entry |-> IF k \in DOMAIN map THEN [key |-> k, value |-> map[k]] ELSE None]

Init == map = EmptyMap /\ ret = [of |-> [op |-> "new"], entry |-> None]

Insert(e) ==
  /\ map' = MapInsert(map, e.key, e.value)
  /\ Returns([op |-> "insert", entry |-> e], e.key)

Remove(k) ==
  /\ map' = MapRemove(map, k)
  /\ Returns([op |-> "remove", key |-> k], k)

PopFirst ==
  \E k \in DOMAIN map :
    /\ \A j \in DOMAIN map : k =< j
    /\ map' = MapRemove(map, k)
    /\ Returns([op |-> "pop_first"], k)

PopLast ==
  \E k \in DOMAIN map :
    /\ \A j \in DOMAIN map : j =< k
    /\ map' = MapRemove(map, k)
    /\ Returns([op |-> "pop_last"], k)

PopNothing ==
  /\ map = EmptyMap
  /\ \E op \in {"pop_first", "pop_last"} : ret' = [of |-> [op |-> op], entry |-> None]
  /\ UNCHANGED map

Clear == map' = EmptyMap /\ ret' = [of |-> [op |-> "clear"], entry |-> None]

Next ==
  \/ \E e \in [key : Key, value : Value] : Insert(e)
  \/ \E k \in Key : Remove(k)
  \/ PopFirst
  \/ PopLast
  \/ PopNothing
  \/ Clear

Spec == Init /\ [][Next]_vars

===============================================================================
