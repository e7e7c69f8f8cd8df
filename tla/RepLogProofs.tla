----------------------------- MODULE RepLogProofs -----------------------------
(***************************************************************************)
(* Proofs about RepLog for every set of keys and values and every bound:   *)
(* type correctness, the consistency of the two maps, the changelog as a   *)
(* record of the state, fresh entry ids, and the implementation of the     *)
(* versioned map.                                                          *)
(***************************************************************************)
EXTENDS RepLog, TLAPS

(* The inductive invariant.  The undo paths restore the maps only because  *)
(* every id in the index has a value, and LastChangeTellsState is kept by  *)
(* an insert only because new ids are larger than all logged ones.         *)
Inv == TypeOK /\ IndexConsistent /\ LastChangeTellsState

-------------------------------------------------------------------------------
(* Facts about the maps. *)

(* A map with one more or one entry fewer is a map of the same type.       *)
(* Behind every write of key_index and value_store.                        *)
LEMMA MapTypes ==
  ASSUME NEW m, NEW K, NEW V, NEW k \in K, NEW v \in V, IsMap(m, K, V)
  PROVE  /\ IsMap(MapInsert(m, k, v), K, V)
         /\ IsMap(MapRemove(m, k), K, V)
  BY DEF IsMap, MapInsert, MapRemove

(* Removing what was just inserted gives the map back: the undo of         *)
(* try_insert for a new key.                                               *)
LEMMA RemoveUndoesInsert ==
  ASSUME NEW m, NEW K, NEW V, NEW k, NEW v, IsMap(m, K, V), k \notin DOMAIN m
  PROVE  MapRemove(MapInsert(m, k, v), k) = m
  BY DEF IsMap, MapInsert, MapRemove

(* Writing the old value again gives the map back: the undo of try_insert  *)
(* for a present key.                                                      *)
LEMMA InsertUndoesInsert ==
  ASSUME NEW m, NEW K, NEW V, NEW k, NEW v, IsMap(m, K, V), k \in DOMAIN m
  PROVE  MapInsert(MapInsert(m, k, v), k, m[k]) = m
  BY DEF IsMap, MapInsert

(* Inserting what was just removed gives the map back: the undo of         *)
(* try_remove.                                                             *)
LEMMA InsertUndoesRemove ==
  ASSUME NEW m, NEW K, NEW V, NEW k, IsMap(m, K, V), k \in DOMAIN m
  PROVE  MapInsert(MapRemove(m, k), k, m[k]) = m
  BY DEF IsMap, MapInsert, MapRemove

(* What Append does to a changelog, entry by entry. *)
LEMMA AppendProperties ==
  ASSUME NEW S, NEW s \in Seq(S), NEW e \in S
  PROVE  /\ Append(s, e) \in Seq(S)
         /\ Len(s) \in Nat
         /\ Len(Append(s, e)) = Len(s) + 1
         /\ \A i \in 1..Len(s) : Append(s, e)[i] = s[i] /\ s[i] \in S
         /\ Append(s, e)[Len(s) + 1] = e
  OBVIOUS

-------------------------------------------------------------------------------
(* A failed try_insert changes nothing but its result, although it writes  *)
(* and unwrites both maps and the counter.                                 *)
LEMMA UndoneInsertChangesNothing ==
  ASSUME TypeOK, IndexConsistent, NEW k \in Key, NEW v \in Value,
         UndoneInsert(k, v)
  PROVE  UNCHANGED <<key_index, value_store, changelog, counters>>
<1>1. CASE k \in DOMAIN key_index
  <2> DEFINE id == key_index[k]
  <2>1. id \in DOMAIN value_store
    BY <1>1 DEF IndexConsistent
  <2>2. MapGet(value_store, id) = value_store[id] /\ value_store[id] # NoValue
    BY <2>1, ValueAssumption DEF MapGet, TypeOK, IsMap
  <2>3. value_store' = MapInsert(MapInsert(value_store, id, v), id, value_store[id])
    BY <1>1, <2>2 DEF UndoneInsert
  <2>4. value_store' = value_store
    BY <2>1, <2>3, InsertUndoesInsert DEF TypeOK
  <2> QED
    BY <1>1, <2>4 DEF UndoneInsert
<1>2. CASE k \notin DOMAIN key_index
  <2> DEFINE id == counters.next_entry_id
  <2>1. id \in Nat /\ id \notin DOMAIN value_store
    BY DEF TypeOK, IndexConsistent
  <2>2. key_index' = key_index
    BY <1>2, RemoveUndoesInsert DEF UndoneInsert, TypeOK
  <2>3. value_store' = value_store
    BY <1>2, <2>1, RemoveUndoesInsert DEF UndoneInsert, TypeOK
  <2>4. counters' = counters
    <3> DEFINE c == [counters EXCEPT !.next_entry_id = @ + 1]
    <3>1. counters' = [c EXCEPT !.next_entry_id = @ - 1]
      BY <1>2 DEF UndoneInsert
    <3>2. c = [next_entry_id |-> counters.next_entry_id + 1,
               epoch_start |-> counters.epoch_start]
      BY DEF TypeOK
    <3>3. counters' = [next_entry_id |-> (counters.next_entry_id + 1) - 1,
                       epoch_start |-> counters.epoch_start]
      BY <3>1, <3>2, Zenon
    <3> QED
      BY <2>1, <3>3 DEF TypeOK
  <2> QED
    BY <2>2, <2>3, <2>4 DEF UndoneInsert
<1> QED
  BY <1>1, <1>2

(* A failed try_remove changes nothing but its result. *)
LEMMA UndoneRemoveChangesNothing ==
  ASSUME TypeOK, IndexConsistent, NEW k \in Key, UndoneRemove(k)
  PROVE  UNCHANGED <<key_index, value_store, changelog, counters>>
<1> DEFINE id == key_index[k]
<1>1. k \in DOMAIN key_index
  BY DEF UndoneRemove
<1>2. id \in DOMAIN value_store
  BY <1>1 DEF IndexConsistent
<1>3. MapGet(value_store, id) = value_store[id] /\ value_store[id] # NoValue
  BY <1>2, ValueAssumption DEF MapGet, TypeOK, IsMap
<1>4. key_index' = key_index
  BY <1>1, InsertUndoesRemove DEF UndoneRemove, TypeOK
<1>5. value_store' = MapInsert(MapRemove(value_store, id), id, value_store[id])
  BY <1>3 DEF UndoneRemove
<1>6. value_store' = value_store
  BY <1>2, <1>5, InsertUndoesRemove DEF TypeOK
<1> QED
  BY <1>4, <1>6 DEF UndoneRemove

-------------------------------------------------------------------------------
(* One step of an insert that is logged keeps the invariant. *)
LEMMA InsertKeepsInv ==
  ASSUME Inv, NEW k \in Key, NEW v \in Value, Insert(k, v)
  PROVE  Inv'
<1> USE DEF Inv
<1> DEFINE id == IF k \in DOMAIN key_index THEN key_index[k]
                                           ELSE counters.next_entry_id
           e == Entry("Upsert", id, k)
<1>1. /\ id \in Nat
      /\ counters.next_entry_id \in Nat
      /\ e \in ChangeEntry
      /\ e.entry_id = id /\ e.key = k /\ e.kind = "Upsert"
  BY DEF TypeOK, IsMap, Entry, ChangeEntry
<1>2. changelog' = Append(changelog, e) /\ changelog \in Seq(ChangeEntry)
  BY DEF Insert, TypeOK
<1>3. /\ changelog' \in Seq(ChangeEntry)
      /\ Len(changelog) \in Nat
      /\ Len(changelog') = Len(changelog) + 1
      /\ \A i \in 1..Len(changelog) :
           changelog'[i] = changelog[i] /\ changelog[i] \in ChangeEntry
      /\ changelog'[Len(changelog) + 1] = e
  BY <1>1, <1>2, AppendProperties
<1>4. /\ value_store' = MapInsert(value_store, id, v)
      /\ key_index' = MapInsert(key_index, k, id)
      /\ counters'.next_entry_id \in Nat
      /\ counters'.next_entry_id >= counters.next_entry_id
      /\ id < counters'.next_entry_id
      /\ counters' \in [next_entry_id : Nat, epoch_start : Nat]
  <2>1. CASE k \in DOMAIN key_index
    <3>1. key_index' = key_index /\ counters' = counters
      BY <2>1 DEF Insert
    <3>2. key_index = MapInsert(key_index, k, key_index[k])
      BY <2>1, Zenon DEF MapInsert, TypeOK, IsMap
    <3>3. id < counters.next_entry_id
      BY <2>1 DEF IndexConsistent
    <3> QED
      BY <2>1, <3>1, <3>2, <3>3 DEF Insert, TypeOK
  <2>2. CASE k \notin DOMAIN key_index
    BY <2>2 DEF Insert, TypeOK
  <2> QED
    BY <2>1, <2>2
<1>5. TypeOK'
  <2>1. IsMap(key_index', Key, Nat) /\ IsMap(value_store', Nat, Value)
    BY <1>1, <1>4, MapTypes, Zenon DEF TypeOK
  <2>2. ret' \in Value \cup {NoValue, ChangelogFull}
    BY DEF Insert, TypeOK, MapGet, IsMap
  <2> QED
    BY <1>3, <1>4, <2>1, <2>2 DEF TypeOK
<1>6. IndexConsistent'
  <2>0. \A i \in DOMAIN value_store : i \in Nat /\ i < counters.next_entry_id
    BY DEF IndexConsistent, TypeOK, IsMap
  <2>1. ASSUME NEW j \in DOMAIN key_index, j # k
        PROVE  key_index[j] # id
    <3>1. CASE k \in DOMAIN key_index
      BY <2>1, <3>1 DEF IndexConsistent
    <3>2. CASE k \notin DOMAIN key_index
      <4>1. key_index[j] \in DOMAIN value_store
        BY DEF IndexConsistent
      <4> QED
        BY <1>1, <2>0, <3>2, <4>1
    <3> QED
      BY <3>1, <3>2
  <2>2. DOMAIN key_index' = DOMAIN key_index \cup {k}
    BY <1>4 DEF MapInsert
  <2>3. key_index'[k] = id /\ \A j \in DOMAIN key_index : j # k => key_index'[j] = key_index[j]
    BY <1>4 DEF MapInsert
  <2>4. DOMAIN value_store' = DOMAIN value_store \cup {id}
    BY <1>4 DEF MapInsert
  <2>5. \A i, j \in DOMAIN key_index' : key_index'[i] = key_index'[j] => i = j
    BY <2>1, <2>2, <2>3 DEF IndexConsistent
  <2>6. DOMAIN value_store' = {key_index'[j] : j \in DOMAIN key_index'}
    BY <2>2, <2>3, <2>4 DEF IndexConsistent
  <2>7. \A i \in DOMAIN value_store' : i < counters'.next_entry_id
    BY <1>1, <1>4, <2>0, <2>4
  <2> QED
    BY <2>5, <2>6, <2>7 DEF IndexConsistent
<1>7. LastChangeTellsState'
  <2> SUFFICES ASSUME NEW i \in 1..Len(changelog')
               PROVE  /\ changelog'[i].entry_id < counters'.next_entry_id
                      /\ (\A j \in 1..Len(changelog') :
                            j > i => changelog'[j].entry_id # changelog'[i].entry_id)
                         => IF changelog'[i].kind = "Upsert"
                            THEN /\ changelog'[i].key \in DOMAIN key_index'
                                 /\ key_index'[changelog'[i].key] = changelog'[i].entry_id
                            ELSE changelog'[i].entry_id \notin DOMAIN value_store'
    BY DEF LastChangeTellsState
  <2>1. CASE i = Len(changelog) + 1
    BY <1>1, <1>3, <1>4, <2>1 DEF MapInsert
  <2>2. CASE i \in 1..Len(changelog)
    <3>1. /\ changelog'[i] = changelog[i]
          /\ changelog[i] \in ChangeEntry
          /\ changelog[i].entry_id < counters.next_entry_id
      BY <1>3, <2>2 DEF LastChangeTellsState
    <3>2. changelog'[i].entry_id < counters'.next_entry_id
      BY <1>1, <1>4, <3>1 DEF ChangeEntry
    <3>3. ASSUME \A j \in 1..Len(changelog') :
                   j > i => changelog'[j].entry_id # changelog'[i].entry_id
          PROVE  IF changelog'[i].kind = "Upsert"
                 THEN /\ changelog'[i].key \in DOMAIN key_index'
                      /\ key_index'[changelog'[i].key] = changelog'[i].entry_id
                 ELSE changelog'[i].entry_id \notin DOMAIN value_store'
      <4>1. id # changelog[i].entry_id
        BY <1>1, <1>3, <2>2, <3>1, <3>3
      <4>2. \A j \in 1..Len(changelog) :
              j > i => changelog[j].entry_id # changelog[i].entry_id
        BY <1>3, <2>2, <3>1, <3>3
      <4>3. IF changelog[i].kind = "Upsert"
            THEN /\ changelog[i].key \in DOMAIN key_index
                 /\ key_index[changelog[i].key] = changelog[i].entry_id
            ELSE changelog[i].entry_id \notin DOMAIN value_store
        BY <2>2, <4>2 DEF LastChangeTellsState
      <4>4. changelog[i].key \in DOMAIN key_index /\ changelog[i].key = k
              => key_index[changelog[i].key] = id
        OBVIOUS
      <4> QED
        BY <1>4, <3>1, <4>1, <4>3, <4>4 DEF MapInsert
    <3> QED
      BY <3>2, <3>3
  <2> QED
    BY <1>3, <2>1, <2>2
<1> QED
  BY <1>5, <1>6, <1>7

(* One step of a remove keeps the invariant. *)
LEMMA RemoveKeepsInv ==
  ASSUME Inv, NEW k \in Key, Remove(k)
  PROVE  Inv'
<1> USE DEF Inv
<1>1. CASE k \notin DOMAIN key_index
  <2>1. UNCHANGED <<key_index, value_store, changelog, counters>> /\ ret' = NoValue
    BY <1>1 DEF Remove
  <2> QED
    BY <2>1 DEF TypeOK, IndexConsistent, LastChangeTellsState
<1>2. CASE k \in DOMAIN key_index
  <2> DEFINE id == key_index[k]
             e == Entry("Delete", id, k)
  <2>1. /\ id \in Nat
        /\ e \in ChangeEntry
        /\ e.entry_id = id /\ e.key = k /\ e.kind = "Delete"
        /\ id \in DOMAIN value_store
        /\ id < counters.next_entry_id
    BY <1>2 DEF TypeOK, IsMap, Entry, ChangeEntry, IndexConsistent
  <2>2. /\ ret' = MapGet(value_store, id)
        /\ key_index' = MapRemove(key_index, k)
        /\ value_store' = MapRemove(value_store, id)
        /\ changelog' = Append(changelog, e)
        /\ counters' = counters
        /\ changelog \in Seq(ChangeEntry)
    BY <1>2 DEF Remove, TypeOK
  <2>3. /\ changelog' \in Seq(ChangeEntry)
        /\ Len(changelog) \in Nat
        /\ Len(changelog') = Len(changelog) + 1
        /\ \A i \in 1..Len(changelog) : changelog'[i] = changelog[i]
        /\ changelog'[Len(changelog) + 1] = e
    BY <2>1, <2>2, AppendProperties
  <2>4. /\ DOMAIN key_index' = DOMAIN key_index \ {k}
        /\ \A j \in DOMAIN key_index' : key_index'[j] = key_index[j]
        /\ DOMAIN value_store' = DOMAIN value_store \ {id}
    BY <2>2 DEF MapRemove
  <2>5. \A j \in DOMAIN key_index : j # k => key_index[j] # id
    BY <1>2 DEF IndexConsistent
  <2>6. TypeOK'
    <3>1. IsMap(key_index', Key, Nat) /\ IsMap(value_store', Nat, Value)
      BY <2>2 DEF TypeOK, IsMap, MapRemove
    <3>2. ret' \in Value
      BY <2>1, <2>2 DEF MapGet, TypeOK, IsMap
    <3> QED
      BY <2>2, <2>3, <3>1, <3>2 DEF TypeOK
  <2>7. IndexConsistent'
    <3>1. DOMAIN value_store' = {key_index'[j] : j \in DOMAIN key_index'}
      BY <2>4, <2>5 DEF IndexConsistent
    <3> QED
      BY <2>2, <2>4, <3>1, ZenonT(30) DEF IndexConsistent
  <2>8. LastChangeTellsState'
    <3> SUFFICES ASSUME NEW i \in 1..Len(changelog')
                 PROVE  /\ changelog'[i].entry_id < counters'.next_entry_id
                        /\ (\A j \in 1..Len(changelog') :
                              j > i => changelog'[j].entry_id # changelog'[i].entry_id)
                           => IF changelog'[i].kind = "Upsert"
                              THEN /\ changelog'[i].key \in DOMAIN key_index'
                                   /\ key_index'[changelog'[i].key] = changelog'[i].entry_id
                              ELSE changelog'[i].entry_id \notin DOMAIN value_store'
      BY DEF LastChangeTellsState
    <3>1. CASE i = Len(changelog) + 1
      BY <2>1, <2>2, <2>3, <2>4, <3>1
    <3>2. CASE i \in 1..Len(changelog)
      <4>1. changelog'[i] = changelog[i] /\ changelog[i].entry_id < counters.next_entry_id
        BY <2>3, <3>2 DEF LastChangeTellsState
      <4>2. ASSUME \A j \in 1..Len(changelog') :
                     j > i => changelog'[j].entry_id # changelog'[i].entry_id
            PROVE  IF changelog'[i].kind = "Upsert"
                   THEN /\ changelog'[i].key \in DOMAIN key_index'
                        /\ key_index'[changelog'[i].key] = changelog'[i].entry_id
                   ELSE changelog'[i].entry_id \notin DOMAIN value_store'
        <5>1. id # changelog[i].entry_id
          BY <2>1, <2>3, <3>2, <4>1, <4>2
        <5>2. \A j \in 1..Len(changelog) :
                j > i => changelog[j].entry_id # changelog[i].entry_id
          BY <2>3, <3>2, <4>1, <4>2
        <5>3. IF changelog[i].kind = "Upsert"
              THEN /\ changelog[i].key \in DOMAIN key_index
                   /\ key_index[changelog[i].key] = changelog[i].entry_id
              ELSE changelog[i].entry_id \notin DOMAIN value_store
          BY <3>2, <5>2 DEF LastChangeTellsState
        <5> QED
          BY <2>4, <4>1, <5>1, <5>3
      <4> QED
        BY <2>2, <4>1, <4>2
    <3> QED
      BY <2>3, <3>1, <3>2
  <2> QED
    BY <2>6, <2>7, <2>8
<1> QED
  BY <1>1, <1>2

(* Emptying the changelog, with or without the maps, keeps the invariant. *)
LEMMA ClearKeepsInv ==
  ASSUME Inv, Clear \/ Compact
  PROVE  Inv'
<1> USE DEF Inv
<1>1. current_seq \in Nat
  BY DEF current_seq, TypeOK
<1>2. /\ changelog' = <<>>
      /\ counters' \in [next_entry_id : Nat, epoch_start : Nat]
      /\ counters'.next_entry_id = counters.next_entry_id
      /\ ret' = NoValue
  BY <1>1 DEF Clear, Compact, TypeOK
<1>3. \/ key_index' = EmptyMap /\ value_store' = EmptyMap
      \/ UNCHANGED <<key_index, value_store>>
  BY DEF Clear, Compact
<1>4. TypeOK'
  <2>1. IsMap(EmptyMap, Key, Nat) /\ IsMap(EmptyMap, Nat, Value)
    BY DEF IsMap, EmptyMap
  <2> QED
    BY <1>2, <1>3, <2>1 DEF TypeOK
<1>5. IndexConsistent'
  <2>1. CASE key_index' = EmptyMap /\ value_store' = EmptyMap
    <3>1. DOMAIN key_index' = {} /\ DOMAIN value_store' = {}
      BY <2>1 DEF EmptyMap
    <3> QED
      BY <3>1 DEF IndexConsistent
  <2>2. CASE UNCHANGED <<key_index, value_store>>
    BY <1>2, <2>2 DEF IndexConsistent
  <2> QED
    BY <1>3, <2>1, <2>2
<1>6. LastChangeTellsState'
  BY <1>2 DEF LastChangeTellsState
<1> QED
  BY <1>4, <1>5, <1>6

(* The empty map satisfies the invariant. *)
LEMMA InitInv == Init => Inv
<1> SUFFICES ASSUME Init PROVE Inv
  OBVIOUS
<1>1. TypeOK
  BY DEF Init, TypeOK, IsMap, EmptyMap
<1>2. IndexConsistent
  BY DEF Init, IndexConsistent, EmptyMap
<1>3. LastChangeTellsState
  BY DEF Init, LastChangeTellsState
<1> QED
  BY <1>1, <1>2, <1>3 DEF Inv

(* Every step of the server keeps the invariant. *)
LEMMA NextInv == Inv /\ [ServerNext]_serverVars => Inv'
<1> SUFFICES ASSUME Inv, [ServerNext]_serverVars PROVE Inv'
  OBVIOUS
<1>1. ASSUME NEW k \in Key, NEW v \in Value, TryInsert(k, v) PROVE Inv'
  <2>1. CASE Insert(k, v)
    BY <2>1, InsertKeepsInv
  <2>2. CASE UndoneInsert(k, v)
    <3>1. UNCHANGED <<key_index, value_store, changelog, counters>>
      BY <2>2, UndoneInsertChangesNothing DEF Inv
    <3>2. ret' = ChangelogFull
      BY <2>2 DEF UndoneInsert
    <3> QED
      BY <3>1, <3>2 DEF Inv, TypeOK, IndexConsistent, LastChangeTellsState
  <2> QED
    BY <1>1, <2>1, <2>2 DEF TryInsert
<1>2. ASSUME NEW k \in Key, TryRemove(k) PROVE Inv'
  <2>1. CASE Remove(k)
    BY <2>1, RemoveKeepsInv
  <2>2. CASE UndoneRemove(k)
    <3>1. UNCHANGED <<key_index, value_store, changelog, counters>>
      BY <2>2, UndoneRemoveChangesNothing DEF Inv
    <3>2. ret' = ChangelogFull
      BY <2>2 DEF UndoneRemove
    <3> QED
      BY <3>1, <3>2 DEF Inv, TypeOK, IndexConsistent, LastChangeTellsState
  <2> QED
    BY <1>2, <2>1, <2>2 DEF TryRemove
<1>3. CASE Clear \/ Compact
  BY <1>3, ClearKeepsInv
<1>4. CASE UNCHANGED serverVars
  BY <1>4 DEF serverVars, Inv, TypeOK, IndexConsistent, LastChangeTellsState
<1> QED
  BY <1>1, <1>2, <1>3, <1>4 DEF ServerNext

(* RepLogMap is type correct in every reachable state. *)
THEOREM TypeCorrect == Spec => []TypeOK
<1>1. Spec => []Inv
  BY InitInv, NextInv, PTL DEF Spec
<1>2. Inv => TypeOK
  BY DEF Inv
<1> QED
  BY <1>1, <1>2, PTL

(* key_index and value_store always describe one map: the claim of the     *)
(* debug_asserts in get, first_key_value and last_key_value.               *)
THEOREM IndexStaysConsistent == Spec => []IndexConsistent
<1>1. Spec => []Inv
  BY InitInv, NextInv, PTL DEF Spec
<1>2. Inv => IndexConsistent
  BY DEF Inv
<1> QED
  BY <1>1, <1>2, PTL

(* The changelog always records the fate of every entry id it mentions. *)
THEOREM ChangelogTellsState == Spec => []LastChangeTellsState
<1>1. Spec => []Inv
  BY InitInv, NextInv, PTL DEF Spec
<1>2. Inv => LastChangeTellsState
  BY DEF Inv
<1> QED
  BY <1>1, <1>2, PTL

-------------------------------------------------------------------------------
(* What one step does to the entry ids. *)
LEMMA FreshStep ==
  ASSUME Inv, [ServerNext]_serverVars
  PROVE  /\ \A id \in DOMAIN value_store' \ DOMAIN value_store :
              id >= counters.next_entry_id
         /\ counters'.next_entry_id >= counters.next_entry_id
<1> USE DEF Inv
<1>0. counters.next_entry_id \in Nat
  BY DEF TypeOK
<1>1. ASSUME NEW k \in Key, NEW v \in Value, Insert(k, v)
      PROVE  /\ \A id \in DOMAIN value_store' \ DOMAIN value_store :
                  id >= counters.next_entry_id
             /\ counters'.next_entry_id >= counters.next_entry_id
  <2>1. CASE k \in DOMAIN key_index
    <3>1. /\ counters' = counters
          /\ value_store' = MapInsert(value_store, key_index[k], v)
          /\ key_index[k] \in DOMAIN value_store
      BY <1>1, <2>1 DEF Insert, IndexConsistent
    <3> QED
      BY <1>0, <3>1 DEF MapInsert
  <2>2. CASE k \notin DOMAIN key_index
    <3>1. /\ counters'.next_entry_id = counters.next_entry_id + 1
          /\ value_store' = MapInsert(value_store, counters.next_entry_id, v)
      BY <1>1, <2>2 DEF Insert, TypeOK
    <3> QED
      BY <1>0, <3>1 DEF MapInsert
  <2> QED
    BY <2>1, <2>2
<1>2. ASSUME NEW k \in Key, Remove(k)
      PROVE  /\ DOMAIN value_store' \subseteq DOMAIN value_store
             /\ counters' = counters
  BY <1>2 DEF Remove, MapRemove
<1>3. CASE Clear \/ Compact
  <2>1. /\ DOMAIN value_store' \subseteq DOMAIN value_store
        /\ counters'.next_entry_id = counters.next_entry_id
    BY <1>3 DEF Clear, Compact, TypeOK, EmptyMap
  <2> QED
    BY <1>0, <2>1
<1>4. CASE UNCHANGED <<value_store, counters>>
  BY <1>0, <1>4
<1> QED
  BY <1>0, <1>1, <1>2, <1>3, <1>4, UndoneInsertChangesNothing,
     UndoneRemoveChangesNothing
     DEF ServerNext, TryInsert, TryRemove, serverVars

(* Entry ids are never reused. *)
THEOREM IdsAreFresh == Spec => FreshIds
<1>1. Spec => []Inv
  BY InitInv, NextInv, PTL DEF Spec
<1>2. Inv /\ [ServerNext]_serverVars =>
        [/\ \A id \in DOMAIN value_store' \ DOMAIN value_store :
               id >= counters.next_entry_id
         /\ counters'.next_entry_id >= counters.next_entry_id]_serverVars
  BY FreshStep
<1> QED
  BY <1>1, <1>2, PTL DEF Spec, FreshIds

-------------------------------------------------------------------------------
(* In a consistent state the contents are the values behind the index. *)
LEMMA ContentsValues ==
  ASSUME Inv
  PROVE  /\ Contents = [k \in DOMAIN key_index |-> value_store[key_index[k]]]
         /\ \A k \in DOMAIN key_index :
              /\ key_index[k] \in DOMAIN value_store
              /\ MapGet(value_store, key_index[k]) = value_store[key_index[k]]
              /\ MapGet(Contents, k) = value_store[key_index[k]]
         /\ \A k : k \notin DOMAIN key_index => MapGet(Contents, k) = NoValue
<1>1. \A k \in DOMAIN key_index : key_index[k] \in DOMAIN value_store
  BY DEF Inv, IndexConsistent
<1> QED
  BY <1>1 DEF Contents, Get, MapGet

(* A step of RepLogMap is a step of the versioned map or changes nothing   *)
(* that the versioned map has.                                             *)
LEMMA StepImplements ==
  ASSUME Inv, Inv', [ServerNext]_serverVars
  PROVE  [Abs!Next]_(Abs!vars)
<1> USE DEF Abs!vars, Abs!Next
<1>0. current_seq \in Nat /\ Len(changelog) \in Nat
  BY DEF current_seq, Inv, TypeOK
<1>1. ASSUME NEW k \in Key, NEW v \in Value, Insert(k, v)
      PROVE  Abs!Write(k, v)
  <2> DEFINE id == IF k \in DOMAIN key_index THEN key_index[k]
                                             ELSE counters.next_entry_id
             e == Entry("Upsert", id, k)
  <2>1. /\ changelog' = Append(changelog, e)
        /\ e \in ChangeEntry
        /\ changelog \in Seq(ChangeEntry)
    BY <1>1 DEF Insert, Inv, TypeOK, IsMap, Entry, ChangeEntry
  <2>2. Len(changelog') = Len(changelog) + 1
    BY <2>1, AppendProperties
  <2>3. counters'.epoch_start = counters.epoch_start /\ counters.epoch_start \in Nat
    BY <1>1 DEF Insert, Inv, TypeOK
  <2>4. current_seq' = current_seq + 1
    BY <1>0, <2>2, <2>3 DEF current_seq
  <2>5. ret' = MapGet(Contents, k)
    BY <1>1, ContentsValues DEF Insert
  <2>6. /\ DOMAIN key_index' = DOMAIN key_index \cup {k}
        /\ key_index'[k] = id
        /\ \A j \in DOMAIN key_index : j # k => key_index'[j] = key_index[j]
        /\ value_store' = MapInsert(value_store, id, v)
    BY <1>1, Zenon DEF Insert, MapInsert
  <2>7. \A j \in DOMAIN key_index : j # k => key_index'[j] # id
    BY <2>6 DEF Inv, IndexConsistent
  <2>8. /\ value_store'[id] = v
        /\ \A j \in DOMAIN key_index : j # k =>
             value_store'[key_index'[j]] = value_store[key_index[j]]
    BY <2>6, <2>7, ContentsValues DEF MapInsert
  <2>9. Contents' = [j \in DOMAIN key_index' |-> value_store'[key_index'[j]]]
    <3>1. \A j \in DOMAIN key_index' : key_index'[j] \in DOMAIN value_store'
      BY DEF Inv, IndexConsistent
    <3> QED
      BY <3>1 DEF Contents, Get, MapGet
  <2>10. Contents' = MapInsert(Contents, k, v)
    BY <2>6, <2>8, <2>9, ContentsValues DEF MapInsert
  <2> QED
    BY <2>4, <2>5, <2>10 DEF Abs!Write, Abs!MapInsert, Abs!MapGet, MapInsert, MapGet
<1>2. ASSUME NEW k \in Key, Remove(k)
      PROVE  Abs!Delete(k) \/ Abs!Nothing
  <2>1. CASE k \notin DOMAIN key_index
    <3>1. UNCHANGED <<key_index, value_store, changelog, counters>> /\ ret' = NoValue
      BY <1>2, <2>1 DEF Remove
    <3>2. UNCHANGED <<Contents, current_seq>>
      BY <3>1 DEF Contents, Get, MapGet, current_seq
    <3> QED
      BY <3>1, <3>2 DEF Abs!Nothing
  <2>2. CASE k \in DOMAIN key_index
    <3> DEFINE id == key_index[k]
               e == Entry("Delete", id, k)
    <3>1. /\ changelog' = Append(changelog, e)
          /\ e \in ChangeEntry
          /\ changelog \in Seq(ChangeEntry)
          /\ counters' = counters
          /\ counters.epoch_start \in Nat
          /\ ret' = MapGet(value_store, id)
          /\ key_index' = MapRemove(key_index, k)
          /\ value_store' = MapRemove(value_store, id)
      BY <1>2, <2>2 DEF Remove, Inv, TypeOK, IsMap, Entry, ChangeEntry
    <3>2. Len(changelog') = Len(changelog) + 1
      BY <3>1, AppendProperties
    <3>3. current_seq' = current_seq + 1
      <4>1. counters'.epoch_start = counters.epoch_start
        BY <3>1
      <4>2. counters.epoch_start \in Nat
        BY <3>1
      <4> QED
        BY <1>0, <3>2, <4>1, <4>2 DEF current_seq
    <3>4. ret' = MapGet(Contents, k) /\ k \in DOMAIN Contents
      BY <2>2, <3>1, ContentsValues DEF Contents
    <3>5. \A j \in DOMAIN key_index : j # k => key_index[j] # id
      BY <2>2 DEF Inv, IndexConsistent
    <3>6. /\ DOMAIN key_index' = DOMAIN key_index \ {k}
          /\ \A j \in DOMAIN key_index' :
               value_store'[key_index'[j]] = value_store[key_index[j]]
      BY <3>1, <3>5, ContentsValues DEF MapRemove
    <3>7. Contents' = [j \in DOMAIN key_index' |-> value_store'[key_index'[j]]]
      <4>1. \A j \in DOMAIN key_index' : key_index'[j] \in DOMAIN value_store'
        BY DEF Inv, IndexConsistent
      <4> QED
        BY <4>1 DEF Contents, Get, MapGet
    <3>8. Contents' = MapRemove(Contents, k)
      BY <3>6, <3>7, ContentsValues DEF MapRemove
    <3> QED
      BY <3>3, <3>4, <3>8 DEF Abs!Delete, Abs!MapRemove, Abs!MapGet, MapRemove, MapGet
  <2> QED
    BY <2>1, <2>2
<1>3. ASSUME UNCHANGED <<key_index, value_store, changelog, counters>>,
             ret' = ChangelogFull
      PROVE  Abs!Refuse
  BY <1>3 DEF Abs!Refuse, Contents, Get, MapGet, current_seq
<1>4. CASE Clear
  <2>1. current_seq' = current_seq + 1
    <3>1. /\ counters'.epoch_start = current_seq + 1
          /\ Len(changelog') = 0
      BY <1>4 DEF Clear, Inv, TypeOK
    <3> QED
      BY <1>0, <3>1 DEF current_seq
  <2>2. DOMAIN key_index' = {}
    BY <1>4 DEF Clear, EmptyMap
  <2>3. Contents' = Abs!EmptyMap
    BY <2>2 DEF Contents, Abs!EmptyMap
  <2> QED
    BY <1>4, <2>1, <2>3 DEF Clear, Abs!Clear
<1>5. CASE Compact
  <2>1. current_seq' = current_seq
    <3>1. /\ counters'.epoch_start = current_seq
          /\ Len(changelog') = 0
      BY <1>5 DEF Compact, Inv, TypeOK
    <3> QED
      BY <1>0, <3>1 DEF current_seq
  <2>2. Contents' = Contents
    BY <1>5 DEF Compact, Contents, Get, MapGet
  <2> QED
    BY <1>5, <2>1, <2>2 DEF Compact, Abs!Nothing
<1>6. CASE UNCHANGED serverVars
  BY <1>6 DEF serverVars, Contents, Get, MapGet, current_seq
<1>7. ASSUME NEW k \in Key, NEW v \in Value, UndoneInsert(k, v)
      PROVE  Abs!Refuse
  <2>1. UNCHANGED <<key_index, value_store, changelog, counters>>
    BY <1>7, UndoneInsertChangesNothing DEF Inv
  <2> QED
    BY <1>3, <1>7, <2>1 DEF UndoneInsert
<1>8. ASSUME NEW k \in Key, UndoneRemove(k)
      PROVE  Abs!Refuse
  <2>1. UNCHANGED <<key_index, value_store, changelog, counters>>
    BY <1>8, UndoneRemoveChangesNothing DEF Inv
  <2> QED
    BY <1>3, <1>8, <2>1 DEF UndoneRemove
<1> QED
  BY <1>1, <1>2, <1>4, <1>5, <1>6, <1>7, <1>8 DEF ServerNext, TryInsert, TryRemove

(* RepLogMap implements the versioned map: behind every call there is the  *)
(* same call on one plain map with a version number.                       *)
THEOREM RepLogImplementsVersionedMap == Spec => ImplementsVersionedMap
<1>1. Init => Abs!Init
  <2> SUFFICES ASSUME Init PROVE Abs!Init
    OBVIOUS
  <2>1. DOMAIN key_index = {}
    BY DEF Init, EmptyMap
  <2>2. Contents = Abs!EmptyMap
    BY <2>1 DEF Contents, Abs!EmptyMap
  <2>3. current_seq = 0
    BY DEF Init, current_seq
  <2> QED
    BY <2>2, <2>3 DEF Init, Abs!Init
<1>2. Inv /\ Inv' /\ [ServerNext]_serverVars => [Abs!Next]_(Abs!vars)
  BY StepImplements
<1>3. Spec => []Inv
  BY InitInv, NextInv, PTL DEF Spec
<1> QED
  BY <1>1, <1>2, <1>3, PTL DEF Spec, ImplementsVersionedMap, Abs!Spec

===============================================================================
