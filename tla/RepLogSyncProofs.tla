---------------------------- MODULE RepLogSyncProofs ----------------------------
(***************************************************************************)
(* Proofs about a client that replicates a RepLogMap, for all keys,        *)
(* values, page sizes and numbers of lost answers: the types, that every   *)
(* difference between the replica and the map is a change the client has   *)
(* yet to fetch, and that a client that has caught up has the map.  The    *)
(* last two are about the pattern of docs/src/replog-spec.md, the first    *)
(* sequence number of a snapshot.                                          *)
(***************************************************************************)
EXTENDS RepLogSync, RepLogProofs, WellFoundedInduction

TableRow == [entry_id : Nat, key : Key, value : Value \cup {NoValue}]
Change == [kind : {"Upsert", "Delete"}, entry_id : Nat, key : Key,
           value : Value \cup {NoValue}]

(* What an answer under way looks like and in which mode of the client. *)
AnswerFits ==
  /\ response.answer = "page" =>
       /\ mode = "snapshot"
       /\ response.rows \subseteq TableRow
       /\ response.seq \in Nat
       /\ \A r \in response.rows : r.key > after
  /\ response.answer = "changes" =>
       /\ mode = "live"
       /\ response.entries \in Seq(Change)
       /\ response.next_seq \in Nat
  /\ response.answer = "resync" => mode = "live"

(* The part of the inductive invariant that holds for both patterns.  Inv  *)
(* is the one of RepLogProofs: that the last change of an id tells its     *)
(* fate is what makes a batch of changes repair a row.                     *)
ClientInv == Inv /\ current_seq =< MaxSeq /\ SyncTypeOK /\ AnswerFits

(* The inductive invariant. *)
SyncInv == ClientInv /\ DifferencesArePending

-------------------------------------------------------------------------------
(* A set of positions that is not empty has a last one. *)
LEMMA LastOf ==
  ASSUME NEW n \in Nat, NEW S \in SUBSET (1..n), S # {}
  PROVE  \E m \in S : \A k \in S : k =< m
<1> DEFINE Less == {ss \in Nat \X Nat : ss[1] < ss[2]}
           T == {n - k : k \in S}
<1>1. IsWellFoundedOn(Less, Nat)
  BY NatLessThanWellFounded DEF OpToRel
<1>2. T \subseteq Nat /\ T # {}
  <2>1. \A k \in S : n - k \in Nat
    OBVIOUS
  <2> QED
    BY <2>1
<1>3. PICK x \in T : \A y \in T : ~(<<y, x>> \in Less)
  <2> HIDE DEF Less, T
  <2> QED
    BY <1>1, <1>2, WFMin
<1>4. ASSUME NEW y \in T
      PROVE  x =< y
  <2>1. x \in Nat /\ y \in Nat
    BY <1>2
  <2>2. ~(y < x)
    BY <1>3, <2>1
  <2> QED
    BY <2>1, <2>2
<1>5. PICK m \in S : x = n - m
  OBVIOUS
<1>6. ASSUME NEW k \in S
      PROVE  k =< m
  <2>1. n - m =< n - k
    BY <1>4, <1>5
  <2>2. n \in Nat /\ m \in Nat /\ k \in Nat
    OBVIOUS
  <2> HIDE DEF T, Less
  <2> QED
    BY <2>1, <2>2, SMTT(30)
<1> QED
  BY <1>6

(* Rows of the map, by their fields. *)
LEMMA RowsAre ==
  ASSUME Inv
  PROVE  /\ Rows \subseteq [entry_id : Nat, key : Key, value : Value]
         /\ \A r \in Rows : /\ r.key \in DOMAIN key_index
                            /\ r.entry_id = key_index[r.key]
                            /\ r.entry_id \in DOMAIN value_store
                            /\ r = Row(r.key)
         /\ \A k \in DOMAIN key_index : Row(k) \in Rows /\ Row(k).key = k
<1>1. ASSUME NEW k \in DOMAIN key_index
      PROVE  /\ key_index[k] \in Nat /\ k \in Key
             /\ key_index[k] \in DOMAIN value_store
             /\ value_store[key_index[k]] \in Value
             /\ Row(k).key = k /\ Row(k).entry_id = key_index[k]
             /\ Row(k) \in [entry_id : Nat, key : Key, value : Value]
  <2>1. key_index[k] \in Nat /\ k \in Key
    BY DEF Inv, TypeOK, IsMap
  <2>2. key_index[k] \in DOMAIN value_store
    BY DEF Inv, IndexConsistent
  <2>3. value_store[key_index[k]] \in Value
    BY <2>2 DEF Inv, TypeOK, IsMap
  <2> QED
    BY <2>1, <2>2, <2>3 DEF Row
<1> QED
  BY <1>1 DEF Rows

(* Two rows with one entry id are one row. *)
LEMMA OneRowPerId ==
  ASSUME Inv, NEW q \in Rows, NEW r \in Rows, q.entry_id = r.entry_id
  PROVE  q = r
<1>1. q.key = r.key
  BY RowsAre DEF Inv, IndexConsistent
<1> QED
  BY <1>1, RowsAre

-------------------------------------------------------------------------------
(* The steps of the server, as a client sees them. *)

(* A change is logged, and only the row it is about differs. *)
LogsOne(e) ==
  /\ current_seq < MaxSeq
  /\ changelog' = Append(changelog, e)
  /\ counters'.epoch_start = counters.epoch_start
  /\ \A r : r.entry_id # e.entry_id => (r \in Rows' <=> r \in Rows)

LEMMA InsertLogs ==
  ASSUME Inv, NEW k \in Key, NEW v \in Value, Insert(k, v)
  PROVE  \E e \in ChangeEntry : LogsOne(e)
<1> DEFINE id == IF k \in DOMAIN key_index THEN key_index[k]
                                           ELSE counters.next_entry_id
           e == Entry("Upsert", id, k)
<1>1. /\ id \in Nat /\ e \in ChangeEntry /\ e.entry_id = id
      /\ changelog' = Append(changelog, e)
      /\ current_seq < MaxSeq
  BY DEF Insert, Inv, TypeOK, IsMap, Entry, ChangeEntry
<1>2. counters'.epoch_start = counters.epoch_start
  BY DEF Insert, Inv, TypeOK
<1>3. /\ DOMAIN key_index' = DOMAIN key_index \cup {k}
      /\ key_index'[k] = id
      /\ \A j \in DOMAIN key_index : j # k => key_index'[j] = key_index[j]
      /\ \A i : i # id => value_store'[i] = value_store[i] \/ i \notin DOMAIN value_store'
  BY Zenon DEF Insert, MapInsert
<1>4. DOMAIN value_store' = DOMAIN value_store \cup {id}
  BY DEF Insert, MapInsert
<1>5. \A j \in DOMAIN key_index : key_index[j] \in DOMAIN value_store
  BY DEF Inv, IndexConsistent
<1>6. k \in DOMAIN key_index => key_index[k] = id
  OBVIOUS
<1> HIDE DEF id, e
<1>7. ASSUME NEW j \in DOMAIN key_index, key_index[j] # id
      PROVE  j \in DOMAIN key_index' /\ Row(j)' = Row(j)
  <2>1. j # k
    BY <1>6, <1>7
  <2>2. value_store'[key_index[j]] = value_store[key_index[j]]
    BY <1>3, <1>4, <1>5, <1>7
  <2> QED
    BY <1>3, <2>1, <2>2 DEF Row
<1>8. ASSUME NEW j \in DOMAIN key_index', key_index'[j] # id
      PROVE  j \in DOMAIN key_index /\ key_index[j] # id
  BY <1>3, <1>8
<1>9. ASSUME NEW r, r.entry_id # id, r \in Rows
      PROVE  r \in Rows'
  <2>1. PICK j \in DOMAIN key_index : r = Row(j)
    BY <1>9 DEF Rows
  <2>2. key_index[j] # id
    BY <1>9, <2>1 DEF Row
  <2> QED
    BY <1>7, <2>1, <2>2 DEF Rows
<1>10. ASSUME NEW r, r.entry_id # id, r \in Rows'
       PROVE  r \in Rows
  <2>1. PICK j \in DOMAIN key_index' : r = Row(j)'
    BY <1>10 DEF Rows
  <2>2. key_index'[j] # id
    BY <1>10, <2>1 DEF Row
  <2> QED
    BY <1>7, <1>8, <2>1, <2>2 DEF Rows
<1> QED
  BY <1>1, <1>2, <1>9, <1>10, Zenon DEF LogsOne

LEMMA RemoveLogs ==
  ASSUME Inv, NEW k \in Key, k \in DOMAIN key_index, Remove(k)
  PROVE  \E e \in ChangeEntry : LogsOne(e)
<1> DEFINE id == key_index[k]
           e == Entry("Delete", id, k)
<1>1. /\ id \in Nat /\ e \in ChangeEntry /\ e.entry_id = id
      /\ changelog' = Append(changelog, e)
      /\ current_seq < MaxSeq
      /\ counters' = counters
      /\ key_index' = MapRemove(key_index, k)
      /\ value_store' = MapRemove(value_store, id)
  BY DEF Remove, Inv, TypeOK, IsMap, Entry, ChangeEntry
<1>2. \A j \in DOMAIN key_index : key_index[j] \in DOMAIN value_store
  BY DEF Inv, IndexConsistent
<1>3. \A j \in DOMAIN key_index : j # k => key_index[j] # id
  BY DEF Inv, IndexConsistent
<1> HIDE DEF id, e
<1>4. DOMAIN key_index' = DOMAIN key_index \ {k}
  BY <1>1 DEF MapRemove
<1>5. ASSUME NEW j \in DOMAIN key_index'
      PROVE  Row(j)' = Row(j)
  <2>1. j # k /\ j \in DOMAIN key_index /\ key_index'[j] = key_index[j]
    BY <1>1, <1>4 DEF MapRemove
  <2>2. value_store'[key_index[j]] = value_store[key_index[j]]
    BY <1>1, <1>2, <1>3, <2>1 DEF MapRemove
  <2> QED
    BY <2>1, <2>2 DEF Row
<1>6. ASSUME NEW r, r.entry_id # id, r \in Rows
      PROVE  r \in Rows'
  <2>1. PICK j \in DOMAIN key_index : r = Row(j)
    BY <1>6 DEF Rows
  <2>2. j # k
    BY <1>6, <2>1 DEF Row, id
  <2>3. j \in DOMAIN key_index'
    BY <1>4, <2>2
  <2> QED
    BY <1>5, <2>1, <2>3 DEF Rows
<1>7. ASSUME NEW r, r \in Rows'
      PROVE  r \in Rows
  BY <1>4, <1>5, <1>7 DEF Rows
<1> QED
  BY <1>1, <1>6, <1>7, Zenon DEF LogsOne

(* A step of the server logs a change, clears, compacts or changes         *)
(* nothing a client can see.                                               *)
LEMMA ServerStep ==
  ASSUME Inv, ServerNext
  PROVE  \/ UNCHANGED <<key_index, value_store, changelog, counters>>
         \/ \E e \in ChangeEntry : LogsOne(e)
         \/ Clear
         \/ Compact
<1>1. ASSUME NEW k \in Key, NEW v \in Value, TryInsert(k, v)
      PROVE  \/ UNCHANGED <<key_index, value_store, changelog, counters>>
             \/ \E e \in ChangeEntry : LogsOne(e)
  BY <1>1, InsertLogs, UndoneInsertChangesNothing DEF TryInsert, Inv
<1>2. ASSUME NEW k \in Key, TryRemove(k)
      PROVE  \/ UNCHANGED <<key_index, value_store, changelog, counters>>
             \/ \E e \in ChangeEntry : LogsOne(e)
  <2>1. CASE Remove(k) /\ k \in DOMAIN key_index
    BY <2>1, RemoveLogs
  <2>2. CASE Remove(k) /\ k \notin DOMAIN key_index
    BY <2>2 DEF Remove
  <2>3. CASE UndoneRemove(k)
    BY <2>3, UndoneRemoveChangesNothing DEF Inv
  <2> QED
    BY <1>2, <2>1, <2>2, <2>3 DEF TryRemove
<1> QED
  BY <1>1, <1>2 DEF ServerNext

(* The numbers of the sequence. *)
LEMMA SeqTypes ==
  ASSUME TypeOK
  PROVE  /\ Len(changelog) \in Nat /\ counters.epoch_start \in Nat
         /\ current_seq \in Nat
         /\ current_seq = counters.epoch_start + Len(changelog)
         /\ \A i \in 1..Len(changelog) : changelog[i] \in ChangeEntry
  BY DEF TypeOK, current_seq

(* A table that agrees with the map from s on still does after a change:   *)
(* the change is after s, so the row it is about is pending now.           *)
LEMMA ChangeKeepsAgreement ==
  ASSUME Inv, NEW e \in ChangeEntry, LogsOne(e),
         NEW table, NEW s \in Int, NEW K, AgreesFrom(table, s, K)
  PROVE  AgreesFrom(table, s, K)'
<1> SUFFICES ASSUME s >= counters'.epoch_start
             PROVE  /\ s =< current_seq'
                    /\ \A r \in table : r \notin Rows' => Pending(r.entry_id, s)'
                    /\ \A r \in Rows' : r.key \in K /\ r \notin table
                                            => Pending(r.entry_id, s)'
  BY DEF AgreesFrom
<1>1. /\ Len(changelog) \in Nat /\ counters.epoch_start \in Nat
      /\ current_seq \in Nat
      /\ current_seq = counters.epoch_start + Len(changelog)
      /\ changelog \in Seq(ChangeEntry)
  BY SeqTypes DEF Inv, TypeOK
<1>2. /\ Len(changelog') = Len(changelog) + 1
      /\ \A i \in 1..Len(changelog) : changelog'[i] = changelog[i]
      /\ changelog'[Len(changelog) + 1] = e
      /\ counters'.epoch_start = counters.epoch_start
  BY <1>1, AppendProperties DEF LogsOne
<1>3. /\ s =< current_seq
      /\ \A r \in table : r \notin Rows => Pending(r.entry_id, s)
      /\ \A r \in Rows : r.key \in K /\ r \notin table => Pending(r.entry_id, s)
  BY <1>2 DEF AgreesFrom
<1>4. s =< current_seq'
  <2>1. current_seq' = counters.epoch_start + Len(changelog) + 1
    BY <1>1, <1>2 DEF current_seq
  <2> QED
    BY <1>1, <1>3, <2>1
<1>5. ASSUME NEW id, Pending(id, s)
      PROVE  Pending(id, s)'
  BY <1>1, <1>2, <1>5 DEF Pending
<1>6. Pending(e.entry_id, s)'
  <2>1. /\ Len(changelog) + 1 \in 1..Len(changelog')
        /\ Len(changelog) + 1 > s - counters'.epoch_start
    BY <1>1, <1>2, <1>3
  <2> QED
    BY <1>2, <2>1 DEF Pending
<1>7. \A r : r.entry_id # e.entry_id => (r \in Rows' <=> r \in Rows)
  BY DEF LogsOne
<1>8. ASSUME NEW r \in table, r \notin Rows'
      PROVE  Pending(r.entry_id, s)'
  <2>1. CASE r.entry_id = e.entry_id
    BY <1>6, <2>1
  <2>2. CASE r.entry_id # e.entry_id
    <3>1. Pending(r.entry_id, s)
      BY <1>3, <1>7, <1>8, <2>2
    <3> QED
      BY <1>5, <3>1
  <2> QED
    BY <2>1, <2>2
<1>9. ASSUME NEW r \in Rows', r.key \in K, r \notin table
      PROVE  Pending(r.entry_id, s)'
  <2>1. CASE r.entry_id = e.entry_id
    BY <1>6, <2>1
  <2>2. CASE r.entry_id # e.entry_id
    <3>1. Pending(r.entry_id, s)
      BY <1>3, <1>7, <1>9, <2>2
    <3> QED
      BY <1>5, <3>1
  <2> QED
    BY <2>1, <2>2
<1> QED
  BY <1>4, <1>8, <1>9

(* After a clear the changelog reaches back to no earlier number, and      *)
(* after a compaction only to the current one, where nothing is pending.   *)
LEMMA ClearKeepsAgreement ==
  ASSUME Inv, Clear \/ Compact,
         NEW table, NEW s \in Int, NEW K, AgreesFrom(table, s, K)
  PROVE  AgreesFrom(table, s, K)'
<1>1. /\ Len(changelog) \in Nat /\ counters.epoch_start \in Nat
      /\ current_seq \in Nat
      /\ current_seq = counters.epoch_start + Len(changelog)
  BY SeqTypes DEF Inv
<1>2. s >= counters.epoch_start => s =< current_seq
  BY DEF AgreesFrom
<1>3. CASE Clear
  <2>1. counters'.epoch_start = current_seq + 1
    BY <1>3 DEF Clear, Inv, TypeOK
  <2>2. ~(s >= counters'.epoch_start)
    BY <1>1, <1>2, <2>1
  <2> QED
    BY <2>2 DEF AgreesFrom
<1>4. CASE Compact
  <2>1. counters'.epoch_start = current_seq /\ changelog' = <<>>
    BY <1>4 DEF Compact, Inv, TypeOK
  <2>2. CASE s >= counters'.epoch_start
    <3>1. s = current_seq /\ s >= counters.epoch_start
      BY <1>1, <1>2, <2>1, <2>2
    <3>2. \A id : ~Pending(id, s)
      BY <1>1, <3>1 DEF Pending
    <3>3. /\ \A r \in table : r \in Rows
          /\ \A r \in Rows : r.key \in K => r \in table
      BY <3>1, <3>2 DEF AgreesFrom
    <3>4. Rows' = Rows
      BY <1>4, Zenon DEF Compact, Rows, Row
    <3>5. s =< current_seq'
      <4>1. Len(changelog') = 0
        BY <2>1
      <4> QED
        BY <1>1, <2>1, <3>1, <4>1 DEF current_seq
    <3> QED
      BY <3>3, <3>4, <3>5, Zenon DEF AgreesFrom
  <2>3. CASE ~(s >= counters'.epoch_start)
    BY <2>3 DEF AgreesFrom
  <2> QED
    BY <2>2, <2>3
<1> QED
  BY <1>3, <1>4

(* The server never makes a table disagree with the map beyond what is     *)
(* pending.                                                                *)
LEMMA ServerKeepsAgreement ==
  ASSUME Inv, ServerNext,
         NEW table, NEW s \in Int, NEW K, AgreesFrom(table, s, K)
  PROVE  AgreesFrom(table, s, K)'
<1>1. CASE UNCHANGED <<key_index, value_store, changelog, counters>>
  <2>1. Rows' = Rows /\ current_seq' = current_seq
    BY <1>1, Zenon DEF Rows, Row, current_seq
  <2>2. \A id : Pending(id, s)' <=> Pending(id, s)
    BY <1>1, Zenon DEF Pending
  <2> QED
    BY <1>1, <2>1, <2>2 DEF AgreesFrom
<1>2. CASE \E e \in ChangeEntry : LogsOne(e)
  BY <1>2, ChangeKeepsAgreement
<1>3. CASE Clear \/ Compact
  BY <1>3, ClearKeepsAgreement
<1> QED
  BY <1>1, <1>2, <1>3, ServerStep, Zenon

-------------------------------------------------------------------------------
(* The answers of the server. *)

(* Entries are the changes after the offset up to end, with the values of  *)
(* now.                                                                    *)
IsBatch(entries, offset, end) ==
  /\ offset \in Nat /\ end \in Nat /\ offset =< end /\ end =< Len(changelog)
  /\ entries \in Seq(Change)
  /\ Len(entries) = end - offset
  /\ \A i \in 1..(end - offset) : entries[i] = WithValue(changelog[offset + i])

(* The value of a change has its type. *)
LEMMA WithValueType ==
  ASSUME Inv, NEW e \in ChangeEntry
  PROVE  /\ WithValue(e) \in Change
         /\ WithValue(e).entry_id = e.entry_id
         /\ WithValue(e).kind = e.kind
         /\ WithValue(e).key = e.key
<1>1. Get(e.key) \in Value \cup {NoValue}
  BY DEF Get, MapGet, Inv, TypeOK, IsMap
<1>2. /\ e.kind \in {"Upsert", "Delete"}
      /\ e.entry_id \in Nat
      /\ e.key \in Key
  BY DEF ChangeEntry
<1> QED
  BY <1>1, <1>2 DEF WithValue, Change

(* After a batch nothing disagrees but what is pending after the batch.    *)
(* The point is an id with a change in the batch and none later: the last  *)
(* of its changes tells what the map holds now, and the client applies it  *)
(* with the value of now.                                                  *)
LEMMA BatchRepairs ==
  ASSUME Inv, NEW table, NEW entries, NEW offset, NEW end,
         IsBatch(entries, offset, end),
         AgreesFrom(table, counters.epoch_start + offset, Key)
  PROVE  AgreesFrom(Apply(table, entries), counters.epoch_start + end, Key)
<1> DEFINE epoch == counters.epoch_start
           n == end - offset
           Final(i) == \A j \in 1..Len(entries) :
                         j > i => entries[j].entry_id # entries[i].entry_id
           Untouched(r) == \A i \in 1..Len(entries) : entries[i].entry_id # r.entry_id
           New(i) == [entry_id |-> entries[i].entry_id, key |-> entries[i].key,
                      value |-> entries[i].value]
<1>1. /\ Len(changelog) \in Nat /\ epoch \in Nat
      /\ current_seq = epoch + Len(changelog)
      /\ \A i \in 1..Len(changelog) : changelog[i] \in ChangeEntry
  BY SeqTypes DEF Inv
<1>2. /\ offset \in Nat /\ end \in Nat /\ offset =< end /\ end =< Len(changelog)
      /\ n \in Nat /\ Len(entries) = n
      /\ \A i \in 1..n : entries[i] = WithValue(changelog[offset + i])
  BY DEF IsBatch
<1>3. \A i \in 1..n : offset + i \in 1..Len(changelog)
  BY <1>1, <1>2
<1>4. \A i \in 1..n : /\ entries[i].entry_id = changelog[offset + i].entry_id
                      /\ entries[i].kind = changelog[offset + i].kind
                      /\ entries[i].key = changelog[offset + i].key
  BY <1>1, <1>2, <1>3, WithValueType
<1>5. Apply(table, entries) =
        {r \in table : Untouched(r)}
          \cup {New(i) : i \in {j \in 1..Len(entries) : entries[j].kind = "Upsert" /\ Final(j)}}
  BY Zenon DEF Apply
<1>6. /\ \A r \in table : r \notin Rows => Pending(r.entry_id, epoch + offset)
      /\ \A r \in Rows : r \notin table => Pending(r.entry_id, epoch + offset)
  <2>1. epoch + offset >= epoch
    BY <1>1, <1>2
  <2>2. \A r \in Rows : r.key \in Key
    BY RowsAre
  <2> QED
    BY <2>1, <2>2 DEF AgreesFrom
<1>7. \A id : \A m \in Nat :
        Pending(id, epoch + m) <=>
          \E i \in 1..Len(changelog) : i > m /\ changelog[i].entry_id = id
  <2>1. \A m \in Nat : (epoch + m) - epoch = m
    BY <1>1
  <2> QED
    BY <2>1 DEF Pending
<1> HIDE DEF n, Final, Untouched, New
(* A final change of the batch is pending after it or is the last one. *)
<1>8. ASSUME NEW i \in 1..n, Final(i), ~Pending(entries[i].entry_id, epoch + end)
      PROVE  IF entries[i].kind = "Upsert"
             THEN New(i) \in Rows
             ELSE entries[i].entry_id \notin DOMAIN value_store
  <2> DEFINE e == changelog[offset + i]
  <2>1. offset + i \in 1..Len(changelog) /\ e \in ChangeEntry
    BY <1>1, <1>3
  <2>2. ASSUME NEW j \in 1..Len(changelog), j > offset + i
        PROVE  changelog[j].entry_id # e.entry_id
    <3>1. CASE j > end
      BY <1>2, <1>4, <1>7, <1>8, <3>1
    <3>2. CASE j =< end
      <4>1. j - offset \in 1..n /\ j - offset > i /\ offset + (j - offset) = j
        BY <1>2, <2>2, <3>2 DEF n
      <4>2. entries[j - offset].entry_id # entries[i].entry_id
        BY <1>2, <1>8, <4>1 DEF Final
      <4> QED
        BY <1>4, <4>1, <4>2
    <3> QED
      BY <1>1, <1>2, <3>1, <3>2
  <2>3. IF e.kind = "Upsert"
        THEN e.key \in DOMAIN key_index /\ key_index[e.key] = e.entry_id
        ELSE e.entry_id \notin DOMAIN value_store
    BY <2>1, <2>2 DEF Inv, LastChangeTellsState
  <2>4. CASE e.kind = "Upsert"
    <3>1. entries[i].value = Get(e.key)
      BY <1>2, <2>4 DEF WithValue
    <3>2. Get(e.key) = value_store[key_index[e.key]]
      BY <2>3, <2>4 DEF Get, MapGet, Inv, IndexConsistent
    <3>3. New(i) = Row(e.key)
      BY <1>4, <2>3, <2>4, <3>1, <3>2 DEF New, Row
    <3> QED
      BY <1>4, <2>3, <2>4, <3>3 DEF Rows
  <2>5. CASE e.kind # "Upsert"
    BY <1>4, <2>3, <2>5
  <2> QED
    BY <2>4, <2>5
<1>9. ASSUME NEW r \in Apply(table, entries), r \notin Rows
      PROVE  Pending(r.entry_id, epoch + end)
  <2>1. CASE r \in table /\ Untouched(r)
    <3>1. PICK i \in 1..Len(changelog) : i > offset /\ changelog[i].entry_id = r.entry_id
      BY <1>2, <1>6, <1>7, <1>9, <2>1
    <3>2. i > end
      <4> SUFFICES ASSUME i =< end PROVE FALSE
        BY <1>2
      <4>1. i - offset \in 1..n /\ offset + (i - offset) = i
        BY <1>2, <3>1 DEF n
      <4>2. entries[i - offset].entry_id = r.entry_id
        BY <1>4, <3>1, <4>1
      <4> QED
        BY <1>2, <2>1, <4>1, <4>2 DEF Untouched
    <3> QED
      BY <1>2, <1>7, <3>1, <3>2
  <2>2. CASE \E i \in 1..n : entries[i].kind = "Upsert" /\ Final(i) /\ r = New(i)
    <3>1. PICK i \in 1..n : entries[i].kind = "Upsert" /\ Final(i) /\ r = New(i)
      BY <2>2
    <3>2. r.entry_id = entries[i].entry_id
      BY <3>1 DEF New
    <3> QED
      BY <1>8, <1>9, <3>1, <3>2
  <2> QED
    BY <1>2, <1>5, <1>9, <2>1, <2>2
<1>10. ASSUME NEW r \in Rows, r \notin Apply(table, entries)
       PROVE  Pending(r.entry_id, epoch + end)
  <2> DEFINE S == {i \in 1..n : entries[i].entry_id = r.entry_id}
  <2>1. CASE S = {}
    <3>1. Untouched(r)
      BY <1>2, <2>1 DEF Untouched
    <3>2. r \notin table
      BY <1>5, <1>10, <3>1
    <3>3. PICK i \in 1..Len(changelog) : i > offset /\ changelog[i].entry_id = r.entry_id
      BY <1>2, <1>6, <1>7, <3>2
    <3>4. i > end
      <4> SUFFICES ASSUME i =< end PROVE FALSE
        BY <1>2
      <4>1. i - offset \in 1..n /\ offset + (i - offset) = i
        BY <1>2, <3>3 DEF n
      <4>2. entries[i - offset].entry_id = r.entry_id
        BY <1>4, <3>3, <4>1
      <4> QED
        BY <2>1, <4>1, <4>2
    <3> QED
      BY <1>2, <1>7, <3>3, <3>4
  <2>2. CASE S # {}
    <3>1. PICK i \in S : \A j \in S : j =< i
      <4>1. S \in SUBSET (1..n)
        OBVIOUS
      <4> HIDE DEF S
      <4> QED
        BY <1>2, <2>2, <4>1, LastOf
    <3>2. i \in 1..n /\ entries[i].entry_id = r.entry_id /\ Final(i)
      BY <1>2, <3>1 DEF Final
    <3> SUFFICES ASSUME ~Pending(r.entry_id, epoch + end)
                 PROVE  FALSE
      OBVIOUS
    <3>3. IF entries[i].kind = "Upsert"
          THEN New(i) \in Rows
          ELSE entries[i].entry_id \notin DOMAIN value_store
      BY <1>8, <3>2
    <3>4. entries[i].kind = "Upsert" /\ New(i) \in Rows
      BY <3>2, <3>3, RowsAre
    <3>5. New(i) = r
      BY <3>2, <3>4, OneRowPerId DEF New
    <3> QED
      BY <1>2, <1>5, <1>10, <3>2, <3>4, <3>5
  <2> QED
    BY <2>1, <2>2
<1>11. epoch + end =< current_seq
  BY <1>1, <1>2
<1> QED
  BY <1>9, <1>10, <1>11 DEF AgreesFrom

(* What changes_with_values_since answers to a client: start again, or a   *)
(* batch that begins at its cursor.  The sum offset + limit stays within a *)
(* u64, so it does not trap.                                               *)
LEMMA ChangesAnswer ==
  ASSUME ClientInv
  PROVE  LET resp == ChangesWithValuesSince(cursor, Limit) IN
         \/ cursor < counters.epoch_start /\ resp = [answer |-> "resync"]
         \/ /\ cursor >= counters.epoch_start
            /\ resp.answer = "changes"
            /\ resp.next_seq \in Nat
            /\ \E offset, end \in Nat :
                 /\ IsBatch(resp.entries, offset, end)
                 /\ resp.next_seq = counters.epoch_start + end
                 /\ cursor =< current_seq => cursor = counters.epoch_start + offset
<1> DEFINE epoch == counters.epoch_start
           n == Len(changelog)
           plain == ChangesSince(cursor, Limit)
           resp == ChangesWithValuesSince(cursor, Limit)
           start == cursor - epoch
           end == IF start + Limit < n THEN start + Limit ELSE n
<1>1. /\ n \in Nat /\ epoch \in Nat /\ current_seq = epoch + n /\ current_seq =< MaxSeq
      /\ changelog \in Seq(ChangeEntry)
      /\ \A i \in 1..n : changelog[i] \in ChangeEntry
  BY SeqTypes DEF ClientInv, Inv, TypeOK
<1>2. cursor \in Int /\ Limit \in Nat \ {0} /\ MaxSeq + Limit =< MaxU64
      /\ MaxSeq \in Nat /\ MaxU64 \in Nat
  BY LimitAssumption, BoundAssumption DEF ClientInv, SyncTypeOK
<1>3. CASE cursor < epoch
  BY <1>3 DEF ChangesWithValuesSince, ChangesSince
<1>4. CASE cursor >= epoch /\ start >= n
  <2>1. plain = [answer |-> "changes", entries |-> <<>>, next_seq |-> current_seq]
    BY <1>1, <1>2, <1>4 DEF ChangesSince
  <2>2. resp = [answer |-> "changes", entries |-> [i \in 1..0 |-> WithValue(<<>>[i])],
                next_seq |-> current_seq]
    <3> HIDE DEF plain
    <3>1. /\ plain.answer = "changes" /\ Len(plain.entries) = 0
          /\ plain.entries = <<>>
      BY <2>1
    <3>2. resp = [plain EXCEPT !.entries = [i \in 1..0 |-> WithValue(<<>>[i])]]
      BY <3>1 DEF ChangesWithValuesSince, plain
    <3> QED
      BY <2>1, <3>2
  <2>3. resp.entries = <<>> /\ Len(resp.entries) = 0
    BY <2>2
  <2>4. resp.answer = "changes" /\ resp.next_seq = epoch + n
    BY <1>1, <2>2
  <2>5. IsBatch(resp.entries, n, n)
    <3> HIDE DEF resp, n
    <3> QED
      BY <1>1, <2>3 DEF IsBatch, n
  <2>6. cursor =< current_seq => cursor = epoch + n
    BY <1>1, <1>2, <1>4
  <2> QED
    BY <1>1, <1>4, <2>4, <2>5, <2>6
<1>5. CASE cursor >= epoch /\ start < n
  <2> HIDE DEF n, epoch, end
  <2>0. start \in Nat /\ start < n /\ cursor = epoch + start
    BY <1>1, <1>2, <1>5
  <2> HIDE DEF start
  <2>1. end \in Nat /\ start < end /\ end =< n /\ ~(start + Limit > MaxU64)
    <3>1. start + Limit \in Nat /\ start < start + Limit
      BY <1>2, <2>0
    <3>2. start + Limit =< MaxSeq + Limit
      BY <1>1, <1>2, <2>0
    <3> QED
      BY <1>1, <1>2, <2>0, <3>1, <3>2 DEF end
  <2>2. plain = [answer |-> "changes", entries |-> SubSeq(changelog, start + 1, end),
                 next_seq |-> cursor + (end - start)]
    <3>1. ~(cursor < epoch) /\ ~(start >= n)
      BY <1>1, <1>2, <1>5, <2>0
    <3> QED
      BY <2>1, <3>1, Zenon DEF ChangesSince, start, end, n, epoch
  <2>3. /\ Len(SubSeq(changelog, start + 1, end)) = end - start
        /\ \A i \in 1..(end - start) :
             SubSeq(changelog, start + 1, end)[i] = changelog[start + i]
    <3>1. start + 1 \in 1..(n + 1) /\ end \in start..n
      BY <1>1, <2>0, <2>1
    <3> QED
      BY <1>1, <2>0, <2>1, <3>1 DEF n
  <2> DEFINE es == [i \in 1..(end - start) |-> WithValue(changelog[start + i])]
  <2>4. resp = [answer |-> "changes", entries |-> es, next_seq |-> cursor + (end - start)]
    <3> HIDE DEF plain
    <3>1. /\ plain.answer = "changes"
          /\ plain.entries = SubSeq(changelog, start + 1, end)
          /\ Len(plain.entries) = end - start
      BY <2>2, <2>3
    <3>2. [i \in 1..Len(plain.entries) |-> WithValue(plain.entries[i])] = es
      BY <2>3, <3>1
    <3>3. resp = [plain EXCEPT !.entries = es]
      BY <3>1, <3>2 DEF ChangesWithValuesSince, plain
    <3> QED
      BY <2>2, <3>3
  <2>5. ASSUME NEW i \in 1..(end - start)
        PROVE  WithValue(changelog[start + i]) \in Change
    <3>1. start + i \in 1..n
      BY <1>1, <2>0, <2>1
    <3> QED
      BY <1>1, <3>1, WithValueType DEF ClientInv
  <2>6. es \in Seq(Change) /\ Len(es) = end - start
    BY <2>0, <2>1, <2>5
  <2>7. IsBatch(es, start, end)
    BY <2>0, <2>1, <2>6 DEF IsBatch, n
  <2>8. cursor + (end - start) = epoch + end
    BY <1>1, <2>0, <2>1
  <2>9. resp.answer = "changes" /\ resp.entries = es /\ resp.next_seq = epoch + end
    BY <2>4, <2>8
  <2>10. epoch + end \in Nat
    BY <1>1, <2>1
  <2> HIDE DEF es
  <2> QED
    BY <1>5, <2>0, <2>1, <2>7, <2>9, <2>10 DEF epoch
<1> QED
  BY <1>1, <1>2, <1>3, <1>4, <1>5

(* What snapshot answers: rows of the map after the given key, none left   *)
(* out up to the last of them, and none at all if the page is not full.    *)
LEMMA PageAnswer ==
  ASSUME ClientInv, NEW taken \in SUBSET DOMAIN key_index,
         TakenAfter(after, Limit, taken)
  PROVE  LET resp == SnapshotPage(taken) IN
         /\ resp.answer = "page"
         /\ resp.seq = current_seq
         /\ resp.rows \subseteq Rows
         /\ \A r \in resp.rows : r.key > after
         /\ \A r \in Rows :
              /\ r.key > after
              /\ resp.len < Limit \/ \E q \in resp.rows : r.key =< q.key
              => r \in resp.rows
<1> DEFINE resp == SnapshotPage(taken)
           rest == {k \in DOMAIN key_index : k > after}
<1>1. {k \in taken : key_index[k] \in DOMAIN value_store} = taken
  BY DEF ClientInv, Inv, IndexConsistent
<1>2. resp = [answer |-> "page", rows |-> {Row(k) : k \in taken},
              len |-> Cardinality(taken), seq |-> current_seq]
  BY <1>1, Zenon DEF SnapshotPage
<1>3. /\ resp.answer = "page" /\ resp.rows = {Row(k) : k \in taken}
      /\ resp.len = Cardinality(taken) /\ resp.seq = current_seq
  BY <1>2
<1> HIDE DEF resp
<1>4. /\ taken \subseteq rest
      /\ \A j \in rest, k \in taken : j < k => j \in taken
      /\ Cardinality(taken) < Limit => taken = rest
  BY DEF TakenAfter
<1>5. \A k \in DOMAIN key_index : Row(k) \in Rows /\ Row(k).key = k
  BY RowsAre DEF ClientInv
<1>6. resp.rows \subseteq Rows /\ \A r \in resp.rows : r.key > after /\ r.key \in taken
  BY <1>3, <1>4, <1>5
<1>7. ASSUME NEW r \in Rows, r.key > after,
             resp.len < Limit \/ \E q \in resp.rows : r.key =< q.key
      PROVE  r \in resp.rows
  <2>1. r.key \in rest /\ r = Row(r.key)
    BY <1>7, RowsAre DEF ClientInv
  <2>2. r.key \in taken
    <3>1. CASE resp.len < Limit
      BY <1>3, <1>4, <2>1, <3>1
    <3>2. CASE \E q \in resp.rows : r.key =< q.key
      <4>1. PICK q \in resp.rows : r.key =< q.key
        BY <3>2
      <4>2. q.key \in taken /\ q.key \in Nat /\ r.key \in Nat
        BY <1>6, <2>1, KeyAssumption DEF ClientInv, Inv, TypeOK, IsMap
      <4>3. r.key = q.key \/ r.key < q.key
        BY <4>1, <4>2
      <4> QED
        BY <1>4, <2>1, <4>2, <4>3
    <3> QED
      BY <1>7, <3>1, <3>2
  <2> QED
    BY <1>3, <2>1, <2>2
<1> QED
  BY <1>3, <1>6, <1>7 DEF resp

(* The table with a page: rows of the page replace those with their ids. *)
LEMMA MergeAgrees ==
  ASSUME Inv, NEW table, NEW new, new \subseteq Rows, NEW s, NEW K, NEW L,
         AgreesFrom(table, s, K),
         \A r \in Rows : r.key \in L => r.key \in K \/ r \in new
  PROVE  AgreesFrom(Merge(table, new), s, L)
<1> SUFFICES ASSUME s >= counters.epoch_start
             PROVE  /\ s =< current_seq
                    /\ \A r \in Merge(table, new) :
                         r \notin Rows => Pending(r.entry_id, s)
                    /\ \A r \in Rows : r.key \in L /\ r \notin Merge(table, new)
                                           => Pending(r.entry_id, s)
  BY DEF AgreesFrom
<1>1. /\ s =< current_seq
      /\ \A r \in table : r \notin Rows => Pending(r.entry_id, s)
      /\ \A r \in Rows : r.key \in K /\ r \notin table => Pending(r.entry_id, s)
  BY DEF AgreesFrom
<1>2. ASSUME NEW r \in Merge(table, new), r \notin Rows
      PROVE  Pending(r.entry_id, s)
  BY <1>1, <1>2 DEF Merge
<1>3. ASSUME NEW r \in Rows, r.key \in L, r \notin Merge(table, new)
      PROVE  Pending(r.entry_id, s)
  <2>1. r \notin new
    BY <1>3 DEF Merge
  <2>2. \A q \in new : q.entry_id # r.entry_id
    BY <2>1, OneRowPerId
  <2>3. r \notin table
    BY <1>3, <2>2 DEF Merge
  <2> QED
    BY <1>1, <1>3, <2>1, <2>3
<1> QED
  BY <1>1, <1>2, <1>3

-------------------------------------------------------------------------------
(* Types, for both patterns of the client. *)

LEMMA ServerKeepsClientInv ==
  ASSUME ClientInv, ServerNext, UNCHANGED clientVars
  PROVE  ClientInv'
<1>1. Inv'
  BY NextInv DEF ClientInv
<1>2. SyncTypeOK'
  BY <1>1 DEF ClientInv, SyncTypeOK, clientVars, Inv
<1>3. AnswerFits'
  BY DEF ClientInv, AnswerFits, clientVars
<1>4. current_seq' =< MaxSeq
  <2>0. /\ Len(changelog) \in Nat /\ counters.epoch_start \in Nat
        /\ current_seq = counters.epoch_start + Len(changelog)
        /\ current_seq =< MaxSeq /\ MaxSeq \in Nat /\ changelog \in Seq(ChangeEntry)
    BY SeqTypes, BoundAssumption DEF ClientInv, Inv, TypeOK
  <2>1. CASE UNCHANGED <<key_index, value_store, changelog, counters>>
    BY <2>0, <2>1 DEF current_seq
  <2>2. CASE \E e \in ChangeEntry : LogsOne(e)
    <3>1. PICK e \in ChangeEntry : LogsOne(e)
      BY <2>2
    <3>2. Len(changelog') = Len(changelog) + 1
      BY <2>0, <3>1, AppendProperties DEF LogsOne
    <3> QED
      BY <2>0, <3>1, <3>2 DEF LogsOne, current_seq
  <2>3. CASE Clear \/ Compact
    <3>1. changelog' = <<>>
      BY <2>3 DEF Clear, Compact
    <3>2. counters \in [next_entry_id : Nat, epoch_start : Nat]
      BY DEF ClientInv, Inv, TypeOK
    <3>3. \/ counters'.epoch_start = current_seq
          \/ counters'.epoch_start = current_seq + 1 /\ current_seq < MaxSeq
      BY <2>3, <3>2 DEF Clear, Compact
    <3>4. current_seq \in Nat /\ Len(changelog') = 0
      BY <2>0, <3>1
    <3>5. current_seq' = counters'.epoch_start + Len(changelog')
      BY DEF current_seq
    <3> QED
      BY <2>0, <3>3, <3>4, <3>5
  <2> QED
    BY <2>1, <2>2, <2>3, ServerStep DEF ClientInv
<1> QED
  BY <1>1, <1>2, <1>3, <1>4 DEF ClientInv

(* An empty answer, a lost one and a poll leave the table alone. *)
LEMMA AskKeepsClientInv ==
  ASSUME ClientInv, Ask \/ Lose, UNCHANGED serverVars
  PROVE  ClientInv'
<1>1. Inv' /\ current_seq' =< MaxSeq
  BY NextInv DEF ClientInv, current_seq, serverVars
<1>2. UNCHANGED <<rows, mode, after, cursor>> /\ lost' \in 0..MaxLost
  BY LostAssumption DEF Ask, AskPage, AskChanges, Lose, ClientInv, SyncTypeOK
<1>3. CASE AskPage
  <2>1. PICK taken \in SUBSET DOMAIN key_index :
          TakenAfter(after, Limit, taken) /\ response' = SnapshotPage(taken)
    BY <1>3 DEF AskPage
  <2>2. /\ response'.answer = "page" /\ mode = "snapshot"
        /\ response'.seq \in Nat /\ response'.rows \subseteq Rows
        /\ \A r \in response'.rows : r.key > after
    BY <1>3, <2>1, PageAnswer, SeqTypes DEF AskPage, ClientInv, Inv
  <2>3. Rows \subseteq TableRow
    BY RowsAre DEF TableRow, ClientInv
  <2> QED
    BY <1>1, <1>2, <2>2, <2>3 DEF ClientInv, SyncTypeOK, AnswerFits, Inv
<1>4. CASE AskChanges
  <2>1. response' = ChangesWithValuesSince(cursor, Limit) /\ mode = "live"
    BY <1>4 DEF AskChanges
  <2>2. \/ response'.answer = "resync"
        \/ /\ response'.answer = "changes" /\ response'.next_seq \in Nat
           /\ response'.entries \in Seq(Change)
    BY <2>1, ChangesAnswer DEF IsBatch
  <2> QED
    BY <1>1, <1>2, <2>1, <2>2 DEF ClientInv, SyncTypeOK, AnswerFits, Inv
<1>5. CASE Lose
  BY <1>1, <1>2, <1>5 DEF Lose, Nothing, ClientInv, SyncTypeOK, AnswerFits, Inv
<1> QED
  BY <1>3, <1>4, <1>5 DEF Ask

LEMMA ReceiveKeepsClientInv ==
  ASSUME ClientInv, Receive, UNCHANGED serverVars
  PROVE  ClientInv'
<1>1. Inv' /\ current_seq' =< MaxSeq
  BY NextInv DEF ClientInv, current_seq, serverVars
<1>2. response' = Nothing /\ response'.answer = "nothing" /\ UNCHANGED lost
  BY DEF Receive, ReceivePage, ReceiveChanges, ReceiveResync, Nothing
<1>3. AnswerFits'
  BY <1>2 DEF AnswerFits
<1>4. /\ rows \subseteq TableRow /\ mode \in {"snapshot", "live"}
      /\ after \in Key \cup {0} /\ cursor \in Nat \cup {-1}
  BY DEF ClientInv, SyncTypeOK, TableRow
<1>5. /\ rows' \subseteq TableRow /\ mode' \in {"snapshot", "live"}
      /\ after' \in Key \cup {0} /\ cursor' \in Nat \cup {-1}
  <2>1. CASE ReceivePage
    <3>1. response.rows \subseteq TableRow /\ response.seq \in Nat
      BY <2>1 DEF ReceivePage, ClientInv, AnswerFits
    <3>2. rows' \subseteq TableRow
      BY <1>4, <2>1, <3>1 DEF ReceivePage, Merge
    <3>3. after' \in Key \cup {0}
      BY <1>4, <2>1, <3>1 DEF ReceivePage, TableRow
    <3> QED
      BY <1>4, <2>1, <3>1, <3>2, <3>3 DEF ReceivePage
  <2>2. CASE ReceiveChanges
    <3>1. response.entries \in Seq(Change) /\ response.next_seq \in Nat
      BY <2>2 DEF ReceiveChanges, ClientInv, AnswerFits
    <3>2. ASSUME NEW i \in 1..Len(response.entries)
          PROVE  [entry_id |-> response.entries[i].entry_id,
                  key |-> response.entries[i].key,
                  value |-> response.entries[i].value] \in TableRow
      <4>1. response.entries[i] \in Change
        BY <3>1
      <4> QED
        BY <4>1 DEF Change, TableRow
    <3>3. rows' \subseteq TableRow
      BY <1>4, <2>2, <3>2 DEF ReceiveChanges, Apply
    <3> QED
      BY <1>4, <2>2, <3>1, <3>3 DEF ReceiveChanges
  <2>3. CASE ReceiveResync
    BY <2>3 DEF ReceiveResync, StartFullSync
  <2> QED
    BY <2>1, <2>2, <2>3 DEF Receive
<1>6. SyncTypeOK'
  BY <1>1, <1>2, <1>5 DEF SyncTypeOK, TableRow, ClientInv, Inv
<1> QED
  BY <1>1, <1>3, <1>6 DEF ClientInv

LEMMA ClientInvInductive ==
  /\ SyncInit => ClientInv
  /\ ClientInv /\ [SyncNext]_vars => ClientInv'
<1>1. SyncInit => ClientInv
  <2> SUFFICES ASSUME SyncInit PROVE ClientInv
    OBVIOUS
  <2>1. Inv
    BY InitInv DEF SyncInit
  <2>2. current_seq =< MaxSeq
    BY BoundAssumption DEF SyncInit, Init, current_seq
  <2>3. SyncTypeOK
    BY <2>1, LostAssumption DEF SyncInit, SyncTypeOK, Nothing, Inv
  <2>4. AnswerFits
    BY DEF SyncInit, Nothing, AnswerFits
  <2> QED
    BY <2>1, <2>2, <2>3, <2>4 DEF ClientInv
<1>2. ASSUME ClientInv, [SyncNext]_vars
      PROVE  ClientInv'
  <2>1. CASE UNCHANGED vars
    <3>1. Inv' /\ current_seq' =< MaxSeq
      BY <1>2, <2>1, NextInv DEF ClientInv, current_seq, serverVars, vars
    <3>2. SyncTypeOK'
      BY <1>2, <2>1, <3>1 DEF ClientInv, SyncTypeOK, Inv, vars, clientVars
    <3>3. AnswerFits'
      BY <1>2, <2>1 DEF ClientInv, AnswerFits, vars, clientVars
    <3> QED
      BY <3>1, <3>2, <3>3 DEF ClientInv
  <2> QED
    BY <1>2, <2>1, ServerKeepsClientInv, AskKeepsClientInv, ReceiveKeepsClientInv
       DEF SyncNext
<1> QED
  BY <1>1, <1>2

(* Server and client are type correct in every reachable state, whichever  *)
(* page number the client goes on from: no query traps.                    *)
THEOREM SyncTypeCorrect == SyncSpec => []SyncTypeOK
<1>1. ClientInv => SyncTypeOK
  BY DEF ClientInv
<1> QED
  BY ClientInvInductive, <1>1, PTL DEF SyncSpec

-------------------------------------------------------------------------------
(* The keys a page under way speaks for. *)
PageKeys(page) == {k \in Key : \/ page.len < Limit
                               \/ \E r \in page.rows : k =< r.key}

(* DifferencesArePending by its parts. *)
LEMMA DifferencesByParts ==
  DifferencesArePending <=>
    /\ mode = "live" => cursor # -1 /\ AgreesFrom(rows, cursor, Key)
    /\ mode = "snapshot" =>
         /\ cursor = -1 => rows = {} /\ after = 0
         /\ cursor # -1 => AgreesFrom(rows, cursor, UpTo(after))
         /\ \A r \in rows : r.key =< after
    /\ response.answer = "changes" =>
         AgreesFrom(Apply(rows, response.entries), response.next_seq, Key)
    /\ response.answer = "page" =>
         AgreesFrom(Merge(rows, response.rows), PageCursor, PageKeys(response))
  BY Zenon DEF DifferencesArePending, PageKeys

LEMMA DifferencesByPartsNext ==
  DifferencesArePending' <=>
    /\ mode' = "live" => cursor' # -1 /\ AgreesFrom(rows, cursor, Key)'
    /\ mode' = "snapshot" =>
         /\ cursor' = -1 => rows' = {} /\ after' = 0
         /\ cursor' # -1 => AgreesFrom(rows, cursor, UpTo(after))'
         /\ \A r \in rows' : r.key =< after'
    /\ response'.answer = "changes" =>
         AgreesFrom(Apply(rows, response.entries), response.next_seq, Key)'
    /\ response'.answer = "page" =>
         AgreesFrom(Merge(rows, response.rows), PageCursor, PageKeys(response))'
  BY Zenon DEF DifferencesArePending, PageKeys

(* The client waits or the server works: an agreement is kept. *)
LEMMA ServerKeepsDifferences ==
  ASSUME SyncInv, ServerNext, UNCHANGED clientVars
  PROVE  DifferencesArePending'
<1>1. UNCHANGED <<rows, mode, after, cursor, response>>
  BY DEF clientVars
<1>2. /\ Inv /\ cursor \in Int
      /\ response.answer = "changes" => response.next_seq \in Int
      /\ response.answer = "page" => PageCursor \in Int
  BY DEF SyncInv, ClientInv, SyncTypeOK, AnswerFits, PageCursor
<1>3. PageCursor' = PageCursor
  BY <1>1 DEF PageCursor
<1>4. mode = "live" => AgreesFrom(rows, cursor, Key)'
  BY <1>1, <1>2, ServerKeepsAgreement, DifferencesByParts DEF SyncInv
<1>5. mode = "snapshot" /\ cursor # -1 => AgreesFrom(rows, cursor, UpTo(after))'
  <2>1. UpTo(after)' = UpTo(after)
    BY <1>1 DEF UpTo
  <2> QED
    BY <1>1, <1>2, <2>1, ServerKeepsAgreement, DifferencesByParts DEF SyncInv
<1>6. response.answer = "changes" =>
        AgreesFrom(Apply(rows, response.entries), response.next_seq, Key)'
  <2>1. Apply(rows, response.entries)' = Apply(rows, response.entries)
    BY <1>1
  <2> QED
    BY <1>1, <1>2, <2>1, ServerKeepsAgreement, DifferencesByParts DEF SyncInv
<1>7. response.answer = "page" =>
        AgreesFrom(Merge(rows, response.rows), PageCursor, PageKeys(response))'
  <2>1. /\ Merge(rows, response.rows)' = Merge(rows, response.rows)
        /\ PageKeys(response)' = PageKeys(response)
    BY <1>1
  <2> QED
    BY <1>1, <1>2, <1>3, <2>1, ServerKeepsAgreement, DifferencesByParts DEF SyncInv
<1> QED
  BY <1>1, <1>4, <1>5, <1>6, <1>7, DifferencesByParts, DifferencesByPartsNext
     DEF SyncInv

(* A client step leaves the map as it is, and with it every agreement. *)
LEMMA SameMap ==
  ASSUME UNCHANGED serverVars, NEW table, NEW s, NEW K
  PROVE  AgreesFrom(table, s, K)' <=> AgreesFrom(table, s, K)
<1>1. Rows' = Rows /\ current_seq' = current_seq
  BY Zenon DEF serverVars, Rows, Row, current_seq
<1>2. \A id : Pending(id, s)' <=> Pending(id, s)
  BY Zenon DEF serverVars, Pending
<1> QED
  BY <1>1, <1>2 DEF AgreesFrom, serverVars

(* A new answer fits the table of the client that asked. *)
LEMMA AskKeepsDifferences ==
  ASSUME SyncInv, Ask \/ Lose, UNCHANGED serverVars
  PROVE  DifferencesArePending'
<1>1. UNCHANGED <<rows, mode, after, cursor>>
  BY DEF Ask, AskPage, AskChanges, Lose
<1>2. /\ mode' = "live" => cursor' # -1 /\ AgreesFrom(rows, cursor, Key)'
      /\ mode' = "snapshot" =>
           /\ cursor' = -1 => rows' = {} /\ after' = 0
           /\ cursor' # -1 => AgreesFrom(rows, cursor, UpTo(after))'
           /\ \A r \in rows' : r.key =< after'
  BY <1>1, SameMap, DifferencesByParts DEF SyncInv
<1>3. CASE AskPage
  <2>1. PICK taken \in SUBSET DOMAIN key_index :
          TakenAfter(after, Limit, taken) /\ response' = SnapshotPage(taken)
    BY <1>3 DEF AskPage
  <2> DEFINE page == SnapshotPage(taken)
             s == IF cursor # -1 THEN cursor ELSE current_seq
  <2>2. /\ page.answer = "page" /\ page.seq = current_seq
        /\ page.rows \subseteq Rows
        /\ \A r \in Rows :
             /\ r.key > after
             /\ page.len < Limit \/ \E q \in page.rows : r.key =< q.key
             => r \in page.rows
    BY <2>1, PageAnswer DEF SyncInv
  <2> HIDE DEF page
  <2>3. AgreesFrom(rows, s, UpTo(after))
    <3>1. CASE cursor # -1
      BY <1>3, <3>1, DifferencesByParts DEF SyncInv, AskPage
    <3>2. CASE cursor = -1
      <4>1. rows = {} /\ after = 0 /\ s = current_seq
        BY <1>3, <3>2, DifferencesByParts DEF SyncInv, AskPage
      <4>2. UpTo(after) = {}
        <5>1. \A k \in Key : ~(k =< 0)
          BY KeyAssumption
        <5> QED
          BY <4>1, <5>1 DEF UpTo
      <4>3. current_seq =< current_seq
        BY SeqTypes DEF SyncInv, ClientInv, Inv
      <4> QED
        BY <4>1, <4>2, <4>3 DEF AgreesFrom
    <3> QED
      BY <3>1, <3>2
  <2>4. ASSUME NEW r \in Rows, r.key \in PageKeys(page)
        PROVE  r.key \in UpTo(after) \/ r \in page.rows
    <3>0. r.key \in Key
      <4>1. Rows \subseteq [entry_id : Nat, key : Key, value : Value]
        BY RowsAre DEF SyncInv, ClientInv
      <4> QED
        BY <4>1
    <3>1. r.key \in Nat /\ after \in Nat
      <4>1. after \in Key \cup {0}
        BY DEF SyncInv, ClientInv, SyncTypeOK
      <4>2. \A k \in Key \cup {0} : k \in Nat
        BY KeyAssumption
      <4> QED
        BY <3>0, <4>1, <4>2, Zenon
    <3>2. CASE r.key =< after
      BY <3>0, <3>1, <3>2 DEF UpTo
    <3>3. CASE r.key > after
      <4>1. page.len < Limit \/ \E q \in page.rows : r.key =< q.key
        BY <2>4, Zenon DEF PageKeys
      <4> QED
        BY <2>2, <3>3, <4>1
    <3> QED
      BY <3>1, <3>2, <3>3
  <2>5. AgreesFrom(Merge(rows, page.rows), s, PageKeys(page))
    BY <2>2, <2>3, <2>4, MergeAgrees DEF SyncInv, ClientInv
  <2>6. response' = page /\ PageCursor' = s
    BY <1>1, <2>1, <2>2 DEF page, PageCursor
  <2>7. AgreesFrom(Merge(rows, response.rows), PageCursor, PageKeys(response))'
    BY <1>1, <2>5, <2>6, SameMap
  <2> QED
    BY <1>2, <2>2, <2>6, <2>7, DifferencesByPartsNext
<1>4. CASE AskChanges
  <2>1. /\ mode = "live" /\ response' = ChangesWithValuesSince(cursor, Limit)
        /\ AgreesFrom(rows, cursor, Key)
    BY <1>4, DifferencesByParts DEF AskChanges, SyncInv
  <2>2. CASE response' = [answer |-> "resync"]
    BY <1>2, <2>2, DifferencesByPartsNext
  <2>3. ASSUME cursor >= counters.epoch_start, response'.answer = "changes",
               NEW offset \in Nat, NEW end \in Nat,
               IsBatch(response'.entries, offset, end),
               response'.next_seq = counters.epoch_start + end,
               cursor =< current_seq => cursor = counters.epoch_start + offset
        PROVE  DifferencesArePending'
    <3>1. cursor = counters.epoch_start + offset
      BY <2>1, <2>3 DEF AgreesFrom
    <3>2. AgreesFrom(Apply(rows, response'.entries), response'.next_seq, Key)
      BY <2>1, <2>3, <3>1, BatchRepairs DEF SyncInv, ClientInv
    <3>3. AgreesFrom(Apply(rows, response.entries), response.next_seq, Key)'
      BY <1>1, <3>2, SameMap
    <3> QED
      BY <1>2, <2>3, <3>3, DifferencesByPartsNext
  <2> QED
    BY <2>1, <2>2, <2>3, ChangesAnswer DEF SyncInv
<1>5. CASE Lose
  <2>1. response'.answer = "nothing"
    BY <1>5 DEF Lose, Nothing
  <2> QED
    BY <1>2, <2>1, DifferencesByPartsNext
<1> QED
  BY <1>3, <1>4, <1>5 DEF Ask

(* An answer that arrives makes true what it promised.  A page does so     *)
(* because the client keeps the number of the first page: with that of the *)
(* last one a change between two pages would be lost.                      *)
LEMMA ReceiveKeepsDifferences ==
  ASSUME SyncInv, CatchUpFromFirst, Receive, UNCHANGED serverVars
  PROVE  DifferencesArePending'
<1>1. response'.answer = "nothing"
  BY DEF Receive, ReceivePage, ReceiveChanges, ReceiveResync, Nothing
<1>2. CASE ReceivePage
  <2>1. /\ response.answer = "page" /\ mode = "snapshot"
        /\ response.rows \subseteq TableRow /\ response.seq \in Nat
        /\ \A r \in response.rows : r.key > after
        /\ after \in Nat
    BY <1>2, KeyAssumption DEF ReceivePage, SyncInv, ClientInv, AnswerFits, SyncTypeOK
  <2>2. /\ rows' = Merge(rows, response.rows)
        /\ cursor' = PageCursor /\ cursor' # -1
    BY <1>2, <2>1 DEF ReceivePage, PageCursor
  <2>3. AgreesFrom(rows', cursor', PageKeys(response))
    BY <2>1, <2>2, DifferencesByParts DEF SyncInv
  <2>4. CASE response.len < Limit /\ mode' = "live"
    <3>1. PageKeys(response) = Key
      BY <2>4 DEF PageKeys
    <3>2. AgreesFrom(rows, cursor, Key)'
      BY <2>3, <3>1, SameMap
    <3> QED
      BY <1>1, <2>2, <2>4, <3>2, DifferencesByPartsNext
  <2>5. ASSUME NEW last \in response.rows, mode' = "snapshot",
               \A r \in response.rows : r.key =< last.key, after' = last.key
        PROVE  DifferencesArePending'
    <3>1. last.key \in Nat /\ last.key > after
      BY <2>1, KeyAssumption DEF TableRow
    <3>2. UpTo(after)' \subseteq PageKeys(response)
      BY <2>5 DEF UpTo, PageKeys
    <3>3. AgreesFrom(rows, cursor, UpTo(after))'
      <4>1. AgreesFrom(rows', cursor', UpTo(after)')
        BY <2>3, <3>2 DEF AgreesFrom
      <4> QED
        BY <4>1, SameMap
    <3>4. ASSUME NEW r \in rows'
          PROVE  r.key =< after'
      <4>1. CASE r \in response.rows
        BY <2>5, <4>1
      <4>2. CASE r \in rows
        <5>1. r.key =< after
          BY <2>1, <4>2, DifferencesByParts DEF SyncInv
        <5>2. r.key \in Nat
          BY <4>2, KeyAssumption DEF SyncInv, ClientInv, SyncTypeOK
        <5> QED
          BY <2>1, <2>5, <3>1, <5>1, <5>2
      <4> QED
        BY <2>2, <4>1, <4>2 DEF Merge
    <3> QED
      BY <1>1, <2>2, <2>5, <3>3, <3>4, DifferencesByPartsNext
  <2> QED
    BY <1>2, <2>1, <2>4, <2>5 DEF ReceivePage
<1>3. CASE ReceiveChanges
  <2>1. /\ response.answer = "changes" /\ mode = "live" /\ response.next_seq \in Nat
        /\ rows' = Apply(rows, response.entries) /\ cursor' = response.next_seq
        /\ mode' = mode
    BY <1>3 DEF ReceiveChanges, SyncInv, ClientInv, AnswerFits
  <2>2. AgreesFrom(rows', cursor', Key)
    BY <2>1, DifferencesByParts DEF SyncInv
  <2>3. AgreesFrom(rows, cursor, Key)'
    BY <2>2, SameMap
  <2>4. mode' = "live" /\ cursor' \in Nat
    BY <2>1, Zenon
  <2>5. cursor' # -1 /\ mode' # "snapshot"
    BY <2>4
  <2>6. response'.answer # "changes" /\ response'.answer # "page"
    BY <1>1
  <2> QED
    BY <2>3, <2>5, <2>6, DifferencesByPartsNext, Zenon
<1>4. CASE ReceiveResync
  BY <1>1, <1>4, DifferencesByPartsNext DEF ReceiveResync, StartFullSync
<1> QED
  BY <1>2, <1>3, <1>4 DEF Receive

LEMMA SyncInvInductive ==
  ASSUME CatchUpFromFirst
  PROVE  /\ SyncInit => SyncInv
         /\ SyncInv /\ [SyncNext]_vars => SyncInv'
<1>1. SyncInit => SyncInv
  BY ClientInvInductive, DifferencesByParts DEF SyncInv, SyncInit, Nothing
<1>2. ASSUME SyncInv, [SyncNext]_vars
      PROVE  SyncInv'
  <2>1. ClientInv'
    BY <1>2, ClientInvInductive DEF SyncInv
  <2>2. DifferencesArePending'
    <3>1. CASE UNCHANGED vars
      <4>1. /\ UNCHANGED serverVars
            /\ UNCHANGED <<rows, mode, after, cursor, response>>
        BY <3>1 DEF vars, clientVars
      <4>2. PageCursor' = PageCursor
        BY <4>1 DEF PageCursor
      <4> QED
        BY <1>2, <4>1, <4>2, SameMap, DifferencesByParts, DifferencesByPartsNext
           DEF SyncInv
    <3> QED
      BY <1>2, <3>1, ServerKeepsDifferences, AskKeepsDifferences,
         ReceiveKeepsDifferences DEF SyncNext
  <2> QED
    BY <2>1, <2>2 DEF SyncInv
<1> QED
  BY <1>1, <1>2

(* The client of replog-spec.md: at every moment, whatever was lost,       *)
(* compacted or cleared, each difference between its table and the map is  *)
(* a change that it has yet to fetch, or it will be told to start again.   *)
THEOREM DifferencesStayPending ==
  ASSUME CatchUpFromFirst
  PROVE  SyncSpec => []DifferencesArePending
<1>1. SyncInv => DifferencesArePending
  BY DEF SyncInv
<1> QED
  BY SyncInvInductive, <1>1, PTL DEF SyncSpec

(* A client whose cursor is the current sequence number has the map. *)
THEOREM CaughtUpIsEqual ==
  ASSUME CatchUpFromFirst
  PROVE  SyncSpec => []CaughtUpMeansEqual
<1>1. SyncInv => CaughtUpMeansEqual
  <2> SUFFICES ASSUME SyncInv, mode = "live", cursor = current_seq
               PROVE  rows = Rows
    BY DEF CaughtUpMeansEqual
  <2>1. /\ Len(changelog) \in Nat /\ counters.epoch_start \in Nat
        /\ current_seq = counters.epoch_start + Len(changelog)
    BY SeqTypes DEF SyncInv, ClientInv, Inv
  <2>2. \A id : ~Pending(id, cursor)
    BY <2>1 DEF Pending
  <2>3. cursor >= counters.epoch_start
    BY <2>1
  <2>4. /\ \A r \in rows : r \in Rows
        /\ \A r \in Rows : r.key \in Key => r \in rows
    BY <2>2, <2>3, DifferencesByParts DEF SyncInv, AgreesFrom
  <2>5. \A r \in Rows : r.key \in Key
    BY RowsAre DEF SyncInv, ClientInv
  <2> QED
    BY <2>4, <2>5
<1> QED
  BY SyncInvInductive, <1>1, PTL DEF SyncSpec

===============================================================================
