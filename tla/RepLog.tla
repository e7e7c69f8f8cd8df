-------------------------------- MODULE RepLog --------------------------------
(***************************************************************************)
(* RepLogMap (replog/src/lib.rs): a map that records its changes so that   *)
(* clients can replicate it incrementally.                                 *)
(*                                                                         *)
(* The contents are split in two stable maps, key_index from keys to entry *)
(* ids and value_store from entry ids to values; a stable log holds one    *)
(* entry per change.  A call runs to its end before the next one starts,   *)
(* so each operation is one action.  The log may be unable to grow at any  *)
(* append: the try_ operations then undo what they did, the others panic,  *)
(* which on the Internet Computer rolls the whole message back and so is   *)
(* not a step.                                                             *)
(***************************************************************************)
EXTENDS Integers, Sequences, FiniteSets

CONSTANTS
  Key,             \* keys, ordered as the naturals they are
  Value,
  NoValue,         \* Option::None
  ChangelogFull,   \* RepLogError::ChangelogFull
  MaxSeq,          \* bound: the largest sequence number reached
  MaxU64           \* the largest u64

ASSUME KeyAssumption == Key \subseteq Nat \ {0}
ASSUME ValueAssumption == NoValue \notin Value /\ ChangelogFull \notin Value
ASSUME BoundAssumption == MaxSeq \in Nat /\ MaxU64 \in Nat

VARIABLES
  key_index,       \* BTreeMap<K, u64>
  value_store,     \* BTreeMap<u64, V>
  changelog,       \* Log<ChangeEntry<K>>, the entry of index i at i + 1
  counters,        \* Cell<Counters>
  ret              \* what the last operation returned

serverVars == <<key_index, value_store, changelog, counters, ret>>

INSTANCE OrderedMap

ChangeEntry == [kind : {"Upsert", "Delete"}, entry_id : Nat, key : Key]

Entry(kind, entry_id, key) ==
  [kind |-> kind, entry_id |-> entry_id, key |-> key]

current_seq == counters.epoch_start + Len(changelog)

Get(k) ==
  IF k \in DOMAIN key_index THEN MapGet(value_store, key_index[k]) ELSE NoValue

(* A row of the map as clients see it; entry ids are the row identities. *)
Row(k) ==
  [entry_id |-> key_index[k], key |-> k, value |-> value_store[key_index[k]]]

Rows == {Row(k) : k \in DOMAIN key_index}

-------------------------------------------------------------------------------
(* Queries of the replication interface.  They change nothing. *)

(* Mutant: the cursor is not moved past the change returned. *)
ChangesSinceStuck(since_seq, limit) ==
  LET offset == since_seq - counters.epoch_start IN
  IF offset < 0 THEN [answer |-> "resync"]
  ELSE [answer |-> "changes",
        entries |-> SubSeq(changelog, offset + 1,
                           IF offset < Len(changelog) THEN offset + 1 ELSE offset),
        next_seq |-> since_seq]

(* Mutant: a cursor before epoch_start is not recognised, and the          *)
(* subtraction of epoch_start underflows.                                  *)
ChangesSinceUnderflow(since_seq, limit) ==
  LET offset == since_seq - counters.epoch_start IN
  IF offset < 0 THEN [answer |-> "trap"]
  ELSE [answer |-> "changes",
        entries |-> SubSeq(changelog, offset + 1, Len(changelog)),
        next_seq |-> current_seq]

(* The sum offset + limit is a u64: past MaxU64 it panics in a debug build *)
(* and wraps below offset in a release build, where the subtraction in the *)
(* capacity of the result then asks for more memory than there is.         *)
ChangesSince(since_seq, limit) ==
  LET offset == since_seq - counters.epoch_start
      end == IF offset + limit < Len(changelog) THEN offset + limit
                                                ELSE Len(changelog)
  IN IF since_seq < counters.epoch_start
     THEN [answer |-> "resync"]
     ELSE IF offset >= Len(changelog)
     THEN [answer |-> "changes", entries |-> <<>>, next_seq |-> current_seq]
     ELSE IF offset + limit > MaxU64
     THEN [answer |-> "trap"]
     ELSE [answer |-> "changes",
           entries |-> SubSeq(changelog, offset + 1, end),
           next_seq |-> since_seq + (end - offset)]

(* An upsert comes with the value its key has now, not the one written by  *)
(* the change: none if the key is gone, another entry's if it came back.   *)
WithValue(e) ==
  [kind |-> e.kind, entry_id |-> e.entry_id, key |-> e.key,
   value |-> IF e.kind = "Upsert" THEN Get(e.key) ELSE NoValue]

ChangesWithValuesSince(since_seq, limit) ==
  LET plain == ChangesSince(since_seq, limit)
  IN IF plain.answer # "changes" THEN plain
     ELSE [plain EXCEPT !.entries =
             [i \in 1..Len(plain.entries) |-> WithValue(plain.entries[i])]]

(* The keys take(limit) yields from the iterator after after_key, which is *)
(* 0 for None: the smallest ones, fewer than limit only if there are none  *)
(* left.                                                                   *)
TakenAfter(after_key, limit, taken) ==
  LET rest == {k \in DOMAIN key_index : k > after_key} IN
  /\ taken \subseteq rest
  /\ \A j \in rest, k \in taken : j < k => j \in taken
  /\ Cardinality(taken) =< limit
  /\ Cardinality(taken) < limit => taken = rest

SnapshotPage(taken) ==
  LET present == {k \in taken : key_index[k] \in DOMAIN value_store}
  IN [answer |-> "page",
      rows |-> {Row(k) : k \in present},
      len |-> Cardinality(present),
      seq |-> current_seq]

-------------------------------------------------------------------------------
Init ==
  /\ key_index = EmptyMap
  /\ value_store = EmptyMap
  /\ changelog = <<>>
  /\ counters = [next_entry_id |-> 0, epoch_start |-> 0]
  /\ ret = NoValue

Insert(k, v) ==
  /\ current_seq < MaxSeq
  /\ \/ /\ k \in DOMAIN key_index
        /\ LET entry_id == key_index[k] IN
           /\ ret' = MapGet(value_store, entry_id)
           /\ value_store' = MapInsert(value_store, entry_id, v)
           /\ changelog' = Append(changelog, Entry("Upsert", entry_id, k))
        /\ UNCHANGED <<key_index, counters>>
     \/ /\ k \notin DOMAIN key_index
        /\ LET entry_id == counters.next_entry_id IN
           /\ counters' = [counters EXCEPT !.next_entry_id = @ + 1]
           /\ key_index' = MapInsert(key_index, k, entry_id)
           /\ value_store' = MapInsert(value_store, entry_id, v)
           /\ changelog' = Append(changelog, Entry("Upsert", entry_id, k))
        /\ ret' = NoValue

(* Mutant: the failed append gives an id back for every key. *)
UndoneInsertGivesIdBack(k, v) ==
  /\ counters' = [counters EXCEPT !.next_entry_id = @ - 1]
  /\ k \in DOMAIN key_index
  /\ ret' = ChangelogFull
  /\ UNCHANGED <<key_index, value_store, changelog>>

(* Mutant: the failed append of a new key leaves its value behind. *)
UndoneInsertLeavesValue(k, v) ==
  /\ k \notin DOMAIN key_index
  /\ value_store' = MapInsert(value_store, counters.next_entry_id, v)
  /\ ret' = ChangelogFull
  /\ UNCHANGED <<key_index, changelog, counters>>

(* The append of try_insert fails after the maps, and for a new key the    *)
(* counter, have been written: each write is undone by a second one.       *)
UndoneInsert(k, v) ==
  /\ \/ /\ k \in DOMAIN key_index
        /\ LET entry_id == key_index[k]
               old == MapGet(value_store, entry_id)
               written == MapInsert(value_store, entry_id, v)
           IN value_store' = IF old # NoValue
                             THEN MapInsert(written, entry_id, old)
                             ELSE MapRemove(written, entry_id)
        /\ UNCHANGED <<key_index, counters>>
     \/ /\ k \notin DOMAIN key_index
        /\ LET entry_id == counters.next_entry_id
               c == [counters EXCEPT !.next_entry_id = @ + 1]
           IN /\ key_index' = MapRemove(MapInsert(key_index, k, entry_id), k)
              /\ value_store' =
                   MapRemove(MapInsert(value_store, entry_id, v), entry_id)
              /\ counters' = [c EXCEPT !.next_entry_id = @ - 1]
  /\ ret' = ChangelogFull
  /\ UNCHANGED changelog

TryInsert(k, v) == Insert(k, v) \/ UndoneInsert(k, v)

Remove(k) ==
  \/ /\ k \notin DOMAIN key_index
     /\ ret' = NoValue
     /\ UNCHANGED <<key_index, value_store, changelog, counters>>
  \/ /\ current_seq < MaxSeq
     /\ k \in DOMAIN key_index
     /\ LET entry_id == key_index[k] IN
        /\ ret' = MapGet(value_store, entry_id)
        /\ key_index' = MapRemove(key_index, k)
        /\ value_store' = MapRemove(value_store, entry_id)
        /\ changelog' = Append(changelog, Entry("Delete", entry_id, k))
     /\ UNCHANGED counters

(* Mutant: the failed append brings the key back without its value. *)
UndoneRemoveDropsValue(k) ==
  /\ k \in DOMAIN key_index
  /\ value_store' = MapRemove(value_store, key_index[k])
  /\ ret' = ChangelogFull
  /\ UNCHANGED <<key_index, changelog, counters>>

(* The append of try_remove fails after both maps have lost the entry. *)
UndoneRemove(k) ==
  /\ k \in DOMAIN key_index
  /\ LET entry_id == key_index[k]
         value == MapGet(value_store, entry_id)
         removed == MapRemove(value_store, entry_id)
     IN /\ key_index' = MapInsert(MapRemove(key_index, k), k, entry_id)
        /\ value_store' = IF value # NoValue
                          THEN MapInsert(removed, entry_id, value)
                          ELSE removed
  /\ ret' = ChangelogFull
  /\ UNCHANGED <<changelog, counters>>

TryRemove(k) == Remove(k) \/ UndoneRemove(k)

(* Mutants of clear: the changelog survives; the ids start again from 0;   *)
(* the clear itself is not counted in the sequence.                        *)
Wipe(log, c) ==
  /\ current_seq < MaxSeq
  /\ key_index' = EmptyMap
  /\ value_store' = EmptyMap
  /\ changelog' = log
  /\ counters' = c
  /\ ret' = NoValue

ClearKeepsLog == Wipe(changelog, counters)

ClearRestartsIds ==
  Wipe(<<>>, [next_entry_id |-> 0, epoch_start |-> current_seq + 1])

ClearUncounted == Wipe(<<>>, [counters EXCEPT !.epoch_start = current_seq])

Clear ==
  /\ current_seq < MaxSeq
  /\ key_index' = EmptyMap
  /\ value_store' = EmptyMap
  /\ changelog' = <<>>
  /\ counters' = [counters EXCEPT !.epoch_start = current_seq + 1]
  /\ ret' = NoValue

(* Mutant: epoch_start is not moved. *)
CompactKeepsEpoch ==
  /\ changelog' = <<>>
  /\ ret' = NoValue
  /\ UNCHANGED <<key_index, value_store, counters>>

Compact ==
  /\ changelog' = <<>>
  /\ counters' = [counters EXCEPT !.epoch_start = current_seq]
  /\ ret' = NoValue
  /\ UNCHANGED <<key_index, value_store>>

(* Insert and Remove are also the calls of try_insert and try_remove whose *)
(* append succeeds.                                                        *)
ServerNext ==
  \/ \E k \in Key, v \in Value : TryInsert(k, v)
  \/ \E k \in Key : TryRemove(k)
  \/ Clear
  \/ Compact

Spec == Init /\ [][ServerNext]_serverVars

-------------------------------------------------------------------------------
TypeOK ==
  /\ IsMap(key_index, Key, Nat)
  /\ IsMap(value_store, Nat, Value)
  /\ changelog \in Seq(ChangeEntry)
  /\ counters \in [next_entry_id : Nat, epoch_start : Nat]
  /\ ret \in Value \cup {NoValue, ChangelogFull}

(* The two maps stay one map: different keys have different entry ids, the *)
(* ids in the index are exactly the ids with a value (what the             *)
(* debug_asserts of get and first_key_value claim), and every id in use    *)
(* was given out by the counter.                                           *)
IndexConsistent ==
  /\ \A j, k \in DOMAIN key_index : key_index[j] = key_index[k] => j = k
  /\ DOMAIN value_store = {key_index[k] : k \in DOMAIN key_index}
  /\ \A id \in DOMAIN value_store : id < counters.next_entry_id

(* The last change logged for an entry id tells its fate: an upsert if and *)
(* only if the key still has that id, so a client that applies the changes *)
(* in order ends with the rows the map holds.                              *)
LastChangeTellsState ==
  \A i \in 1..Len(changelog) :
    LET e == changelog[i] IN
    /\ e.entry_id < counters.next_entry_id
    /\ (\A j \in 1..Len(changelog) : j > i => changelog[j].entry_id # e.entry_id)
         => IF e.kind = "Upsert"
            THEN e.key \in DOMAIN key_index /\ key_index[e.key] = e.entry_id
            ELSE e.entry_id \notin DOMAIN value_store

(* Entry ids are never reused: an id that gets a value now was never in    *)
(* use nor in a changelog before, even when a failed try_insert has given  *)
(* its id back, and a clear does not restart the counter.                  *)
FreshIds ==
  [][/\ \A id \in DOMAIN value_store' \ DOMAIN value_store :
            id >= counters.next_entry_id
     /\ counters'.next_entry_id >= counters.next_entry_id]_serverVars

(* RepLogMap implements a versioned map: each operation has the effect and *)
(* the result of the same operation on one plain map, an operation that    *)
(* could not be logged has no effect at all, and current_seq moves exactly *)
(* with the changes.                                                       *)
Contents == [k \in DOMAIN key_index |-> Get(k)]

Abs == INSTANCE VersionedMap WITH map <- Contents, seq <- current_seq

ImplementsVersionedMap == Abs!Spec

(* Every call of changes_since with a cursor the changelog still covers    *)
(* returns changes, as its comment says, whatever the limit.               *)
ChangesSinceAnswers ==
  \A since_seq \in counters.epoch_start..current_seq, limit \in 1..MaxU64 :
    ChangesSince(since_seq, limit).answer = "changes"

(* The comment of changes_with_values_since in replog-spec.md: an upsert   *)
(* is returned with a value, a delete with none.                           *)
UpsertsHaveValues ==
  \A since_seq \in counters.epoch_start..current_seq :
    LET r == ChangesWithValuesSince(since_seq, 1) IN
    r.answer = "changes" =>
      \A i \in 1..Len(r.entries) :
        (r.entries[i].kind = "Upsert") <=> (r.entries[i].value # NoValue)

===============================================================================
