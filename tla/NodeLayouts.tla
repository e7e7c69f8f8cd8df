------------------------------ MODULE NodeLayouts ------------------------------
(***************************************************************************)
(* The two layouts of a node (src/btreemap/node/v1.rs, node/v2.rs) and the *)
(* types of the map's keys and values, which a later release of a canister *)
(* may change.  A node of version 1 has a place of a fixed size for every  *)
(* key and value; a node of version 2 has one after the other, and leaves  *)
(* out the sizes of keys of a fixed size.  Nodes of both versions occur in *)
(* one map: a map of version 1 is loaded as one of version 2, but its      *)
(* nodes keep their layout when they are saved (Node::save).               *)
(*                                                                         *)
(* One node, written by a map with bounded types and then used by the map, *)
(* which loads it, changes it and saves it in every operation.  Fields and *)
(* bytes take a cell each, as in NodeV2; the overflow pages of a node of   *)
(* version 2 are taken for one run of cells, which NodeV2 justifies.       *)
(* Offsets count from 0, entries from 1.                                   *)
(***************************************************************************)
EXTENDS Integers, Sequences

LOCAL INSTANCE SequencesExt
LOCAL INSTANCE FiniteSetsExt

CONSTANTS
  Key, Value,
  KeySize, ValueSize,           \* their sizes when encoded
  Unreadable,                   \* what bytes decode to that are no value
  MaxKeySize, MaxValueSize,     \* the bounds of the types the node was created with
  ChildAddress,
  CAPACITY,
  Room                          \* bound: the cells of memory from the node on

VARIABLES
  memory,     \* the cells from the address of the node on
  bound,      \* of the key and value types: "fixed" (keys), "bounded" or "unbounded"
  kept        \* history: what the map has put into the node

vars == <<memory, bound, kept>>

Entry == [key : Key, value : Value]
InBounds(e) == KeySize[e.key] =< MaxKeySize /\ ValueSize[e.value] =< MaxValueSize

(* check_bounds of Storable. *)
check_bounds(e) ==
  CASE bound = "fixed" -> InBounds(e) /\ KeySize[e.key] = MaxKeySize
    [] bound = "bounded" -> InBounds(e)
    [] bound = "unbounded" -> TRUE

-----------------------------------------------------------------------------
(* Cells, and what is written to them. *)

Stale == <<"stale">>
Size(s) == <<"size", s>>
Link(a) == <<"address", a>>
Header(n) == <<"header", n.version, n.node_type, Len(n.entries)>>
KeyBytes(k) == [i \in 1..KeySize[k] |-> <<"key", k, i>>]
ValueBytes(v) == [i \in 1..ValueSize[v] |-> <<"value", v, i>>]
KeyOf(bytes) == IF \E k \in Key : KeyBytes(k) = bytes
                THEN CHOOSE k \in Key : KeyBytes(k) = bytes ELSE Unreadable
ValueOf(bytes) == IF \E v \in Value : ValueBytes(v) = bytes
                  THEN CHOOSE v \in Value : ValueBytes(v) = bytes ELSE Unreadable
SizeOf(cell) == IF cell[1] = "size" THEN cell[2] ELSE 0

Read(mem, offset, count) == [i \in 1..count |-> mem[offset + i - 1]]
Field(offset, bytes) == [offset |-> offset, bytes |-> bytes]
Covers(f, c) == c \in f.offset..f.offset + Len(f.bytes) - 1

(* The memory after the fields F are written, in the order of offsets:     *)
(* where two overlap, the one at the greater offset stays.                 *)
WriteAll(mem, F) ==
  [c \in DOMAIN mem |->
     IF \E f \in F : Covers(f, c)
     THEN LET f == CHOOSE f \in F : /\ Covers(f, c)
                                    /\ \A g \in F : Covers(g, c) => g.offset =< f.offset
          IN f.bytes[c - f.offset + 1]
     ELSE mem[c]]

-----------------------------------------------------------------------------
(* Version 1. *)

EntrySize == 2 + MaxKeySize + MaxValueSize
size_v1 == 1 + CAPACITY * EntrySize + CAPACITY + 1
KeyPlace(i) == 1 + (i - 1) * EntrySize
ValuePlace(i) == KeyPlace(i) + 1 + MaxKeySize
ChildPlace(count, j) == 1 + count * EntrySize + j - 1

save_v1(mem, n) ==
  LET es == n.entries
  IN WriteAll(mem,
       {Field(0, <<Header(n)>>)}
       \cup UNION {{Field(KeyPlace(i), <<Size(KeySize[es[i].key])>>),
                    Field(KeyPlace(i) + 1, KeyBytes(es[i].key)),
                    Field(ValuePlace(i), <<Size(ValueSize[es[i].value])>>),
                    Field(ValuePlace(i) + 1, ValueBytes(es[i].value))} : i \in DOMAIN es}
       \cup {Field(ChildPlace(Len(es), j), <<Link(n.children[j])>>) : j \in DOMAIN n.children})

load_v1(mem) ==
  LET type == mem[0][3]
      count == mem[0][4]
      at(offset) == Read(mem, offset + 1, SizeOf(mem[offset]))
  IN [version |-> "V1", node_type |-> type,
      entries |-> [i \in 1..count |-> [key |-> KeyOf(at(KeyPlace(i))),
                                       value |-> ValueOf(at(ValuePlace(i)))]],
      children |-> [j \in 1..(IF type = "Internal" THEN count + 1 ELSE 0) |->
                      mem[ChildPlace(count, j)][2]]]

-----------------------------------------------------------------------------
(* Version 2: header, address of the overflow page, children, keys, values. *)

save_v2(mem, n) ==
  LET es == n.entries
      prefix(s) == IF bound = "fixed" THEN <<>> ELSE <<Size(s)>>
  IN WriteAll(mem, {Field(0,
       <<Header(n), Link(0)>>
       \o [j \in DOMAIN n.children |-> Link(n.children[j])]
       \o FlattenSeq([i \in DOMAIN es |-> prefix(KeySize[es[i].key]) \o KeyBytes(es[i].key)])
       \o FlattenSeq([i \in DOMAIN es |-> <<Size(ValueSize[es[i].value])>> \o ValueBytes(es[i].value)]))})

load_v2(mem) ==
  LET type == mem[0][3]
      count == mem[0][4]
      num_children == IF type = "Internal" THEN count + 1 ELSE 0
      prefix(i) == IF bound = "fixed" /\ i =< count THEN 0 ELSE 1
      size(i, offset) == IF prefix(i) = 0 THEN MaxKeySize ELSE SizeOf(mem[offset])
      Place[i \in 1..2 * count + 1] ==
        IF i = 1 THEN 2 + num_children
        ELSE Place[i - 1] + prefix(i - 1) + size(i - 1, Place[i - 1])
      at(i) == Read(mem, Place[i] + prefix(i), size(i, Place[i]))
  IN [version |-> "V2", node_type |-> type,
      entries |-> [i \in 1..count |-> [key |-> KeyOf(at(i)), value |-> ValueOf(at(count + i))]],
      children |-> [j \in 1..num_children |-> mem[1 + j][2]]]

-----------------------------------------------------------------------------
load(mem) == IF mem[0][2] = "V1" THEN load_v1(mem) ELSE load_v2(mem)
save(mem, n) == IF n.version = "V1" THEN save_v1(mem, n) ELSE save_v2(mem, n)

Sorted(es) == \A i, j \in DOMAIN es : i < j => es[i].key < es[j].key
Leaf(v, es) == [version |-> v, node_type |-> "Leaf", entries |-> es, children |-> <<>>]
Internal(v, es) ==
  [version |-> v, node_type |-> "Internal", entries |-> es,
   children |-> [j \in 1..Len(es) + 1 |-> CHOOSE a \in ChildAddress : TRUE]]

(* A node that a map with types of the bounds has saved. *)
Init ==
  /\ bound \in {"fixed", "bounded"}
  /\ \E v \in {"V1", "V2"}, e \in Entry :
       check_bounds(e) /\ kept \in {Leaf(v, <<e>>), Internal(v, <<e>>)}
  /\ memory = save([c \in 0..Room - 1 |-> Stale], kept)

(* The next release has unbounded types.  load_helper turns a map of       *)
(* version 1 into one of version 2 and so skips the assertions on bounds.  *)
load_helper ==
  /\ bound' = "unbounded"
  /\ bound # "unbounded"
  /\ UNCHANGED <<memory, kept>>

(* The node is loaded, its entries are changed, and it is saved: loaded is *)
(* what becomes of the entries that were read, and meant what becomes of   *)
(* those that the map has put there.                                       *)
Found == load(memory).entries
Change(loaded, meant) ==
  /\ memory' = save(memory, [load(memory) EXCEPT !.entries = loaded])
  /\ kept' = [kept EXCEPT !.entries = meant]
  /\ UNCHANGED bound

update_value(i, v) ==
  /\ check_bounds([kept.entries[i] EXCEPT !.value = v])
  /\ Change([Found EXCEPT ![i].value = v], [kept.entries EXCEPT ![i].value = v])

insert_entry(i, e) ==
  /\ kept.node_type = "Leaf"
  /\ Len(kept.entries) < CAPACITY
  /\ check_bounds(e)
  /\ Sorted(InsertAt(kept.entries, i, e))
  /\ Change(InsertAt(Found, i, e), InsertAt(kept.entries, i, e))

(* The last entry is removed with the node. *)
remove_entry(i) ==
  /\ kept.node_type = "Leaf"
  /\ Len(kept.entries) > 1
  /\ Change(RemoveAt(Found, i), RemoveAt(kept.entries, i))

Next ==
  \/ load_helper
  \/ \E i \in DOMAIN kept.entries : remove_entry(i) \/ \E v \in Value : update_value(i, v)
  \/ \E i \in 1..Len(kept.entries) + 1, e \in Entry : insert_entry(i, e)

Spec == Init /\ [][Next]_vars

-----------------------------------------------------------------------------
(* A node has what was put into it, also after its map has moved on to     *)
(* unbounded types: "You can, however, migrate from a bounded type to an   *)
(* unbounded type if needed." (documentation of BTreeMap, on load_helper,  *)
(* load_v1 and load_v2).                                                   *)
SurvivesMigration == load(memory) = kept

================================================================================
