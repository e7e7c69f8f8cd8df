--------------------------------- MODULE BaseVec ---------------------------------
(***************************************************************************)
(* BaseVec (src/base_vec.rs), what the stable Vec and MinHeap are made of: *)
(* a header with the number of entries, and the entries in slots of the    *)
(* same size.  The slot of an item whose size may vary starts with its     *)
(* size.  The operators take a memory, the range of its pages that the     *)
(* BaseVec has and, where the code depends on it, the type of the items.   *)
(***************************************************************************)
EXTENDS RestrictedMemory

CONSTANTS
  Item,          \* items, ordered as the naturals they are
  Type,          \* the item types: bounds, and to_bytes
  NoItem         \* Option::None

ASSUME ItemAssumption == Item \subseteq Nat
ASSUME TypeAssumption ==
  \A T \in Type :
    /\ T.max_size \in Nat /\ T.is_fixed_size \in BOOLEAN
    /\ DOMAIN T.bytes = Item
    /\ \A x \in Item : /\ T.bytes[x] \in Seq(Unit)
                       /\ Len(T.bytes[x]) =< T.max_size
                       /\ T.is_fixed_size => Len(T.bytes[x]) = T.max_size
    /\ \A x, y \in Item : T.bytes[x] = T.bytes[y] => x = y

SVC == 102                    \* the MAGIC of a Vec ...
SMH == 103                    \* ... and of a MinHeap
VEC_VERSION == 1              \* LAYOUT_VERSION
LEN_OFFSET == 2               \* after magic and version
DATA_OFFSET == 5              \* after the length, max_size and is_fixed_size

Flag(T) == IF T.is_fixed_size THEN 1 ELSE 0
slot_size(T) == T.max_size + (1 - Flag(T))
Offset(T, index) == DATA_OFFSET + slot_size(T) * index

write_header(m, r, magic, T) ==
  write_in(write_in(write_in(write_in(safe_write(m, r, 0, <<magic>>),
    r, 1, <<VEC_VERSION>>), r, 2, <<0>>), r, 3, <<T.max_size>>), r, 4, <<Flag(T)>>)

(* new: the memory with an empty BaseVec. *)
vec_new(m, r, magic, T) == write_header(m, r, magic, T)

(* init: a memory with other contents is refused. *)
vec_init(m, r, magic, T) ==
  IF size(m, r) = 0 THEN vec_new(m, r, magic, T)
  ELSE IF read(m, r, 0, 5) = <<magic, VEC_VERSION, read(m, r, 2, 1)[1], T.max_size, Flag(T)>>
  THEN m
  ELSE Failed(m)

len(m, r) == read(m, r, LEN_OFFSET, 1)[1]
set_len(m, r, n) == safe_write(m, r, LEN_OFFSET, <<n>>)

(* The size goes first, if it is kept; then the bytes. *)
write_entry_size(m, r, T, index, n) ==
  IF T.is_fixed_size THEN m ELSE safe_write(m, r, Offset(T, index), <<n>>)
DataOffset(T, index) == Offset(T, index) + (1 - Flag(T))

WriteEntry(m, r, T, index, x) ==
  safe_write(write_entry_size(m, r, T, index, Len(T.bytes[x])),
             r, DataOffset(T, index), T.bytes[x])

(* from_bytes of the units in a slot; NoItem if they encode no item. *)
from_bytes(T, bytes) ==
  IF \E x \in Item : T.bytes[x] = bytes
  THEN CHOOSE x \in Item : T.bytes[x] = bytes ELSE NoItem

read_entry_size(m, r, T, index) ==
  IF T.is_fixed_size THEN T.max_size ELSE m.units[r[1] * PageSize + Offset(T, index)]

read_entry(m, r, T, index) ==
  CHOOSE x \in {from_bytes(T, bytes) : bytes \in
                  {read(m, r, DataOffset(T, index), n) : n \in {read_entry_size(m, r, T, index)}}} :
    TRUE

get(m, r, T, index) == IF index < len(m, r) THEN read_entry(m, r, T, index) ELSE NoItem

set(m, r, T, index, x) ==
  IF index < len(m, r) THEN WriteEntry(m, r, T, index, x) ELSE Failed(m)

(* Mutant: the length is set first. *)
pushEarly(m, r, T, x) ==
  WriteEntry(set_len(m, r, len(m, r) + 1), r, T, len(m, r), x)

push(m, r, T, x) ==
  set_len(WriteEntry(m, r, T, len(m, r), x), r, len(m, r) + 1)

(* pop: the entry that is last, and the memory without it. *)
LastEntry(m, r, T) == IF len(m, r) = 0 THEN NoItem ELSE read_entry(m, r, T, len(m, r) - 1)
pop(m, r) == IF len(m, r) = 0 THEN m ELSE set_len(m, r, len(m, r) - 1)

clear(m, r) == set_len(m, r, 0)

===============================================================================
