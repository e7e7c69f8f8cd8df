---------------------------------- MODULE Log ----------------------------------
(***************************************************************************)
(* The stable Log (src/log.rs): items one after the other in a data        *)
(* memory, and in an index memory the number of entries and, for each      *)
(* entry, the offset where it ends.                                        *)
(*                                                                         *)
(* An append is three writes, to the data, to the index and to the number  *)
(* of entries.  It may give up before the first or the second one, when    *)
(* the memory cannot grow, and undoes nothing then.  On a memory that does *)
(* not roll a failed call back (FileMemory, VectorMemory) it may also stop *)
(* after any write, and the log is then initialized from what is there.    *)
(*                                                                         *)
(* A byte in memory is known by the item it belongs to and its place in    *)
(* it.  The two memories have pages of PageSize bytes, or index entries,   *)
(* of which the header takes HeaderSize.                                   *)
(***************************************************************************)
EXTENDS Integers, Sequences

CONSTANTS
  Item,
  ByteLen,         \* the length of the encoding of each item
  GrowFailed,      \* WriteError::GrowFailed
  NoSuchEntry,     \* None of an iterator
  Blank,           \* a byte nobody wrote
  PageSize,
  HeaderSize,
  MaxEntries,      \* bound: the number of entries
  MaxBytes,        \* bound: the size of the data
  MaxSkip          \* bound: the argument of nth

ASSUME SizeAssumption ==
  HeaderSize \in Nat /\ PageSize \in Nat /\ HeaderSize < PageSize
ASSUME BoundAssumption == MaxEntries \in Nat /\ MaxBytes \in Nat /\ MaxSkip \in Nat
(* from_bytes(to_bytes(x)) = x: no two items have the same, empty, bytes. *)
ASSUME ItemAssumption ==
  /\ ByteLen \in [Item -> Nat]
  /\ \A x, y \in Item : ByteLen[x] = 0 /\ ByteLen[y] = 0 => x = y

VARIABLES
  num_entries,     \* in the index memory
  index,           \* in the index memory: where each entry ends
  index_pages,     \* size of the index memory
  data,            \* the bytes of the data memory after its header
  data_pages,      \* size of the data memory
  call,            \* the append under way
  pos,             \* the position of an iterator
  ret              \* what the last call returned, and the item it appended

vars == <<num_entries, index, index_pages, data, data_pages, call, pos, ret>>

Idle == [pc |-> "idle"]
Byte == [item : Item, place : Nat \ {0}] \cup {Blank}

(* The offset where entry idx begins. *)
Begin(idx) == IF idx = 0 THEN 0 ELSE index[idx - 1]

(* entry_meta and from_bytes: the item whose bytes are those of entry idx. *)
Holds(idx, x) ==
  /\ index[idx] = Begin(idx) + ByteLen[x]
  /\ \A n \in 1..ByteLen[x] :
       data[Begin(idx) + n - 1] = [item |-> x, place |-> n]

Get(idx) == CHOOSE x \in Item : Holds(idx, x)

(* safe_write: the memory has, or is grown to, the pages for size bytes    *)
(* after the header; no more pages than needed.                            *)
Reaches(pages, size) == HeaderSize + size =< PageSize * pages
GrownTo(pages, more, size) ==
  /\ more >= pages
  /\ Reaches(more, size)
  /\ more > pages => ~Reaches(more - 1, size)

-------------------------------------------------------------------------------
Init ==
  /\ num_entries = 0
  /\ index = [i \in 0..(MaxEntries - 1) |-> 0]
  /\ index_pages = 1
  /\ data = [i \in 0..(MaxBytes - 1) |-> Blank]
  /\ data_pages = 1
  /\ call = Idle
  /\ pos = 0
  /\ ret = <<>>

(* Mutant: the number of entries is written before the entry. *)
AppendDataCounted(item) ==
  /\ call = Idle
  /\ num_entries < MaxEntries /\ Begin(num_entries) + ByteLen[item] =< MaxBytes
  /\ call' = [pc |-> "data", item |-> item,
              new_offset |-> Begin(num_entries) + ByteLen[item]]
  /\ num_entries' = num_entries + 1
  /\ UNCHANGED <<index, index_pages, data, data_pages, pos, ret>>

AppendData(item) ==
  LET begin == Begin(num_entries)
      end == begin + ByteLen[item]
  IN
  /\ call = Idle
  /\ num_entries < MaxEntries /\ end =< MaxBytes
  /\ \/ /\ \E more \in 1..(HeaderSize + end) :
             GrownTo(data_pages, more, end) /\ data_pages' = more
        /\ data' = [i \in DOMAIN data |->
                      IF begin =< i /\ i < end
                      THEN [item |-> item, place |-> i - begin + 1] ELSE data[i]]
        /\ call' = [pc |-> "data", item |-> item, new_offset |-> end]
        /\ UNCHANGED ret
     \/ /\ ~Reaches(data_pages, end)
        /\ ret' = <<GrowFailed>>
        /\ UNCHANGED <<data, data_pages, call>>
  /\ UNCHANGED <<num_entries, index, index_pages, pos>>

AppendIndex ==
  /\ call.pc = "data"
  /\ \/ /\ \E more \in 1..(HeaderSize + num_entries + 1) :
             GrownTo(index_pages, more, num_entries + 1) /\ index_pages' = more
        /\ index' = [index EXCEPT ![num_entries] = call.new_offset]
        /\ call' = [call EXCEPT !.pc = "index"]
        /\ UNCHANGED ret
     \/ /\ ~Reaches(index_pages, num_entries + 1)
        /\ call' = Idle
        /\ ret' = <<GrowFailed>>
        /\ UNCHANGED <<index, index_pages>>
  /\ UNCHANGED <<num_entries, data, data_pages, pos>>

AppendLen ==
  /\ call.pc = "index"
  /\ num_entries' = num_entries + 1
  /\ ret' = <<num_entries, call.item>>
  /\ call' = Idle
  /\ UNCHANGED <<index, index_pages, data, data_pages, pos>>

(* clear, and new over an existing log: neither touches the entries. *)
Clear ==
  /\ call = Idle
  /\ num_entries' = 0
  /\ ret' = <<>>
  /\ UNCHANGED <<index, index_pages, data, data_pages, call, pos>>

(* Between two calls the log is initialized again after an upgrade; in the *)
(* middle of an append the call has been cut off.  Iterators start anew.   *)
Reinit ==
  /\ call' = Idle
  /\ pos' = 0
  /\ ret' = <<>>
  /\ UNCHANGED <<num_entries, index, index_pages, data, data_pages>>

(* Mutant: the iterator moves on past the end. *)
NthMovesOn(n) ==
  /\ call = Idle
  /\ pos + n =< MaxEntries
  /\ ret' = <<IF pos + n < num_entries THEN Get(pos + n) ELSE NoSuchEntry>>
  /\ pos' = pos + n + 1
  /\ UNCHANGED <<num_entries, index, index_pages, data, data_pages, call>>

(* nth(n) of an iterator; next is nth(0).  A ThreadLocalRefIterator lives  *)
(* across appends and clears.                                              *)
Nth(n) ==
  /\ call = Idle
  /\ pos + n =< MaxEntries
  /\ \/ /\ pos + n < num_entries
        /\ ret' = <<Get(pos + n)>>
        /\ pos' = pos + n + 1
     \/ /\ num_entries =< pos + n
        /\ ret' = <<NoSuchEntry>>
        /\ pos' = pos + n
  /\ UNCHANGED <<num_entries, index, index_pages, data, data_pages, call>>

Next ==
  \/ \E item \in Item : AppendData(item)
  \/ AppendIndex
  \/ AppendLen
  \/ Clear
  \/ Reinit
  \/ \E n \in 0..MaxSkip : Nth(n)

Spec == Init /\ [][Next]_vars

-------------------------------------------------------------------------------
TypeOK ==
  /\ num_entries \in 0..MaxEntries
  /\ index \in [0..(MaxEntries - 1) -> 0..MaxBytes]
  /\ index_pages \in Nat /\ data_pages \in Nat
  /\ data \in [0..(MaxBytes - 1) -> Byte]
  /\ call \in {Idle} \cup
       [pc : {"data", "index"}, item : Item, new_offset : 0..MaxBytes]
  /\ pos \in 0..MaxEntries

(* Every entry can be read: the ends never decrease (what                  *)
(* validate_v1_index checks), all of it lies inside the memory, and its    *)
(* bytes are the bytes of one item, whatever append wrote after it, gave   *)
(* up on or left behind before a clear.                                    *)
EntriesReadable ==
  \A i \in 0..(num_entries - 1) :
    /\ \A j \in i..(num_entries - 1) : index[i] =< index[j]
    /\ Reaches(data_pages, index[i])
    /\ Reaches(index_pages, i + 1)
    /\ \E x \in Item : Holds(i, x)

(* The log is a sequence: an append adds its item or nothing, also when it *)
(* fails or is cut off half way, and iterators see the entries in order.   *)
Entries == [i \in 1..num_entries |-> Get(i - 1)]

Abs == INSTANCE AppendLog WITH entries <- Entries

ImplementsAppendLog == Abs!Spec

===============================================================================
