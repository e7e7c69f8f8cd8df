------------------------------- MODULE LogProofs -------------------------------
(***************************************************************************)
(* Proofs about Log for all items, lengths of encodings and sizes of       *)
(* pages: type correctness, that every entry can be read back at every     *)
(* moment, and the implementation of the append-only sequence.             *)
(***************************************************************************)
EXTENDS Log, TLAPS

(* What the writes of an append under way have left in the two memories:   *)
(* the bytes of the item after the last entry and then, in the index, the  *)
(* offset where they end.  Nothing else ties the third write to the first. *)
AppendUnderWay ==
  call # Idle =>
    /\ num_entries < MaxEntries
    /\ call.new_offset = Begin(num_entries) + ByteLen[call.item]
    /\ Reaches(data_pages, call.new_offset)
    /\ \A n \in 1..ByteLen[call.item] :
         data[Begin(num_entries) + n - 1] = [item |-> call.item, place |-> n]
    /\ call.pc = "index" => /\ index[num_entries] = call.new_offset
                            /\ Reaches(index_pages, num_entries + 1)

(* The inductive invariant. *)
Inv == TypeOK /\ EntriesReadable /\ AppendUnderWay

-------------------------------------------------------------------------------
(* A memory that has the room keeps it when it grows, and has it for less. *)
LEMMA ReachesLess ==
  ASSUME NEW pages \in Nat, NEW more \in Nat, NEW size \in Nat, NEW less \in Nat,
         pages =< more, less =< size, Reaches(pages, size)
  PROVE  Reaches(more, less)
<1>1. PICK d \in Nat : more = pages + d
  <2>1. more - pages \in Nat
    OBVIOUS
  <2> QED
    BY <2>1
<1>2. PageSize \in Nat /\ HeaderSize \in Nat
  BY SizeAssumption
<1>3. PageSize * more = PageSize * pages + PageSize * d
  BY <1>1, <1>2
<1>4. PageSize * pages \in Nat /\ PageSize * d \in Nat
  BY <1>1, <1>2
<1> QED
  BY <1>2, <1>3, <1>4 DEF Reaches

(* The bytes d has from b on begin with those of x. *)
Spells(d, b, x) ==
  \A n \in 1..ByteLen[x] : d[b + n - 1] = [item |-> x, place |-> n]

(* The bytes between two offsets are the bytes of one item at most, as     *)
(* from_bytes(to_bytes(x)) = x.                                            *)
LEMMA BytesTellItem ==
  ASSUME NEW b \in Nat, NEW d, NEW x \in Item, NEW y \in Item,
         ByteLen[x] = ByteLen[y],
         Spells(d, b, x), Spells(d, b, y)
  PROVE  x = y
<1>1. ByteLen[x] \in Nat /\ ByteLen[y] \in Nat
  BY ItemAssumption
<1>2. CASE ByteLen[x] = 0
  BY <1>2, ItemAssumption
<1>3. CASE ByteLen[x] # 0
  <2>1. 1 \in 1..ByteLen[x] /\ 1 \in 1..ByteLen[y]
    BY <1>1, <1>3
  <2>2. [item |-> x, place |-> 1] = [item |-> y, place |-> 1]
    BY <2>1 DEF Spells
  <2> QED
    BY <2>2
<1> QED
  BY <1>2, <1>3

(* Offsets lie in the data. *)
LEMMA BeginType ==
  ASSUME TypeOK, NEW i \in 0..MaxEntries
  PROVE  Begin(i) \in 0..MaxBytes /\ Begin(i) \in Nat
<1>1. MaxBytes \in Nat /\ MaxEntries \in Nat
  BY BoundAssumption
<1>2. CASE i = 0
  BY <1>1, <1>2 DEF Begin
<1>3. CASE i # 0
  <2>1. i - 1 \in 0..(MaxEntries - 1)
    BY <1>1, <1>3
  <2>2. index[i - 1] \in 0..MaxBytes
    BY <2>1 DEF TypeOK
  <2> QED
    BY <1>1, <1>3, <2>2 DEF Begin
<1> QED
  BY <1>2, <1>3

(* An entry that holds an item is read back as that item, before a step    *)
(* and after it.                                                           *)
LEMMA GetIs ==
  ASSUME TypeOK, NEW i \in 0..(MaxEntries - 1), NEW x \in Item, Holds(i, x)
  PROVE  Get(i) = x
<1>1. Begin(i) \in Nat
  BY BeginType, BoundAssumption
<1>2. ASSUME NEW y \in Item, Holds(i, y)
      PROVE  y = x
  <2>1. ByteLen[x] \in Nat /\ ByteLen[y] \in Nat
    BY ItemAssumption
  <2>2. ByteLen[x] = ByteLen[y]
    BY <1>1, <1>2, <2>1 DEF Holds
  <2>3. Spells(data, Begin(i), x) /\ Spells(data, Begin(i), y)
    BY <1>2, Zenon DEF Holds, Spells
  <2> QED
    BY <1>1, <2>2, <2>3, BytesTellItem
<1> QED
  BY <1>2, Zenon DEF Get

(* The same in the next state. *)
LEMMA GetIsNext ==
  ASSUME TypeOK', NEW i \in 0..(MaxEntries - 1), NEW x \in Item, Holds(i, x)'
  PROVE  Get(i)' = x
<1>1. Begin(i)' \in Nat
  <2>1. CASE i = 0
    BY <2>1 DEF Begin
  <2>2. CASE i # 0
    <3>1. i - 1 \in 0..(MaxEntries - 1)
      BY <2>2, BoundAssumption
    <3> QED
      BY <2>2, <3>1, BoundAssumption DEF Begin, TypeOK
  <2> QED
    BY <2>1, <2>2
<1>2. ASSUME NEW y \in Item, Holds(i, y)'
      PROVE  y = x
  <2>1. ByteLen[x] \in Nat /\ ByteLen[y] \in Nat
    BY ItemAssumption
  <2>2. ByteLen[x] = ByteLen[y]
    BY <1>1, <1>2, <2>1 DEF Holds
  <2>3. Spells(data', Begin(i)', x) /\ Spells(data', Begin(i)', y)
    BY <1>2, Zenon DEF Holds, Spells
  <2> QED
    BY <1>1, <2>2, <2>3, BytesTellItem
<1> QED
  BY <1>2, Zenon DEF Get

(* Entries end no later than the next one begins. *)
LEMMA EndsBefore ==
  ASSUME TypeOK, EntriesReadable, NEW i \in 0..(num_entries - 1)
  PROVE  index[i] \in Nat /\ index[i] =< Begin(num_entries)
<1>1. /\ num_entries \in Nat /\ num_entries =< MaxEntries /\ MaxEntries \in Nat
      /\ num_entries # 0
  BY BoundAssumption DEF TypeOK
<1>2. num_entries - 1 \in i..(num_entries - 1) /\ i \in 0..(MaxEntries - 1)
  BY <1>1
<1>3. index[i] =< index[num_entries - 1]
  BY <1>2 DEF EntriesReadable
<1>4. index[i] \in Nat
  BY <1>2, BoundAssumption DEF TypeOK
<1> QED
  BY <1>1, <1>3, <1>4 DEF Begin

-------------------------------------------------------------------------------
(* What the entries were before a step they are after it. *)
EntriesKept ==
  \A i \in 0..(num_entries - 1) : \A x \in Item : Holds(i, x) => Holds(i, x)'

(* A step that writes neither memory keeps the entries. *)
LEMMA NothingWritten ==
  ASSUME Inv, UNCHANGED <<num_entries, index, index_pages, data, data_pages>>
  PROVE  EntriesReadable' /\ EntriesKept /\ \A i : Get(i)' = Get(i)
<1>1. \A i, x : Holds(i, x)' = Holds(i, x)
  BY Zenon DEF Holds, Begin
<1>2. \A i : Get(i)' = Get(i)
  BY <1>1, Zenon DEF Get
<1>3. EntriesReadable'
  BY <1>1, Zenon DEF Inv, EntriesReadable, Reaches
<1> QED
  BY <1>1, <1>2, <1>3, Zenon DEF EntriesKept

(* The first write of an append, or its failure, keeps the invariant and   *)
(* the entries: it writes after the last of them.                          *)
LEMMA AppendDataKeeps ==
  ASSUME Inv, NEW item \in Item, AppendData(item)
  PROVE  Inv' /\ EntriesKept
<1> DEFINE begin == Begin(num_entries)
           end == begin + ByteLen[item]
<1> USE DEF Inv
<1>1. /\ num_entries \in Nat /\ MaxEntries \in Nat /\ MaxBytes \in Nat
      /\ num_entries < MaxEntries /\ end =< MaxBytes
      /\ call = Idle
      /\ UNCHANGED <<num_entries, index, index_pages, pos>>
  BY BoundAssumption DEF AppendData, TypeOK
<1>2. begin \in Nat /\ ByteLen[item] \in Nat /\ end \in Nat /\ end \in 0..MaxBytes
  <2>1. num_entries \in 0..MaxEntries
    BY DEF TypeOK
  <2>2. begin \in Nat
    BY <2>1, BeginType
  <2> QED
    BY <1>1, <2>2, ItemAssumption
<1>3. begin' = begin
  BY <1>1 DEF Begin
<1>4. CASE /\ \E more \in 1..(HeaderSize + end) :
                GrownTo(data_pages, more, end) /\ data_pages' = more
           /\ data' = [i \in DOMAIN data |->
                         IF begin =< i /\ i < end
                         THEN [item |-> item, place |-> i - begin + 1] ELSE data[i]]
           /\ call' = [pc |-> "data", item |-> item, new_offset |-> end]
  <2> HIDE DEF begin, end
  <2>1. /\ data_pages \in Nat /\ data_pages' \in Nat /\ data_pages =< data_pages'
        /\ Reaches(data_pages', end)
    BY <1>4, <1>2, SizeAssumption DEF TypeOK, GrownTo
  <2>2. DOMAIN data = 0..(MaxBytes - 1)
    BY DEF TypeOK
  <2>3. data' \in [0..(MaxBytes - 1) -> Byte]
    <3>1. ASSUME NEW i \in 0..(MaxBytes - 1)
          PROVE  data'[i] \in Byte
      <4>1. CASE begin =< i /\ i < end
        <5>1. data'[i] = [item |-> item, place |-> i - begin + 1]
          BY <1>4, <2>2, <4>1
        <5>2. i - begin + 1 \in Nat \ {0}
          BY <1>2, <4>1
        <5> QED
          BY <5>1, <5>2 DEF Byte
      <4>2. CASE ~(begin =< i /\ i < end)
        BY <1>4, <2>2, <4>2 DEF TypeOK
      <4> QED
        BY <4>1, <4>2
    <3> QED
      BY <1>4, <2>2, <3>1
  <2>4. TypeOK'
    BY <1>1, <1>2, <1>4, <2>1, <2>3 DEF TypeOK
  <2>5. Spells(data', begin, item)
    <3> SUFFICES ASSUME NEW n \in 1..ByteLen[item]
                 PROVE  data'[begin + n - 1] = [item |-> item, place |-> n]
      BY DEF Spells
    <3>1. /\ begin + n - 1 \in 0..(MaxBytes - 1)
          /\ begin =< begin + n - 1 /\ begin + n - 1 < end
          /\ (begin + n - 1) - begin + 1 = n
      BY <1>1, <1>2 DEF end
    <3> QED
      BY <1>4, <2>2, <3>1
  <2>6. EntriesKept
    <3> SUFFICES ASSUME NEW i \in 0..(num_entries - 1), NEW x \in Item, Holds(i, x)
                 PROVE  Holds(i, x)'
      BY DEF EntriesKept
    <3>1. index[i] \in Nat /\ index[i] =< begin
      BY EndsBefore DEF begin
    <3>2. Begin(i) \in Nat /\ ByteLen[x] \in Nat
      BY <1>1, BeginType, ItemAssumption
    <3>3. index[i] = Begin(i) + ByteLen[x]
      BY DEF Holds
    <3>4. ASSUME NEW n \in 1..ByteLen[x]
          PROVE  data'[Begin(i) + n - 1] = [item |-> x, place |-> n]
      <4>1. /\ Begin(i) + n - 1 < begin
            /\ Begin(i) + n - 1 \in 0..(MaxBytes - 1)
        BY <1>1, <1>2, <3>1, <3>2, <3>3 DEF end
      <4>2. data'[Begin(i) + n - 1] = data[Begin(i) + n - 1]
        BY <1>2, <1>4, <2>2, <4>1
      <4> QED
        BY <4>2 DEF Holds
    <3>5. Begin(i)' = Begin(i)
      BY <1>1 DEF Begin
    <3> QED
      BY <1>1, <3>3, <3>4, <3>5 DEF Holds
  <2>7. EntriesReadable'
    <3> SUFFICES ASSUME NEW i \in 0..(num_entries - 1)
                 PROVE  /\ \A j \in i..(num_entries - 1) : index[i] =< index[j]
                        /\ Reaches(data_pages', index[i])
                        /\ Reaches(index_pages, i + 1)
                        /\ \E x \in Item : Holds(i, x)'
      BY <1>1, Zenon DEF EntriesReadable
    <3>1. /\ \A j \in i..(num_entries - 1) : index[i] =< index[j]
          /\ Reaches(data_pages, index[i])
          /\ Reaches(index_pages, i + 1)
          /\ \E x \in Item : Holds(i, x)
      BY DEF EntriesReadable
    <3>2. index[i] \in Nat
      BY EndsBefore
    <3>3. Reaches(data_pages', index[i])
      BY <2>1, <3>1, <3>2, ReachesLess
    <3> QED
      BY <2>6, <3>1, <3>3 DEF EntriesKept
  <2>8. AppendUnderWay'
    <3>1. /\ call'.new_offset = end /\ call'.item = item /\ call'.pc = "data"
      BY <1>4
    <3>2. \A n \in 1..ByteLen[item] :
            data'[begin' + n - 1] = [item |-> item, place |-> n]
      BY <1>3, <2>5 DEF Spells
    <3> QED
      BY <1>1, <1>3, <2>1, <3>1, <3>2 DEF AppendUnderWay, end, begin
  <2> QED
    BY <2>4, <2>6, <2>7, <2>8
<1>5. CASE UNCHANGED <<data, data_pages, call>>
  <2>1. TypeOK'
    BY <1>1, <1>5 DEF TypeOK
  <2>2. AppendUnderWay'
    BY <1>1, <1>5 DEF AppendUnderWay
  <2> QED
    BY <1>1, <1>5, <2>1, <2>2, NothingWritten
<1> QED
  BY <1>4, <1>5 DEF AppendData

(* The second write of an append, or its failure, keeps the invariant and  *)
(* the entries: the slot it writes belongs to none of them.                *)
LEMMA AppendIndexKeeps ==
  ASSUME Inv, AppendIndex
  PROVE  Inv' /\ EntriesKept
<1> USE DEF Inv
<1>1. /\ num_entries \in Nat /\ MaxEntries \in Nat
      /\ call # Idle /\ num_entries < MaxEntries
      /\ call \in [pc : {"data", "index"}, item : Item, new_offset : 0..MaxBytes]
      /\ UNCHANGED <<num_entries, data, data_pages, pos>>
  BY BoundAssumption DEF AppendIndex, TypeOK, Idle, AppendUnderWay
<1>2. CASE /\ \E more \in 1..(HeaderSize + num_entries + 1) :
                GrownTo(index_pages, more, num_entries + 1) /\ index_pages' = more
           /\ index' = [index EXCEPT ![num_entries] = call.new_offset]
           /\ call' = [call EXCEPT !.pc = "index"]
  <2>1. /\ index_pages \in Nat /\ index_pages' \in Nat /\ index_pages =< index_pages'
        /\ Reaches(index_pages', num_entries + 1)
    BY <1>1, <1>2, SizeAssumption DEF TypeOK, GrownTo
  <2>2. /\ num_entries \in DOMAIN index
        /\ index'[num_entries] = call.new_offset
        /\ \A i \in 0..(num_entries - 1) : index'[i] = index[i]
    BY <1>1, <1>2 DEF TypeOK
  <2>3. /\ call'.new_offset = call.new_offset /\ call'.item = call.item
        /\ call' \in [pc : {"data", "index"}, item : Item, new_offset : 0..MaxBytes]
    BY <1>1, <1>2
  <2>4. TypeOK'
    BY <1>1, <1>2, <2>1, <2>3 DEF TypeOK
  <2>5. \A i \in 0..num_entries : Begin(i)' = Begin(i)
    BY <1>1, <2>2 DEF Begin
  <2>6. EntriesKept
    BY <1>1, <2>2, <2>5 DEF EntriesKept, Holds
  <2>7. EntriesReadable'
    <3> SUFFICES ASSUME NEW i \in 0..(num_entries - 1)
                 PROVE  /\ \A j \in i..(num_entries - 1) : index'[i] =< index'[j]
                        /\ Reaches(data_pages, index'[i])
                        /\ Reaches(index_pages', i + 1)
                        /\ \E x \in Item : Holds(i, x)'
      BY <1>1, Zenon DEF EntriesReadable
    <3>1. /\ \A j \in i..(num_entries - 1) : index[i] =< index[j]
          /\ Reaches(data_pages, index[i])
          /\ \E x \in Item : Holds(i, x)
      BY DEF EntriesReadable
    <3>2. Reaches(index_pages', i + 1)
      <4>1. i + 1 \in Nat /\ i + 1 =< num_entries + 1 /\ num_entries + 1 \in Nat
        BY <1>1
      <4> QED
        BY <2>1, <4>1, ReachesLess
    <3>3. \A j \in i..(num_entries - 1) : j \in 0..(num_entries - 1)
      BY <1>1
    <3> QED
      BY <2>2, <2>6, <3>1, <3>2, <3>3, Zenon DEF EntriesKept
  <2>8. AppendUnderWay'
    <3>1. Begin(num_entries)' = Begin(num_entries)
      BY <1>1, <2>5
    <3> QED
      BY <1>1, <2>1, <2>2, <2>3, <3>1 DEF AppendUnderWay
  <2> QED
    BY <2>4, <2>6, <2>7, <2>8
<1>3. CASE call' = Idle /\ UNCHANGED <<index, index_pages>>
  <2>1. TypeOK'
    BY <1>1, <1>3 DEF TypeOK
  <2>2. AppendUnderWay'
    BY <1>3 DEF AppendUnderWay
  <2> QED
    BY <1>1, <1>3, <2>1, <2>2, NothingWritten
<1> QED
  BY <1>2, <1>3 DEF AppendIndex

(* The third write makes the entry count.  It is the item of the append:   *)
(* its bytes and its end are already in place.                             *)
LEMMA AppendLenKeeps ==
  ASSUME Inv, AppendLen
  PROVE  /\ Inv' /\ EntriesKept
         /\ call.item \in Item /\ Holds(num_entries, call.item)
         /\ \A i : Get(i)' = Get(i)
<1> USE DEF Inv
<1>1. /\ num_entries \in Nat /\ MaxEntries \in Nat /\ num_entries < MaxEntries
      /\ call # Idle /\ call.pc = "index"
      /\ call.item \in Item /\ ByteLen[call.item] \in Nat
      /\ num_entries' = num_entries + 1 /\ call' = Idle
      /\ UNCHANGED <<index, index_pages, data, data_pages, pos>>
  BY BoundAssumption, ItemAssumption DEF AppendLen, TypeOK, Idle, AppendUnderWay
<1>2. Holds(num_entries, call.item)
  BY <1>1 DEF AppendUnderWay, Holds
<1>3. \A i, x : Holds(i, x)' = Holds(i, x)
  BY <1>1, Zenon DEF Holds, Begin
<1>4. TypeOK'
  BY <1>1 DEF TypeOK
<1>5. EntriesReadable'
  <2> SUFFICES ASSUME NEW i \in 0..num_entries
               PROVE  /\ \A j \in i..num_entries : index[i] =< index[j]
                      /\ Reaches(data_pages, index[i])
                      /\ Reaches(index_pages, i + 1)
                      /\ \E x \in Item : Holds(i, x)
    BY <1>1, <1>3 DEF EntriesReadable
  <2>1. /\ index[num_entries] = Begin(num_entries) + ByteLen[call.item]
        /\ Reaches(data_pages, index[num_entries])
        /\ Reaches(index_pages, num_entries + 1)
        /\ index[num_entries] \in Nat
    BY <1>1, BoundAssumption DEF AppendUnderWay, TypeOK
  <2>2. CASE i = num_entries
    BY <1>1, <1>2, <2>1, <2>2
  <2>3. CASE i \in 0..(num_entries - 1)
    <3>1. index[i] \in Nat /\ index[i] =< Begin(num_entries)
      BY <2>3, EndsBefore
    <3>2. Begin(num_entries) \in Nat
      BY <1>1, BeginType
    <3>3. index[i] =< index[num_entries]
      BY <1>1, <2>1, <3>1, <3>2
    <3> QED
      BY <1>1, <2>3, <3>3 DEF EntriesReadable
  <2> QED
    BY <1>1, <2>2, <2>3
<1>6. AppendUnderWay'
  BY <1>1 DEF AppendUnderWay
<1>7. EntriesKept
  BY <1>3, Zenon DEF EntriesKept
<1>8. \A i : Get(i)' = Get(i)
  BY <1>3, Zenon DEF Get
<1> QED
  BY <1>1, <1>2, <1>4, <1>5, <1>6, <1>7, <1>8

(* Clear forgets the entries and leaves the memories alone. *)
LEMMA ClearKeeps ==
  ASSUME Inv, Clear
  PROVE  Inv'
<1>1. TypeOK'
  BY BoundAssumption DEF Inv, Clear, TypeOK
<1>2. EntriesReadable'
  BY DEF Clear, EntriesReadable
<1>3. AppendUnderWay'
  BY DEF Clear, AppendUnderWay
<1> QED
  BY <1>1, <1>2, <1>3 DEF Inv

(* A restart, in the middle of an append too, and an iterator write        *)
(* nothing.                                                                *)
LEMMA ReinitKeeps ==
  ASSUME Inv, Reinit
  PROVE  Inv' /\ \A i : Get(i)' = Get(i)
<1>1. TypeOK'
  BY BoundAssumption DEF Inv, Reinit, TypeOK
<1>2. AppendUnderWay'
  BY DEF Reinit, AppendUnderWay
<1> QED
  BY <1>1, <1>2, NothingWritten DEF Inv, Reinit

(* An iterator reads and changes nothing but its place. *)
LEMMA NthKeeps ==
  ASSUME Inv, NEW n \in 0..MaxSkip, Nth(n)
  PROVE  Inv' /\ \A i : Get(i)' = Get(i)
<1>1. TypeOK'
  BY BoundAssumption DEF Inv, Nth, TypeOK
<1>2. AppendUnderWay'
  BY DEF Inv, Nth, AppendUnderWay
<1> QED
  BY <1>1, <1>2, NothingWritten DEF Inv, Nth

(* The invariant holds at first and every step keeps it. *)
LEMMA InvInductive ==
  /\ Init => Inv
  /\ Inv /\ [Next]_vars => Inv'
<1>1. Init => Inv
  BY BoundAssumption DEF Init, Inv, TypeOK, EntriesReadable, AppendUnderWay, Byte
<1>2. ASSUME Inv, [Next]_vars
      PROVE  Inv'
  <2>1. CASE UNCHANGED vars
    <3>1. TypeOK'
      BY <1>2, <2>1 DEF Inv, vars, TypeOK
    <3>2. AppendUnderWay'
      BY <1>2, <2>1, Zenon DEF Inv, vars, AppendUnderWay, Begin, Reaches
    <3> QED
      BY <1>2, <2>1, <3>1, <3>2, NothingWritten DEF Inv, vars
  <2>2. CASE Next
    BY <1>2, <2>2, AppendDataKeeps, AppendIndexKeeps, AppendLenKeeps, ClearKeeps,
       ReinitKeeps, NthKeeps DEF Next
  <2> QED
    BY <1>2, <2>1, <2>2
<1> QED
  BY <1>1, <1>2

(* The types of the two memories, the append under way and the iterator,   *)
(* for every log.                                                          *)
THEOREM TypeCorrect == Spec => []TypeOK
<1>1. Inv => TypeOK
  BY DEF Inv
<1> QED
  BY InvInductive, <1>1, PTL DEF Spec

(* Whatever appends wrote, gave up on or left half done, and whatever was  *)
(* there before a clear: every entry below num_entries lies in the memory, *)
(* after the ones before it, and holds the bytes of an item.               *)
THEOREM EntriesStayReadable == Spec => []EntriesReadable
<1>1. Inv => EntriesReadable
  BY DEF Inv
<1> QED
  BY InvInductive, <1>1, PTL DEF Spec

-------------------------------------------------------------------------------
(* The refinement of AppendLog. *)

(* An entry that is kept is read back as before. *)
LEMMA EntriesSame ==
  ASSUME Inv, Inv', EntriesKept
  PROVE  \A i \in 0..(num_entries - 1) : Get(i)' = Get(i)
<1> SUFFICES ASSUME NEW i \in 0..(num_entries - 1)
             PROVE  Get(i)' = Get(i)
  OBVIOUS
<1>1. i \in 0..(MaxEntries - 1)
  BY BoundAssumption DEF Inv, TypeOK
<1>2. PICK x \in Item : Holds(i, x)
  BY DEF Inv, EntriesReadable
<1>3. Holds(i, x)'
  BY <1>2 DEF EntriesKept
<1> QED
  BY <1>1, <1>2, <1>3, GetIs, GetIsNext DEF Inv

(* As long as no entry is added, entries that are kept are the sequence    *)
(* of before.                                                              *)
LEMMA SequenceSame ==
  ASSUME Inv, num_entries' = num_entries,
         \A i \in 0..(num_entries - 1) : Get(i)' = Get(i)
  PROVE  Entries' = Entries
<1>1. \A i \in 1..num_entries : i - 1 \in 0..(num_entries - 1)
  BY BoundAssumption DEF Inv, TypeOK
<1>2. \A i \in 1..num_entries : Get(i - 1)' = Get(i - 1)
  BY <1>1, Zenon
<1> QED
  BY <1>2, Zenon DEF Entries

(* The initial log is the empty sequence, and every step of Log is a step  *)
(* of AppendLog or leaves what it shows as it is.  The first two writes of *)
(* an append, and a restart that cuts it off, are invisible.               *)
LEMMA StepRefines ==
  ASSUME Inv, [Next]_vars
  PROVE  [Abs!Next]_(Abs!vars)
<1>0. Inv'
  BY InvInductive
<1>1. ASSUME NEW item \in Item, AppendData(item)
      PROVE  Abs!Fail \/ UNCHANGED Abs!vars
  <2>1. Entries' = Entries
    BY <1>0, <1>1, AppendDataKeeps, EntriesSame, SequenceSame DEF AppendData
  <2> QED
    BY <1>1, <2>1 DEF AppendData, Abs!Fail, Abs!vars
<1>2. ASSUME AppendIndex
      PROVE  Abs!Fail \/ UNCHANGED Abs!vars
  <2>1. Entries' = Entries
    BY <1>0, <1>2, AppendIndexKeeps, EntriesSame, SequenceSame DEF AppendIndex
  <2> QED
    BY <1>2, <2>1 DEF AppendIndex, Abs!Fail, Abs!vars
<1>3. ASSUME AppendLen
      PROVE  \E item \in Item : Abs!Push(item)
  <2>1. /\ call.item \in Item /\ Holds(num_entries, call.item)
        /\ \A i : Get(i)' = Get(i)
        /\ num_entries \in Nat /\ num_entries \in 0..(MaxEntries - 1)
        /\ num_entries' = num_entries + 1
    <3>1. call # Idle
      BY <1>3 DEF AppendLen, Idle
    <3> QED
      BY <1>3, <3>1, AppendLenKeeps, BoundAssumption
         DEF AppendLen, Inv, TypeOK, AppendUnderWay
  <2>2. Get(num_entries) = call.item
    BY <2>1, GetIs DEF Inv
  <2>3. Entries' = [i \in 1..(num_entries + 1) |-> Get(i - 1)]
    BY <2>1, Zenon DEF Entries
  <2>4. Entries' = Append(Entries, call.item)
    BY <2>1, <2>2, <2>3 DEF Entries
  <2>5. Len(Entries) = num_entries
    BY <2>1 DEF Entries
  <2> QED
    BY <1>3, <2>1, <2>4, <2>5 DEF AppendLen, Abs!Push
<1>4. ASSUME Clear
      PROVE  Abs!Clear
  <2>1. Entries' = <<>>
    BY <1>4 DEF Clear, Entries
  <2> QED
    BY <1>4, <2>1 DEF Clear, Abs!Clear
<1>5. ASSUME Reinit
      PROVE  Abs!Iter
  <2>1. Entries' = Entries
    BY <1>5, ReinitKeeps, SequenceSame DEF Reinit
  <2> QED
    BY <1>5, <2>1 DEF Reinit, Abs!Iter
<1>6. ASSUME NEW n \in 0..MaxSkip, Nth(n)
      PROVE  Abs!Skip(n)
  <2>1. Entries' = Entries
    BY <1>6, NthKeeps, SequenceSame DEF Nth
  <2>2. num_entries \in Nat /\ pos \in Nat /\ n \in Nat
    BY BoundAssumption DEF Inv, TypeOK
  <2>3. Len(Entries) = num_entries
    BY <2>2 DEF Entries
  <2>4. pos + n < num_entries => Entries[pos + n + 1] = Get(pos + n)
    <3>1. pos + n < num_entries => pos + n + 1 \in 1..num_entries
      BY <2>2
    <3>2. (pos + n + 1) - 1 = pos + n
      BY <2>2
    <3> QED
      BY <3>1, <3>2 DEF Entries
  <2> QED
    BY <1>6, <2>1, <2>2, <2>3, <2>4 DEF Nth, Abs!Skip
<1>7. ASSUME UNCHANGED vars
      PROVE  UNCHANGED Abs!vars
  BY <1>7, NothingWritten, SequenceSame DEF vars, Abs!vars
<1> QED
  BY <1>1, <1>2, <1>3, <1>4, <1>5, <1>6, <1>7 DEF Next, Abs!Next

(* A Log is an append-only sequence: an append adds its item at the end,   *)
(* all of it or nothing, on a memory that cannot grow or that keeps what a *)
(* failed call wrote; and an iterator that lives across appends and clears *)
(* yields what is at its position.                                         *)
THEOREM LogImplementsAppendLog == Spec => ImplementsAppendLog
<1>1. Init => Abs!Init
  BY DEF Init, Abs!Init, Entries
<1>2. Inv /\ [Next]_vars => [Abs!Next]_(Abs!vars)
  BY StepRefines
<1> QED
  BY InvInductive, <1>1, <1>2, PTL DEF Spec, ImplementsAppendLog, Abs!Spec

===============================================================================
