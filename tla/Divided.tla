--------------------------------- MODULE Divided ---------------------------------
(***************************************************************************)
(* A stable memory divided by two RestrictedMemory views between a Cell    *)
(* and a Vec or MinHeap (src/lib.rs, src/cell.rs, src/vec.rs,              *)
(* src/min_heap.rs).  An operation runs to its end or panics.  On the IC a *)
(* panic undoes the message; on a memory of which that is not true         *)
(* (VectorMemory, FileMemory) the writes before the panic stay.  After an  *)
(* upgrade the structures are made again from the memory.                  *)
(*                                                                         *)
(* The methods of a Vec take it by a shared reference, so an iterator over *)
(* it may be alive while items are pushed, set and popped.  A MinHeap does *)
(* not change while it is iterated over, and its iterator is left out.     *)
(***************************************************************************)
EXTENDS Cell, MinHeap

CONSTANTS
  Layout,      \* programs: how they divide the memory, the kinds of list, types,
               \* items and values they use, and whether a panic is undone
  MaxSkip,     \* bound: the argument of nth
  MaxStart     \* bound: how far nth goes past the end of a list

VARIABLES
  layout,      \* the layout of this program
  mem,         \* the base memory
  cell,        \* the value in the Cell, or NoCell if there is none
  vec,         \* the Vec or MinHeap: kind and type of items
  iter,        \* the range of an iterator over it
  ret          \* the last operation, with its arguments and its result

vars == <<layout, mem, cell, vec, iter, ret>>

NoVec == [kind |-> "none"]
NoIter == <<>>
Magic(kind) == IF kind = "Vec" THEN SVC ELSE SMH
C == layout.cell
V == layout.vec
T == vec.type

Init ==
  /\ layout \in Layout
  /\ mem = EmptyMemory
  /\ cell = NoCell
  /\ vec = NoVec
  /\ iter = NoIter
  /\ ret = <<"none">>

(* The operation made m of the memory: it is done, or it panicked. *)
Done(m, result) == m.ok /\ mem' = m /\ ret' = result
Panicked(m, who) ==
  /\ ~m.ok
  /\ mem' = IF layout.undone THEN mem ELSE [m EXCEPT !.ok = TRUE]
  /\ ret' = <<"panic", who>>

-------------------------------------------------------------------------------
CellNew(v) ==
  /\ \E m \in {flush_value(mem, C, v)} :
       \/ Done(m, <<"Cell::new", v>>) /\ cell' = v
       \/ Panicked(m, "Cell") /\ UNCHANGED cell
  /\ UNCHANGED <<layout, vec, iter>>

CellInit(v) ==
  /\ \E c \in {cell_init(mem, C, v)} :
       \/ Done(c.mem, <<"Cell::init", v, c.value>>) /\ cell' = c.value
       \/ Panicked(c.mem, "Cell") /\ UNCHANGED cell
  /\ UNCHANGED <<layout, vec, iter>>

CellSet(v) ==
  /\ cell # NoCell
  /\ \E m \in {flush_value(mem, C, v)} :
       \/ Done(m, <<"Cell::set", v, cell>>) /\ cell' = v
       \/ Panicked(m, "Cell") /\ UNCHANGED cell
  /\ UNCHANGED <<layout, vec, iter>>

CellGet ==
  /\ cell # NoCell
  /\ ret' = <<"Cell::get", cell>>
  /\ UNCHANGED <<layout, mem, cell, vec, iter>>

(* A Vec or a MinHeap is made, anew or from what is in the memory. *)
VecMake(op, kind, type) ==
  /\ iter = NoIter
  /\ \E m \in {IF op = "new" THEN vec_new(mem, V, Magic(kind), type)
               ELSE vec_init(mem, V, Magic(kind), type)} :
       \/ Done(m, <<op, kind>>) /\ vec' = [kind |-> kind, type |-> type]
       \/ Panicked(m, kind) /\ UNCHANGED vec
  /\ UNCHANGED <<layout, cell, iter>>

(* An operation on the list that makes m of the memory. *)
Changes(kind, m, result) ==
  /\ vec.kind = kind
  /\ \E n \in {m} : Done(n, result) \/ Panicked(n, kind)
  /\ UNCHANGED <<layout, cell, vec, iter>>

VecPush(x) == Changes("Vec", push(mem, V, T, x), <<"Vec::push", x>>)
VecSet(i, x) == Changes("Vec", set(mem, V, T, i, x), <<"Vec::set", i, x>>)
VecGet(i) == Changes("Vec", mem, <<"Vec::get", i, get(mem, V, T, i)>>)
VecPop == Changes("Vec", pop(mem, V), <<"Vec::pop", LastEntry(mem, V, T)>>)

HeapPush(x) == Changes("MinHeap", heap_push(mem, V, T, x), <<"MinHeap::push", x>>)
HeapPop == Changes("MinHeap", heap_pop(mem, V, T), <<"MinHeap::pop", get(mem, V, T, 0)>>)
HeapPeek == Changes("MinHeap", mem, <<"MinHeap::peek", get(mem, V, T, 0)>>)

Clear ==
  /\ vec # NoVec
  /\ Changes(vec.kind, clear(mem, V), <<"clear">>)

-------------------------------------------------------------------------------
IterMake ==
  /\ vec.kind = "Vec"
  /\ iter = NoIter
  /\ iter' = <<0, len(mem, V)>>
  /\ ret' = <<"iter">>
  /\ UNCHANGED <<layout, mem, cell, vec>>

IterDrop ==
  /\ iter # NoIter
  /\ iter' = NoIter
  /\ ret' = <<"drop">>
  /\ UNCHANGED <<layout, mem, cell, vec>>

(* next is nth(0). *)
IterNth(n) ==
  LET start == iter[1] + n IN
  /\ iter # NoIter
  /\ start =< MaxStart
  /\ \/ /\ start >= iter[2] \/ len(mem, V) =< start
        /\ iter' = <<start, iter[2]>>
        /\ ret' = <<"nth", n, NoItem>>
     \/ /\ start < iter[2] /\ start < len(mem, V)
        /\ iter' = <<start + 1, iter[2]>>
        /\ ret' = <<"nth", n, read_entry(mem, V, T, start)>>
  /\ UNCHANGED <<layout, mem, cell, vec>>

(* next_back is nth_back(0). *)
IterNthBack(n) ==
  LET end == IF iter[2] < n THEN 0 ELSE iter[2] - n IN
  /\ iter # NoIter
  /\ \/ /\ iter[1] >= end \/ len(mem, V) < end
        /\ iter' = <<iter[1], end>>
        /\ ret' = <<"nth_back", n, NoItem>>
     \/ /\ iter[1] < end /\ end =< len(mem, V)
        /\ iter' = <<iter[1], end - 1>>
        /\ ret' = <<"nth_back", n, read_entry(mem, V, T, end - 1)>>
  /\ UNCHANGED <<layout, mem, cell, vec>>

(* count takes the iterator. *)
IterCount ==
  LET end == Smaller(len(mem, V), iter[2]) IN
  /\ iter # NoIter
  /\ ret' = <<"count", IF end < iter[1] THEN 0 ELSE end - iter[1]>>
  /\ iter' = NoIter
  /\ UNCHANGED <<layout, mem, cell, vec>>

Upgrade ==
  /\ cell' = NoCell
  /\ vec' = NoVec
  /\ iter' = NoIter
  /\ ret' = <<"upgrade">>
  /\ UNCHANGED <<layout, mem>>

OnCell == CellGet \/ \E v \in layout.values : CellNew(v) \/ CellInit(v) \/ CellSet(v)

OnVec ==
  \/ \E op \in {"new", "init"}, kind \in layout.kinds, type \in layout.types :
       VecMake(op, kind, type)
  \/ \E x \in layout.items : VecPush(x) \/ HeapPush(x)
  \/ /\ vec # NoVec
     /\ \E i \in 0..len(mem, V) : VecGet(i) \/ \E x \in layout.items : VecSet(i, x)
  \/ VecPop \/ HeapPop \/ HeapPeek \/ Clear
  \/ IterMake \/ IterDrop \/ IterCount
  \/ \E n \in 0..MaxSkip : IterNth(n) \/ IterNthBack(n)

Next == OnCell \/ OnVec \/ Upgrade

Spec == Init /\ [][Next]_vars

-------------------------------------------------------------------------------
TypeOK ==
  /\ layout \in Layout
  /\ mem \in Memory /\ mem.ok
  /\ cell \in CellValue \cup {NoCell}
  /\ vec = NoVec \/ vec \in [kind : {"Vec", "MinHeap"}, type : Type]
  /\ iter = NoIter \/ iter \in Nat \X Nat

(* What is in the memory: the value of a Cell, and the items of a list. *)
Register == IF HasCell(mem, C) THEN read_value(mem, C) ELSE NoCell

TypeIn(m) == CHOOSE t \in Type : read(m, V, 3, 2) = <<t.max_size, Flag(t)>>
ItemsIn(m, t, n) == [i \in 1..n |-> read_entry(m, V, t, i - 1)]
ListIn(m, magic) ==
  IF size(m, V) = 0 \/ magic \notin {SVC, SMH} THEN [kind |-> "none", items |-> <<>>]
  ELSE [kind |-> IF magic = SVC THEN "Vec" ELSE "MinHeap",
        items |-> CHOOSE s \in {ItemsIn(m, t, len(m, V)) : t \in {TypeIn(m)}} : TRUE]
List == CHOOSE l \in {ListIn(m, read(m, V, 0, 1)[1]) : m \in {mem}} : TRUE

Passed ==
  IF iter = NoIter THEN {} ELSE {i \in 0..MaxStart : i < iter[1] \/ i >= iter[2]}

(* The Cell and the list in the two parts of the memory behave as if each  *)
(* had a memory of its own, across upgrades and panics; the copy of the    *)
(* value in the Cell is never stale; the MinHeap returns its smallest item *)
(* first; and an iterator over a Vec that is changed meanwhile returns     *)
(* only items that are in the Vec at that time, from each position once.   *)
Abs == INSTANCE CellAndVec WITH register <- Register, list <- List, passed <- Passed

ImplementsCellAndVec == Abs!Spec

(* An operation on the Cell changes no unit outside the pages of the Cell, *)
(* and one on the list none outside those of the list, wherever growing    *)
(* the memory left off and also when a panic is not undone: the ranges of  *)
(* RestrictedMemory really divide the memory.                              *)
Within(r) ==
  \A i \in Units : mem'.units[i] # mem.units[i] =>
    r[1] =< i \div PageSize /\ i \div PageSize < r[2]
OfCell(result) ==
  result[1] \in {"Cell::new", "Cell::init", "Cell::set", "Cell::get"} \/ result = <<"panic", "Cell">>
StaysInRange == [][Within(IF OfCell(ret') THEN C ELSE V)]_mem

(* The HeapInvariant of src/min_heap.rs, between two operations. *)
HeapOrdered ==
  List.kind = "MinHeap" =>
    \A k \in 1..(Len(List.items) - 1) :
      List.items[(k - 1) \div 2 + 1] =< List.items[k + 1]

===============================================================================
