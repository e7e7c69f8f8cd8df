------------------------------- MODULE CellAndVec -------------------------------
(***************************************************************************)
(* What a program that divides a stable memory between a Cell and a Vec or *)
(* a MinHeap relies on: a register and a list that do not know of each     *)
(* other, that are there again after an upgrade, and that an operation     *)
(* which panics has not touched.                                           *)
(***************************************************************************)
EXTENDS Integers, Sequences, FiniteSets

CONSTANTS CellValue, NoCell, Item, NoItem, MaxSkip

VARIABLES
  register,   \* the value of the Cell, or NoCell
  list,       \* its kind, and its items in order (a MinHeap's in any order)
  passed,     \* the positions of the list, from 0, an iterator is done with
  ret         \* the last operation, with its arguments and its result

vars == <<register, list, passed, ret>>

NoList == [kind |-> "none", items |-> <<>>]
Occurs(x, seq) == Cardinality({i \in DOMAIN seq : seq[i] = x})
SameItems(s, t) == \A x \in Item : Occurs(x, s) = Occurs(x, t)
Minimum(x, seq) == \E i \in DOMAIN seq : seq[i] = x /\ \A j \in DOMAIN seq : x =< seq[j]

Init == register = NoCell /\ list = NoList /\ passed = {} /\ ret = <<"none">>

Panic ==
  /\ \E who \in {"Cell", "Vec", "MinHeap"} : ret' = <<"panic", who>>
  /\ UNCHANGED <<register, list, passed>>

(* After an upgrade only what is in the memory is left. *)
Upgrade == ret' = <<"upgrade">> /\ passed' = {} /\ UNCHANGED <<register, list>>

OnCell ==
  /\ \E v \in CellValue :
       \/ ret' = <<"Cell::new", v>> /\ register' = v
       \/ /\ ret' = <<"Cell::init", v, IF register = NoCell THEN v ELSE register>>
          /\ register' = ret'[3]
       \/ ret' = <<"Cell::set", v, register>> /\ register # NoCell /\ register' = v
       \/ ret' = <<"Cell::get", v>> /\ register = v /\ UNCHANGED register
  /\ UNCHANGED <<list, passed>>

MakeList ==
  /\ \E kind \in {"Vec", "MinHeap"} :
       \/ ret' = <<"new", kind>> /\ list' = [kind |-> kind, items |-> <<>>]
       \/ /\ ret' = <<"init", kind>>
          /\ list.kind \in {kind, "none"}
          /\ list' = [kind |-> kind, items |-> list.items]
  /\ UNCHANGED <<register, passed>>

(* An operation on the list of that kind, with these items, leaves new. *)
VecStep(old, new) ==
  \/ \E x \in Item :
       \/ ret' = <<"Vec::push", x>> /\ new = Append(old, x)
       \/ \E i \in DOMAIN old : ret' = <<"Vec::set", i - 1, x>> /\ new = [old EXCEPT ![i] = x]
  \/ \E i \in DOMAIN old : ret' = <<"Vec::get", i - 1, old[i]>> /\ new = old
  \/ ret' = <<"Vec::get", Len(old), NoItem>> /\ new = old
  \/ ret' = <<"Vec::pop", NoItem>> /\ old = <<>> /\ new = old
  \/ \E x \in Item : ret' = <<"Vec::pop", x>> /\ old = Append(new, x)

HeapStep(old, new) ==
  \/ \E x \in Item :
       \/ ret' = <<"MinHeap::push", x>> /\ SameItems(new, Append(old, x))
       \/ ret' = <<"MinHeap::pop", x>> /\ Minimum(x, old) /\ SameItems(Append(new, x), old)
       \/ ret' = <<"MinHeap::peek", x>> /\ Minimum(x, old) /\ new = old
  \/ /\ ret' \in {<<"MinHeap::pop", NoItem>>, <<"MinHeap::peek", NoItem>>}
     /\ old = <<>> /\ new = old

OnList ==
  /\ ret'[1] \in {"Vec::push", "Vec::set", "Vec::get", "Vec::pop",
                  "MinHeap::push", "MinHeap::pop", "MinHeap::peek", "clear"}
  /\ \E old \in {list}, new \in {list'} :
       /\ new.kind = old.kind
       /\ \/ old.kind = "Vec" /\ VecStep(old.items, new.items)
          \/ old.kind = "MinHeap" /\ HeapStep(old.items, new.items)
          \/ old.kind # "none" /\ ret' = <<"clear">> /\ new.items = <<>>
  /\ UNCHANGED <<register, passed>>

(* A step of an iterator over a list with these items, which is done with  *)
(* the positions in old, and then with those in new.  It returns an item   *)
(* that is in the list now, at a position it has not passed; the list may  *)
(* have changed since the iterator was made.  From the back it also ends   *)
(* if items that it was to return have been removed.                       *)
IterStep(items, old, new) ==
  LET left == (0..(Len(items) - 1)) \ old IN
  \/ ret' = <<"iter">> /\ new \cap 0..(Len(items) - 1) = {}
  \/ ret' = <<"drop">> /\ new = {}
  \/ ret' = <<"count", Cardinality(left)>> /\ new = {}
  \/ \E n \in 0..MaxSkip :
       \/ \E i \in left :
            \/ /\ ret' = <<"nth", n, items[i + 1]>>
               /\ Cardinality({j \in left : j < i}) = n
               /\ new = old \cup 0..i
            \/ /\ ret' = <<"nth_back", n, items[i + 1]>>
               /\ Cardinality({j \in left : j > i}) =< n
               /\ old \subseteq new
               /\ new \cap left = {j \in left : j >= i}
       \/ /\ ret' = <<"nth", n, NoItem>>
          /\ Cardinality(left) =< n
          /\ old \subseteq new
       \/ /\ ret' = <<"nth_back", n, NoItem>>
          /\ Cardinality(left) =< n \/ Len(items) \notin old
          /\ old \subseteq new

OnIter ==
  /\ ret'[1] \in {"iter", "drop", "count", "nth", "nth_back"}
  /\ \E items \in {list.items}, old \in {passed}, new \in {passed'} :
       IterStep(items, old, new)
  /\ UNCHANGED <<register, list>>

Next ==
  \/ Panic
  \/ Upgrade
  \/ OnCell
  \/ MakeList
  \/ OnList
  \/ OnIter

Spec == Init /\ [][Next]_vars

===============================================================================
