-------------------------------- MODULE BTreeIter --------------------------------
(***************************************************************************)
(* The iterators of the stable BTreeMap (src/btreemap/iter.rs).  An        *)
(* iterator borrows the map, so the map does not change while it is alive. *)
(* It can be asked for entries from both ends in any order, and sets up    *)
(* the stack of cursors of an end when that end is first asked, with the   *)
(* range that the other end has left by then.                              *)
(*                                                                         *)
(* A cursor is the address of a node that is still to be visited, or a     *)
(* node and the child or entry of it to continue with.  The code keeps the *)
(* loaded node in the cursor; the model keeps its address.                 *)
(***************************************************************************)
EXTENDS BTreeMap

LOCAL INSTANCE SequencesExt

CONSTANTS
  Start, End,   \* bound: the bounds tried in range, as pairs <<kind, key>>
  IterSizes     \* bound: the lengths of the maps that are iterated over

VARIABLES
  iter,         \* the iterator alive, or None
  item          \* the last request to an iterator, with its answer

iterVars == <<iter, item>>
allVars == <<vars, iterVars>>

Unbounded == <<"Unbounded">>
Included(k) == <<"Included", k>>
Excluded(k) == <<"Excluded", k>>

contains(range, k) ==
  /\ \/ range[1][1] = "Unbounded"
     \/ range[1][1] = "Included" /\ k >= range[1][2]
     \/ range[1][1] = "Excluded" /\ k > range[1][2]
  /\ \/ range[2][1] = "Unbounded"
     \/ range[2][1] = "Included" /\ k =< range[2][2]
     \/ range[2][1] = "Excluded" /\ k < range[2][2]

Cursors(range, initialized) ==
  [forward_cursors_initialized |-> initialized, forward_cursors |-> <<>>,
   backward_cursors_initialized |-> initialized, backward_cursors |-> <<>>,
   range |-> range]

new_in_range(range) == Cursors(range, FALSE)
null == Cursors(<<Unbounded, Unbounded>>, TRUE)

(* The cursor of entry i of the node at address a, if it is in the range. *)
EntryInRange(range, a, i) ==
  IF i \in DOMAIN nodes[a].entries /\ contains(range, nodes[a].entries[i].key)
  THEN << <<"Entry", a, i>> >> ELSE <<>>

(* The way down to the start of the range.  If it is in the map and not    *)
(* included, the iteration starts from the child after it.                 *)
ForwardCursors(range) ==
  LET k == range[1][2]
      down[a \in DOMAIN nodes] ==
        LET n == nodes[a]
            i == search(n, k)
        IN IF Has(n, k)
           THEN IF range[1][1] = "Included" THEN << <<"Entry", a, i>> >>
                ELSE EntryInRange(range, a, i + 1) \o
                     (IF n.node_type = "Leaf" THEN <<>> ELSE << <<"Address", n.children[i + 1]>> >>)
           ELSE EntryInRange(range, a, i) \o
                (IF n.node_type = "Leaf" THEN <<>> ELSE down[n.children[i]])
  IN down[root_addr]

BackwardCursors(range) ==
  LET k == range[2][2]
      down[a \in DOMAIN nodes] ==
        LET n == nodes[a]
            i == search(n, k)
        IN IF Has(n, k)
           THEN IF range[2][1] = "Included" THEN << <<"Entry", a, i>> >>
                ELSE EntryInRange(range, a, i - 1) \o
                     (IF n.node_type = "Leaf" THEN <<>> ELSE << <<"Address", n.children[i]>> >>)
           ELSE EntryInRange(range, a, i - 1) \o
                (IF n.node_type = "Leaf" THEN <<>> ELSE down[n.children[i]])
  IN down[root_addr]

initialize_forward_cursors(it) ==
  [it EXCEPT !.forward_cursors_initialized = TRUE,
             !.forward_cursors = IF it.range[1] = Unbounded THEN << <<"Address", root_addr>> >>
                                 ELSE ForwardCursors(it.range)]

initialize_backward_cursors(it) ==
  [it EXCEPT !.backward_cursors_initialized = TRUE,
             !.backward_cursors = IF it.range[2] = Unbounded THEN << <<"Address", root_addr>> >>
                                  ELSE BackwardCursors(it.range)]

(* The iteration is over: the stacks of both ends are cleared. *)
Ended(it) == [it EXCEPT !.forward_cursors = <<>>, !.backward_cursors = <<>>]

-------------------------------------------------------------------------------
(* Mutant: the range is not narrowed, so that the ends do not see each     *)
(* other.                                                                  *)
TakenKeeps(it, end, k) == it.range

(* The range left once the entry with key k has been taken from an end. *)
Taken(it, end, k) == [it.range EXCEPT ![end] = Excluded(k)]

(* The iterator after an answer from the front, and the answer. *)
RECURSIVE next_map(_)
next_map(it) ==
  IF ~it.forward_cursors_initialized THEN next_map(initialize_forward_cursors(it))
  ELSE IF it.forward_cursors = <<>> THEN [iter |-> it, item |-> None]
  ELSE
  LET c == Last(it.forward_cursors)
      n == nodes[c[2]]
      i == c[3]
      Push(cs) == [it EXCEPT !.forward_cursors = Front(@) \o cs]
  IN CASE c[1] = "Address" /\ c[2] = NULL -> next_map(Push(<<>>))
       [] c[1] = "Address" /\ c[2] # NULL ->
            next_map(Push(<< <<IF n.node_type = "Leaf" THEN "Entry" ELSE "Child", c[2], 1>> >>))
       [] c[1] = "Child" ->
            next_map(Push((IF i =< Len(n.entries) THEN << <<"Entry", c[2], i>> >> ELSE <<>>)
                          \o << <<"Address", n.children[i]>> >>))
       [] c[1] = "Entry" ->
            IF ~contains(it.range, n.entries[i].key) THEN [iter |-> Ended(it), item |-> None]
            ELSE [item |-> n.entries[i],
                  iter |-> [Push(IF n.node_type = "Internal" THEN << <<"Child", c[2], i + 1>> >>
                                 ELSE IF i < Len(n.entries) THEN << <<"Entry", c[2], i + 1>> >>
                                 ELSE <<>>)
                            EXCEPT !.range = Taken(it, 1, n.entries[i].key)]]

(* The same from the back. *)
RECURSIVE next_back_map(_)
next_back_map(it) ==
  IF ~it.backward_cursors_initialized THEN next_back_map(initialize_backward_cursors(it))
  ELSE IF it.backward_cursors = <<>> THEN [iter |-> it, item |-> None]
  ELSE
  LET c == Last(it.backward_cursors)
      n == nodes[c[2]]
      i == c[3]
      Push(cs) == [it EXCEPT !.backward_cursors = Front(@) \o cs]
  IN CASE c[1] = "Address" /\ c[2] = NULL -> next_back_map(Push(<<>>))
       [] c[1] = "Address" /\ c[2] # NULL ->
            next_back_map(Push(IF n.node_type = "Leaf"
                               THEN << <<"Entry", c[2], Len(n.entries)>> >>
                               ELSE << <<"Child", c[2], Len(n.children)>> >>))
       [] c[1] = "Child" ->
            next_back_map(Push((IF i > 1 THEN << <<"Entry", c[2], i - 1>> >> ELSE <<>>)
                               \o << <<"Address", n.children[i]>> >>))
       [] c[1] = "Entry" ->
            IF ~contains(it.range, n.entries[i].key) THEN [iter |-> Ended(it), item |-> None]
            ELSE [item |-> n.entries[i],
                  iter |-> [Push(IF n.node_type = "Internal" THEN << <<"Child", c[2], i>> >>
                                 ELSE IF i > 1 THEN << <<"Entry", c[2], i - 1>> >>
                                 ELSE <<>>)
                            EXCEPT !.range = Taken(it, 2, n.entries[i].key)]]

RECURSIVE CountFrom(_, _)
CountFrom(it, cnt) ==
  LET r == next_map(it)
  IN IF r.item = None THEN cnt ELSE CountFrom(r.iter, cnt + 1)

-------------------------------------------------------------------------------
Nothing == <<"none">>

(* The map is at rest and nothing borrows it. *)
Unborrowed == call = Idle /\ iter = None /\ length \in IterSizes

MakeIter(it, of) ==
  /\ Unborrowed
  /\ iter' = it
  /\ item' = of
  /\ UNCHANGED vars

iter_internal == MakeIter(new_in_range(<<Unbounded, Unbounded>>), <<"iter">>)

RangeIter(s, e) == IF root_addr = NULL THEN null ELSE new_in_range(<<s, e>>)

range_internal(s, e) == MakeIter(RangeIter(s, e), <<"range", s, e>>)

iter_from_prev_key(bound) ==
  LET prev == next_back_map(RangeIter(Unbounded, Excluded(bound))).item
  IN MakeIter(IF prev = None THEN null ELSE new_in_range(<<Included(prev.key), Unbounded>>),
              <<"iter_from_prev_key", bound>>)

next ==
  /\ iter # None
  /\ \E r \in {next_map(iter)} :
       iter' = r.iter /\ item' = <<"next", r.item>>
  /\ UNCHANGED vars

next_back ==
  /\ iter # None
  /\ \E r \in {next_back_map(iter)} :
       iter' = r.iter /\ item' = <<"next_back", r.item>>
  /\ UNCHANGED vars

(* count takes the iterator. *)
count ==
  /\ iter # None
  /\ item' = <<"count", CountFrom(iter, 0)>>
  /\ iter' = None
  /\ UNCHANGED vars

(* The iterator is dropped; the map may change again. *)
Drop ==
  /\ iter # None
  /\ iter' = None
  /\ item' = Nothing
  /\ UNCHANGED vars

ChangeMap == iter = None /\ Next /\ iter' = None /\ item' = Nothing

IterInit == Init /\ iter = None /\ item = Nothing

IterStep ==
  \/ iter_internal
  \/ \E s \in Start, e \in End : range_internal(s, e)
  \/ \E k \in Key : iter_from_prev_key(k)
  \/ next
  \/ next_back
  \/ count
  \/ Drop

IterNext == ChangeMap \/ IterStep

IterSpec == IterInit /\ [][IterNext]_allVars

-------------------------------------------------------------------------------
Cursor ==
  ({"Address"} \X (Address \cup {NULL})) \cup ({"Child", "Entry"} \X Address \X (1..2 * B))

IterTypeOK ==
  /\ TypeOK
  /\ iter # None =>
       /\ iter.forward_cursors_initialized \in BOOLEAN
       /\ iter.backward_cursors_initialized \in BOOLEAN
       /\ iter.forward_cursors \in Seq(Cursor)
       /\ iter.backward_cursors \in Seq(Cursor)
  /\ item[1] \in {"next", "next_back"} => item[2] \in Entry \cup {None}
  /\ item[1] = "count" => item[2] \in Nat

(* The entries an iterator has yet to return. *)
Remaining ==
  IF iter = None \/ iter = Cursors(iter.range, TRUE) THEN {}
  ELSE {[key |-> k, value |-> Contents[k]] : k \in {k \in DOMAIN Contents : contains(iter.range, k)}}

(* The iterators of a BTreeMap return what they should, over every tree,   *)
(* for every range, however the calls for the two ends and for the count   *)
(* are mixed: no entry twice, none left out, none outside the range, and   *)
(* None only when nothing is left.                                         *)
IterAbs == INSTANCE SortedIter WITH contents <- Contents, remaining <- Remaining

ImplementsSortedIter == IterAbs!Spec

===============================================================================
