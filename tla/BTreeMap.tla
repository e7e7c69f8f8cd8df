-------------------------------- MODULE BTreeMap --------------------------------
(***************************************************************************)
(* The stable BTreeMap (src/btreemap.rs, src/btreemap/node.rs): a B-tree   *)
(* of minimum degree B whose nodes live in chunks of an Allocator.         *)
(*                                                                         *)
(* insert_nonfull and remove_helper go down the tree one node per call of  *)
(* themselves; each such call is one step here, and the variable call says *)
(* at which node it is.  What an operation does to the contents of the map *)
(* it does in its last step; the steps before only rearrange nodes.        *)
(*                                                                         *)
(* A node is known by its address.  The allocator hands out an address     *)
(* that is not in use, which Allocator specifies; the code compares        *)
(* addresses only with each other and with NULL.                           *)
(***************************************************************************)
EXTENDS BTreeNode, SequencesExt

CONSTANTS
  None,         \* Option::None
  Inserted      \* bound: the entries tried in inserts

ASSUME InsertedAssumption == Inserted \subseteq [key : Key, value : Value]

VARIABLES
  nodes,        \* the nodes in memory, by address
  root_addr,    \* the fields of the BTreeMap ...
  length,
  header,       \* ... and their copy in memory
  call,         \* the operation under way
  ret           \* the last operation and the entry it replaced or removed

vars == <<nodes, root_addr, length, header, call, ret>>

Idle == [op |-> "idle"]
Child(n, i) == nodes[n.children[i]]

(* The first and the last entry of a subtree. *)
get_min(a) ==
  LET min[x \in DOMAIN nodes] ==
        IF nodes[x].node_type = "Leaf" THEN Head(nodes[x].entries)
                                       ELSE min[Head(nodes[x].children)]
  IN min[a]
get_max(a) ==
  LET max[x \in DOMAIN nodes] ==
        IF nodes[x].node_type = "Leaf" THEN Last(nodes[x].entries)
                                       ELSE max[Last(nodes[x].children)]
  IN max[a]

(* Where get finds the key k. *)
traverse(k) ==
  LET find[x \in DOMAIN nodes] ==
        IF Has(nodes[x], k) THEN x
        ELSE IF nodes[x].node_type = "Leaf" THEN NULL
        ELSE find[nodes[x].children[search(nodes[x], k)]]
  IN IF root_addr = NULL THEN NULL ELSE find[root_addr]

(* The memory ns with the nodes of new saved. *)
Saved(ns, new) ==
  [a \in DOMAIN ns \cup DOMAIN new |-> IF a \in DOMAIN new THEN new[a] ELSE ns[a]]
Freed(ns, a) == [x \in DOMAIN ns \ {a} |-> ns[x]]
Unused == Address \ DOMAIN nodes

(* Mutant: the header in memory is forgotten. *)
SaveHeaderForgotten(root, len) ==
  root_addr' = root /\ length' = len /\ UNCHANGED header

SaveHeader(root, len) ==
  /\ root_addr' = root
  /\ length' = len
  /\ header' = [root_addr |-> root, length |-> len]

Return(request, e) == call' = Idle /\ ret' = [of |-> request, entry |-> e]

-------------------------------------------------------------------------------
Init ==
  /\ nodes = <<>>
  /\ root_addr = NULL
  /\ length = 0
  /\ header = [root_addr |-> NULL, length |-> 0]
  /\ call = Idle
  /\ ret = [of |-> [op |-> "new"], entry |-> None]

update_value(a, e) ==
  LET i == search(nodes[a], e.key) IN
  /\ nodes' = [nodes EXCEPT ![a].entries[i] = e]
  /\ Return([op |-> "insert", entry |-> e], nodes[a].entries[i])
  /\ UNCHANGED <<root_addr, length, header>>

(* Mutant: the entry after the median goes up in its place. *)
split_child_late(a, p, i, s) ==
  LET c == p.children[i]
      full == nodes[c]
  IN Saved(nodes, [x \in {a, c, s} |->
       IF x = a THEN [p EXCEPT !.entries = InsertAt(@, i, full.entries[B + 1]),
                               !.children = InsertAt(@, i + 1, s)]
       ELSE IF x = c THEN [full EXCEPT !.entries = SubSeq(@, 1, B - 1)]
       ELSE [full EXCEPT !.entries = SubSeq(@, B + 1, Len(@))]])

(* The memory after the full child i of the node p, which is at address a  *)
(* and not full, has been split; s is the address of its new sibling.      *)
split_child(a, p, i, s) ==
  LET c == p.children[i]
      full == nodes[c]
      Part(seq, m, n) == IF full.node_type = "Leaf" THEN seq ELSE SubSeq(seq, m, n)
      sibling == [full EXCEPT !.entries = SubSeq(@, B + 1, Len(@)),
                              !.children = Part(@, B + 1, Len(@))]
      rest == [full EXCEPT !.entries = SubSeq(@, 1, B - 1),
                           !.children = Part(@, 1, B)]
      parent == [p EXCEPT !.entries = InsertAt(@, i, full.entries[B]),
                          !.children = InsertAt(@, i + 1, s)]
  IN Saved(nodes, [x \in {a, c, s} |->
                     IF x = a THEN parent ELSE IF x = c THEN rest ELSE sibling])

Inserting(a, e) == [op |-> "insert", of |-> [op |-> "insert", entry |-> e], at |-> a]

insert(e) ==
  /\ call = Idle
  /\ \/ /\ root_addr = NULL
        /\ \E a \in Unused :
             /\ nodes' = Saved(nodes, [x \in {a} |-> EmptyNode("Leaf")])
             /\ SaveHeader(a, length)
             /\ call' = Inserting(a, e)
        /\ UNCHANGED ret
     \/ /\ root_addr # NULL
        /\ Has(nodes[root_addr], e.key)
        /\ update_value(root_addr, e)
     \/ /\ root_addr # NULL
        /\ ~Has(nodes[root_addr], e.key)
        /\ is_full(nodes[root_addr])
        /\ \E a \in Unused : \E s \in Unused \ {a} :
             /\ nodes' = split_child(a, [EmptyNode("Internal") EXCEPT
                                           !.children = <<root_addr>>], 1, s)
             /\ SaveHeader(a, length)
             /\ call' = Inserting(a, e)
        /\ UNCHANGED ret
     \/ /\ root_addr # NULL
        /\ ~Has(nodes[root_addr], e.key)
        /\ ~is_full(nodes[root_addr])
        /\ call' = Inserting(root_addr, e)
        /\ UNCHANGED <<nodes, root_addr, length, header, ret>>

insert_nonfull ==
  LET a == call.at
      n == nodes[a]
      e == call.of.entry
      i == search(n, e.key)
  IN
  /\ call.op = "insert"
  /\ \/ /\ Has(n, e.key)
        /\ update_value(a, e)
     \/ /\ ~Has(n, e.key)
        /\ n.node_type = "Leaf"
        /\ nodes' = [nodes EXCEPT ![a].entries = InsertAt(@, i, e)]
        /\ SaveHeader(root_addr, length + 1)
        /\ Return(call.of, None)
     \/ /\ ~Has(n, e.key)
        /\ n.node_type = "Internal"
        /\ \/ /\ ~is_full(Child(n, i))
              /\ call' = [call EXCEPT !.at = n.children[i]]
              /\ UNCHANGED <<nodes, root_addr, length, header, ret>>
           \/ /\ is_full(Child(n, i))
              /\ Has(Child(n, i), e.key)
              /\ update_value(n.children[i], e)
           \/ /\ is_full(Child(n, i))
              /\ ~Has(Child(n, i), e.key)
              /\ \E s \in Unused : nodes' = split_child(a, n, i, s)
              /\ call' = [call EXCEPT !.at =
                            nodes'[a].children[search(nodes'[a], e.key)]]
              /\ UNCHANGED <<root_addr, length, header, ret>>

-------------------------------------------------------------------------------
(* A removal of the key k that is at node a.  When the key to remove is in *)
(* an internal node, the code removes its predecessor or successor first   *)
(* and puts that one in its place on return: swaps holds the nodes, as     *)
(* they were loaded, that wait for this.                                   *)
StartRemove(request, k) ==
  /\ call' = [op |-> "remove", of |-> request, at |-> root_addr, key |-> k, swaps |-> <<>>]
  /\ UNCHANGED <<nodes, root_addr, length, header, ret>>

ReturnNone(request) ==
  /\ Return(request, None)
  /\ UNCHANGED <<nodes, root_addr, length, header>>

remove(k) ==
  LET request == [op |-> "remove", key |-> k] IN
  /\ call = Idle
  /\ \/ root_addr # NULL /\ StartRemove(request, k)
     \/ root_addr = NULL /\ ReturnNone(request)

pop_first ==
  LET request == [op |-> "pop_first"] IN
  /\ call = Idle
  /\ \/ root_addr # NULL /\ StartRemove(request, get_min(root_addr).key)
     \/ root_addr = NULL /\ ReturnNone(request)

pop_last ==
  LET request == [op |-> "pop_last"] IN
  /\ call = Idle
  /\ \/ root_addr # NULL /\ StartRemove(request, get_max(root_addr).key)
     \/ root_addr = NULL /\ ReturnNone(request)

(* Case 1, and the swaps of case 2 that wait for it. *)
RemoveFromLeaf ==
  LET a == call.at
      n == nodes[a]
      i == search(n, call.key)
      rest == [n EXCEPT !.entries = RemoveAt(@, i)]
      left == IF rest.entries = <<>> THEN Freed(nodes, a)
                                     ELSE Saved(nodes, [x \in {a} |-> rest])
      swapped == [x \in {call.swaps[j].at : j \in DOMAIN call.swaps} |->
                    LET s == CHOOSE s \in {call.swaps[j] : j \in DOMAIN call.swaps} : s.at = x
                    IN [s.node EXCEPT !.entries[s.idx] = s.entry]]
  IN
  /\ call.op = "remove"
  /\ n.node_type = "Leaf"
  /\ \/ /\ Has(n, call.key)
        /\ nodes' = Saved(left, swapped)
        /\ SaveHeader(IF rest.entries = <<>> THEN NULL ELSE root_addr, length - 1)
        /\ Return(call.of, IF call.swaps = <<>> THEN n.entries[i]
                  ELSE call.swaps[1].node.entries[call.swaps[1].idx])
     \/ /\ ~Has(n, call.key)
        /\ ReturnNone(call.of)

(* Mutant: the neighbour is removed from the node itself. *)
RemoveNeighbourHere(i, c, neighbour) ==
  /\ call' = [call EXCEPT !.key = neighbour.key]
  /\ UNCHANGED <<nodes, root_addr, length, header, ret>>

(* Case 2.a, with the child before the key, and case 2.b, with the child   *)
(* after it: the entry next to the key takes its place.                    *)
RemoveNeighbour(i, c, neighbour) ==
  /\ call' = [call EXCEPT
       !.at = c, !.key = neighbour.key,
       !.swaps = Append(@, [at |-> call.at, node |-> nodes[call.at],
                            idx |-> i, entry |-> neighbour])]
  /\ UNCHANGED <<nodes, root_addr, length, header, ret>>

(* Mutants: the source always comes last; the source is not freed. *)
merge_unordered(source, into, median) ==
  LET s == nodes[source]
      t == nodes[into]
  IN Freed(Saved(nodes, [x \in {into} |->
             [t EXCEPT !.entries = @ \o <<median>> \o s.entries,
                       !.children = @ \o s.children]]), source)

merge_leaks(source, into, median) ==
  Saved(merge_unordered(source, into, median), [x \in {source} |-> nodes[source]])

(* The memory after source has been merged into the node at address into,  *)
(* with the median between them.                                           *)
merge(source, into, median) ==
  LET s == nodes[source]
      t == nodes[into]
      Joined(l, r) == [l EXCEPT !.entries = @ \o <<median>> \o r.entries,
                                !.children = @ \o r.children]
      both == IF s.entries[1].key > t.entries[1].key THEN Joined(t, s) ELSE Joined(s, t)
  IN Freed(Saved(nodes, [x \in {into} |-> both]), source)

(* Cases 2.c and 3.b: child from is merged into child to.  The node loses  *)
(* entry i and child from, and is freed if it has no entry left, which     *)
(* should happen to the root only.                                         *)
MergeChildren(i, from, to) ==
  LET a == call.at
      n == nodes[a]
      into == n.children[to]
      rest == [n EXCEPT !.entries = RemoveAt(@, i), !.children = RemoveAt(@, from)]
      merged == merge(n.children[from], into, n.entries[i])
      root == IF a = root_addr THEN into ELSE root_addr
  IN
  /\ \/ /\ rest.entries = <<>>
        /\ nodes' = Freed(merged, a)
        /\ SaveHeader(root, length)
     \/ /\ rest.entries # <<>>
        /\ nodes' = Saved(merged, [x \in {a} |-> rest])
        /\ UNCHANGED <<root_addr, length, header>>
  /\ call' = [call EXCEPT !.at = into]
  /\ UNCHANGED ret

(* Case 3.a: entry i of the node goes down into child c, and an entry of   *)
(* its sibling s, the last or the first, takes its place; between internal *)
(* nodes a child moves with it.                                            *)
Rotate(i, c, s) ==
  LET a == call.at
      n == nodes[a]
      fromLeft == n.children[i] = s
      sib == nodes[s]
      j == IF fromLeft THEN Len(sib.entries) ELSE 1
      Moved(seq) == IF seq = <<>> THEN <<>>
                    ELSE <<IF fromLeft THEN Last(seq) ELSE Head(seq)>>
      Kept(seq) == IF seq = <<>> THEN <<>>
                   ELSE IF fromLeft THEN Front(seq) ELSE Tail(seq)
      Joined(old, new) == IF fromLeft THEN new \o old ELSE old \o new
      node == [n EXCEPT !.entries[i] = sib.entries[j]]
      child == [nodes[c] EXCEPT !.entries = Joined(@, <<n.entries[i]>>),
                                !.children = Joined(@, Moved(sib.children))]
      sibling == [sib EXCEPT !.entries = Kept(@), !.children = Kept(@)]
  IN
  /\ nodes' = Saved(nodes, [x \in {a, c, s} |->
                 IF x = a THEN node ELSE IF x = c THEN child ELSE sibling])
  /\ call' = [call EXCEPT !.at = c]
  /\ UNCHANGED <<root_addr, length, header, ret>>

(* remove_helper at an internal node. *)
RemoveFromInternal ==
  LET n == nodes[call.at]
      i == search(n, call.key)
      CanGive(j) == j \in DOMAIN n.children /\ ~at_minimum(Child(n, j))
  IN
  /\ call.op = "remove"
  /\ n.node_type = "Internal"
  /\ \/ /\ Has(n, call.key)
        /\ \/ CanGive(i) /\ RemoveNeighbour(i, n.children[i], get_max(n.children[i]))
           \/ /\ ~CanGive(i) /\ CanGive(i + 1)
              /\ RemoveNeighbour(i, n.children[i + 1], get_min(n.children[i + 1]))
           \/ /\ ~CanGive(i) /\ ~CanGive(i + 1)
              /\ MergeChildren(i, i + 1, i)
     \/ /\ ~Has(n, call.key)
        /\ \/ /\ CanGive(i)
              /\ call' = [call EXCEPT !.at = n.children[i]]
              /\ UNCHANGED <<nodes, root_addr, length, header, ret>>
           \/ ~CanGive(i) /\ CanGive(i - 1) /\ Rotate(i - 1, n.children[i], n.children[i - 1])
           \/ /\ ~CanGive(i) /\ ~CanGive(i - 1) /\ CanGive(i + 1)
              /\ Rotate(i, n.children[i], n.children[i + 1])
           \/ /\ ~CanGive(i) /\ ~CanGive(i - 1) /\ ~CanGive(i + 1)
              /\ \/ i > 1 /\ MergeChildren(i - 1, i, i - 1)
                 \/ i = 1 /\ MergeChildren(i, i, i + 1)

(* Mutant: the root address is not reset. *)
clear_newKeepsRoot ==
  /\ call = Idle
  /\ nodes' = <<>>
  /\ SaveHeader(root_addr, 0)
  /\ Return([op |-> "clear"], None)

clear_new ==
  /\ call = Idle
  /\ nodes' = <<>>
  /\ SaveHeader(NULL, 0)
  /\ Return([op |-> "clear"], None)

(* After an upgrade the map is made from the header in memory. *)
load ==
  /\ call = Idle
  /\ root_addr' = header.root_addr
  /\ length' = header.length
  /\ UNCHANGED <<nodes, header, call, ret>>

Step == insert_nonfull \/ RemoveFromLeaf \/ RemoveFromInternal

Next ==
  \/ \E e \in Inserted : insert(e)
  \/ \E k \in Key : remove(k)
  \/ pop_first
  \/ pop_last
  \/ clear_new
  \/ load
  \/ Step

Spec == Init /\ [][Next]_vars

-------------------------------------------------------------------------------
TypeOK ==
  /\ DOMAIN nodes \subseteq Address
  /\ nodes \in [DOMAIN nodes -> Node]
  /\ root_addr \in DOMAIN nodes \cup {NULL}
  /\ length \in Nat
  /\ header \in [root_addr : Address \cup {NULL}, length : Nat]
  /\ call.op \in {"idle", "insert", "remove"}
  /\ call.op # "idle" => call.at \in DOMAIN nodes
  /\ ret.entry \in Entry \cup {None}

(* Every node keeps its size, also half way through an operation: at most  *)
(* CAPACITY entries, at least B - 1 except in the root, one more child     *)
(* than entries.  So the assertions that a node has room for an entry, or  *)
(* can lose one, hold wherever an operation has got to.                    *)
NodesFit ==
  /\ \A a \in DOMAIN nodes :
       LET n == nodes[a] IN
       /\ Len(n.entries) =< CAPACITY
       /\ a # root_addr => Len(n.entries) >= B - 1
       /\ call.op # "insert" => n.entries # <<>>
       /\ Len(n.children) = IF n.node_type = "Leaf" THEN 0 ELSE Len(n.entries) + 1
  /\ call.op = "insert" => Len(nodes[call.at].entries) < CAPACITY
  /\ call.op = "remove" /\ call.at # root_addr => Len(nodes[call.at].entries) >= B

(* The nodes in use are one tree with all leaves at the same depth: none   *)
(* is lost when nodes merge or the root goes, none is reached twice, and   *)
(* none is freed while the tree still refers to it.                        *)
Balanced ==
  LET Children(a) == {nodes[a].children[i] : i \in DOMAIN nodes[a].children}
      Level[d \in Nat] == IF d = 0 THEN {root_addr} \ {NULL}
                          ELSE UNION {Children(a) : a \in Level[d - 1]}
  IN
  /\ \A a, b \in DOMAIN nodes : \A i \in DOMAIN nodes[a].children,
                                 j \in DOMAIN nodes[b].children :
       nodes[a].children[i] = nodes[b].children[j] => a = b /\ i = j
  /\ \E h \in 0..Cardinality(DOMAIN nodes) :
       /\ \A d \in 0..h : \A a \in Level[d] :
            a \in DOMAIN nodes /\ (nodes[a].node_type = "Leaf" <=> d = h)
       /\ UNION {Level[d] : d \in 0..h} = DOMAIN nodes

(* The entries of a node are in order, and every entry in memory is found  *)
(* by a search for its key from the root, at any moment.                   *)
EntriesFound ==
  \A a \in DOMAIN nodes :
    /\ \A i, j \in DOMAIN nodes[a].entries :
         i < j => nodes[a].entries[i].key < nodes[a].entries[j].key
    /\ \A i \in DOMAIN nodes[a].entries : traverse(nodes[a].entries[i].key) = a

(* The contents of the map: the entries of all its nodes. *)
Contents ==
  LET all == UNION {{nodes[a].entries[i] : i \in DOMAIN nodes[a].entries} : a \in DOMAIN nodes}
  IN [k \in {e.key : e \in all} |-> (CHOOSE e \in all : e.key = k).value]

(* Between two operations the header in memory is enough to go on from     *)
(* after an upgrade, and the length is the number of entries.              *)
HeaderSaved ==
  call = Idle => /\ header = [root_addr |-> root_addr, length |-> length]
                 /\ length = Cardinality(DOMAIN Contents)

(* The BTreeMap implements a sorted map: each operation changes the        *)
(* contents once, as it should, and no split, rotation or merge on the way *)
(* down changes them, whether or not the key is found.                     *)
Abs == INSTANCE SortedMap WITH map <- Contents

ImplementsSortedMap == Abs!Spec

(* Every step of an operation goes one level down, so an operation comes   *)
(* to its end however the tree is rearranged around it.                    *)
Height(ns, a) ==
  LET height[x \in DOMAIN ns] ==
        IF ns[x].node_type = "Leaf" THEN 0 ELSE 1 + height[Head(ns[x].children)]
  IN height[a]

StepsGoDown ==
  [][call.op # "idle" /\ call'.op # "idle" =>
       Height(nodes', call'.at) = Height(nodes, call.at) - 1]_vars

===============================================================================
