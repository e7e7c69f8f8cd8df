------------------------------- MODULE BTreeNode -------------------------------
(***************************************************************************)
(* A node of the stable BTreeMap as loaded in memory                       *)
(* (src/btreemap/node.rs): its entries in order and the addresses of its   *)
(* children.  Entries are numbered from 1, and child i of a node is the    *)
(* one before entry i.                                                     *)
(***************************************************************************)
EXTENDS Integers, Sequences, FiniteSets

CONSTANTS
  Key,          \* keys, ordered as the naturals they are
  Value,
  Address,      \* bound: the chunks the allocator has
  NULL,
  B             \* the minimum degree, 6 in the code

ASSUME KeyAssumption == Key \subseteq Nat
ASSUME DegreeAssumption == B \in Nat /\ B >= 2
ASSUME NoneAssumption == NULL \notin Address

CAPACITY == 2 * B - 1
Entry == [key : Key, value : Value]
Node == [node_type : {"Leaf", "Internal"}, entries : Seq(Entry), children : Seq(Address)]
EmptyNode(type) == [node_type |-> type, entries |-> <<>>, children |-> <<>>]

is_full(n) == Len(n.entries) >= CAPACITY

(* Mutant: a node counts as large enough one entry too early. *)
at_minimum_low(n) == Len(n.entries) < B - 1

at_minimum(n) == Len(n.entries) < B

(* The index of the entry with key k or, if there is none, the index where *)
(* it would go, which is also that of the child to search.                 *)
search(n, k) == 1 + Cardinality({i \in DOMAIN n.entries : n.entries[i].key < k})
Has(n, k) == \E i \in DOMAIN n.entries : n.entries[i].key = k

===============================================================================
