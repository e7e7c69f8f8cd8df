--------------------------------- MODULE Nodes ---------------------------------
(***************************************************************************)
(* What the nodes of a BTreeMap promise the tree: a node that is loaded    *)
(* has what was last saved under its address, however large it is and      *)
(* whatever became of other nodes meanwhile, and what is read from an open *)
(* node is what was put into it.                                           *)
(***************************************************************************)
EXTENDS Naturals, Sequences

LOCAL INSTANCE SequencesExt

CONSTANTS Address, Key, Value, B, ChildAddress

VARIABLES
  stored,     \* the nodes in memory, by address
  open,       \* the nodes the tree has in hands, by address
  ret         \* the last operation, the node it was on, and what it returned

vars == <<stored, open, ret>>

Entry == [key : Key, value : Value]
Put(f, a, x) == [b \in DOMAIN f \cup {a} |-> IF b = a THEN x ELSE f[b]]
Without(f, a) == [b \in DOMAIN f \ {a} |-> f[b]]
Returns(op, a, x) == ret' = <<op, a, x>>

Init == stored = <<>> /\ open = <<>> /\ ret = <<"init", 0, <<>>>>

New(a, type, children) ==
  /\ Returns("new", a, <<>>)
  /\ a \notin DOMAIN stored \cup DOMAIN open
  /\ open' = Put(open, a, [node_type |-> type, entries |-> <<>>, children |-> children])
  /\ UNCHANGED stored

Load(a) ==
  /\ Returns("load", a, <<>>)
  /\ a \in DOMAIN stored \ DOMAIN open
  /\ open' = Put(open, a, stored[a])
  /\ UNCHANGED stored

Forget(a) ==
  /\ Returns("drop", a, <<>>)
  /\ a \in DOMAIN stored
  /\ open' = Without(open, a)
  /\ UNCHANGED stored

ReadEntry(a, i) ==
  /\ Returns("entry", a, open[a].entries[i])
  /\ UNCHANGED <<stored, open>>

SwapValue(a, i, v) ==
  /\ Returns("swap", a, <<i, v, open[a].entries[i].value>>)
  /\ open' = [open EXCEPT ![a].entries[i].value = v]
  /\ UNCHANGED stored

SwapEntry(a, i, e) ==
  /\ Returns("swap_entry", a, <<i, e, open[a].entries[i]>>)
  /\ open' = [open EXCEPT ![a].entries[i] = e]
  /\ UNCHANGED stored

InsertEntry(a, i, e, children) ==
  /\ Returns("insert", a, <<i, e>>)
  /\ open' = [open EXCEPT ![a].entries = InsertAt(@, i, e), ![a].children = children]
  /\ UNCHANGED stored

RemoveEntry(a, i, children) ==
  /\ Returns("remove", a, <<i, open[a].entries[i]>>)
  /\ open' = [open EXCEPT ![a].entries = RemoveAt(@, i), ![a].children = children]
  /\ UNCHANGED stored

Split(a, sibling) ==
  LET n == open[a]
      part(from, to) ==
        [node_type |-> n.node_type, entries |-> SubSeq(n.entries, from, to),
         children |-> IF n.node_type = "Leaf" THEN <<>> ELSE SubSeq(n.children, from, to + 1)]
  IN /\ Len(n.entries) >= B
     /\ Returns("split", a, n.entries[B])
     /\ sibling \notin DOMAIN stored \cup DOMAIN open
     /\ open' = Put(Put(open, a, part(1, B - 1)), sibling, part(B + 1, Len(n.entries)))
     /\ UNCHANGED stored

Save(a) ==
  /\ Returns("save", a, <<>>)
  /\ stored' = Put(stored, a, open[a])
  /\ UNCHANGED open

Merge(a, source, median) ==
  LET left == IF open[a].entries[1].key < median.key THEN open[a] ELSE open[source]
      right == IF left = open[a] THEN open[source] ELSE open[a]
      merged == [node_type |-> open[a].node_type,
                 entries |-> left.entries \o <<median>> \o right.entries,
                 children |-> left.children \o right.children]
  IN /\ Returns("merge", a, median)
     /\ open' = Without(Put(open, a, merged), source)
     /\ stored' = Without(Put(stored, a, merged), source)

Deallocate(a) ==
  /\ Returns("deallocate", a, <<>>)
  /\ stored' = Without(stored, a)
  /\ open' = Without(open, a)

Next ==
  \/ \E a \in Address, type \in {"Leaf", "Internal"} :
       \E children \in {<<>>} \cup {<<c>> : c \in ChildAddress} : New(a, type, children)
  \/ \E a \in DOMAIN stored : Load(a)
  \/ \E a \in DOMAIN open : Forget(a) \/ Save(a) \/ Deallocate(a)
  \/ \E a \in DOMAIN open : \E i \in DOMAIN open[a].entries :
       \/ ReadEntry(a, i)
       \/ \E v \in Value : SwapValue(a, i, v)
       \/ \E e \in Entry : SwapEntry(a, i, e)
       \/ RemoveEntry(a, i, open[a].children)
       \/ \E j \in DOMAIN open[a].children : RemoveEntry(a, i, RemoveAt(open[a].children, j))
  \/ \E a \in DOMAIN open : \E i \in 1..Len(open[a].entries) + 1, e \in Entry :
       \/ InsertEntry(a, i, e, open[a].children)
       \/ \E j \in 1..Len(open[a].children) + 1, c \in ChildAddress :
            InsertEntry(a, i, e, InsertAt(open[a].children, j, c))
  \/ \E a \in DOMAIN open, b \in Address : Split(a, b)
  \/ \E a, b \in DOMAIN open, median \in Entry :
       a # b /\ open[a].entries # <<>> /\ Merge(a, b, median)

Spec == Init /\ [][Next]_vars

================================================================================
