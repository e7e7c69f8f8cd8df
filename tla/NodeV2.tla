--------------------------------- MODULE NodeV2 ---------------------------------
(***************************************************************************)
(* Nodes of version 2 in memory (src/btreemap/node.rs, node/io.rs,         *)
(* node/v2.rs).  A node is written as one run of bytes, cut into an        *)
(* initial page and a chain of overflow pages that grows and shrinks with  *)
(* every save.  A loaded node has its large keys and all its values only   *)
(* by reference into these pages, and reads them when they are needed.     *)
(*                                                                         *)
(* The tree holds at most one copy of a node in its hands, saves a copy it *)
(* changed before it changes it again or lets go of it, and has every key  *)
(* once; this is how btreemap.rs uses nodes, and what the guards below     *)
(* assume.                                                                 *)
(*                                                                         *)
(* A field (header, address, length) takes one cell of a page, and a byte  *)
(* of a key or value another; a byte is known by what it is a byte of, and *)
(* its place there.  Keys are of variable size.  Pages are chunks of       *)
(* Allocator; the content of a new one is anything, so it is no field.     *)
(* Offsets count from 0 as in the code, entries from 1.                    *)
(***************************************************************************)
EXTENDS Integers, Sequences, FiniteSets

LOCAL INSTANCE SequencesExt

CONSTANTS
  Key, Value,
  KeySize, ValueSize,     \* their sizes when encoded
  Unreadable,             \* what bytes decode to that are no value
  Address, NULL,          \* bound: the pages the allocator has
  ChildAddress,           \* the addresses kept in internal nodes
  PageSize,
  EAGER_LOAD_KEY_SIZE_THRESHOLD,
  B,                      \* the minimum degree, 6 in the code
  Inserted,               \* bound: the entries tried
  MaxNodes                \* bound: nodes at a time

CAPACITY == 2 * B - 1
OVERFLOW_ADDRESS_OFFSET == 1
ENTRIES_OFFSET == 2
PAGE_OVERFLOW_DATA_OFFSET == 1     \* after the magic and the next address, in one cell
OverflowPageCapacity == PageSize - PAGE_OVERFLOW_DATA_OFFSET

ASSUME KeyAssumption == Key \subseteq Nat \ {0} /\ KeySize \in [Key -> Nat \ {0}]
ASSUME ValueAssumption == ValueSize \in [Value -> Nat] /\ Unreadable \notin Value
ASSUME EmptyAssumption == \A v, w \in Value : ValueSize[v] = 0 /\ ValueSize[w] = 0 => v = w
ASSUME InsertedAssumption == Inserted \subseteq [key : Key, value : Value]
ASSUME AddressAssumption == NULL \notin Address
ASSUME DegreeAssumption == B \in Nat /\ B >= 2
(* MINIMUM_PAGE_SIZE: the header and all children fit in the initial page. *)
ASSUME PageSizeAssumption == PageSize \in Nat /\ PageSize >= ENTRIES_OFFSET + CAPACITY + 1

VARIABLES
  memory,     \* the pages in use, by address
  nodes,      \* the addresses under which the tree has saved a node
  open,       \* the copies the tree has in hands, by address
  ret         \* the last operation, the node it was on, and what it returned

vars == <<memory, nodes, open, ret>>

Put(f, a, x) == [b \in DOMAIN f \cup {a} |-> IF b = a THEN x ELSE f[b]]
Without(f, S) == [b \in DOMAIN f \ S |-> f[b]]

(* Op(e); TLC evaluates e once. *)
With(e, Op(_)) == CHOOSE y \in {Op(x) : x \in {e}} : TRUE

-----------------------------------------------------------------------------
(* Fields of a page. *)

Stale == <<"stale">>
Header(n) == <<"header", n.node_type, Len(n.entries)>>
Link(a) == <<"address", a>>
Size(s) == <<"size", s>>
KeyBytes(k) == IF k \in Key THEN [i \in 1..KeySize[k] |-> <<"key", k, i>>] ELSE <<Stale>>
ValueBytes(v) == IF v \in Value THEN [i \in 1..ValueSize[v] |-> <<"value", v, i>>] ELSE <<Stale>>

(* Storable::from_bytes. *)
KeyOf(bytes) == IF \E k \in Key : KeyBytes(k) = bytes
                THEN CHOOSE k \in Key : KeyBytes(k) = bytes ELSE 0
ValueOf(bytes) == IF \E v \in Value : ValueBytes(v) = bytes
                  THEN CHOOSE v \in Value : ValueBytes(v) = bytes ELSE Unreadable
AddressOf(cell) == IF cell[1] = "address" THEN cell[2] ELSE NULL
SizeOf(cell) == IF cell[1] = "size" THEN cell[2] ELSE 0

-----------------------------------------------------------------------------
(* NodeIterator: the parts of a segment of the node, page by page.  Page 0 *)
(* is the initial page, page i the i-th overflow page.                     *)

NextSegment(offset, length) ==
  LET idx == IF offset < PageSize THEN 0
             ELSE (offset - PageSize) \div OverflowPageCapacity + 1
      end == PageSize + OverflowPageCapacity * idx
  IN [page_idx |-> idx, from |-> offset,
      offset |-> IF offset < PageSize THEN offset
                 ELSE PAGE_OVERFLOW_DATA_OFFSET + ((offset - PageSize) % OverflowPageCapacity),
      length |-> IF end - offset < length THEN end - offset ELSE length]

Segments[offset \in Nat, length \in Nat] ==
  IF length = 0 THEN <<>>
  ELSE LET s == NextSegment(offset, length)
       IN <<s>> \o Segments[offset + s.length, length - s.length]

PageOf(a, overflows, idx) ==
  IF idx = 0 THEN a ELSE IF idx \in DOMAIN overflows THEN overflows[idx] ELSE NULL

(* A page that is not in use has anything in it. *)
ReadPage(mem, a, offset, count) ==
  [i \in 1..count |-> IF a \in DOMAIN mem THEN mem[a][offset + i - 1] ELSE Stale]

(* NodeReader::read. *)
Read(mem, a, overflows, offset, count) ==
  IF offset + count < PageSize THEN ReadPage(mem, a, offset, count)
  ELSE With(Segments[offset, count], LAMBDA parts :
         FlattenSeq([i \in DOMAIN parts |->
           ReadPage(mem, PageOf(a, overflows, parts[i].page_idx), parts[i].offset, parts[i].length)]))

compute_num_overflow_pages_needed(size) ==
  IF size > PageSize
  THEN (size - PageSize + OverflowPageCapacity - 1) \div OverflowPageCapacity
  ELSE 0

-----------------------------------------------------------------------------
(* NodeWriter: the memory, the overflow pages of the node and the largest  *)
(* offset written to.                                                      *)

(* Some page that is not in use, and the next k such pages. *)
NewPage(mem) == CHOOSE a \in Address : a \notin DOMAIN mem
NewPages[k \in Nat, used \in SUBSET Address] ==
  IF k = 0 THEN <<>>
  ELSE LET p == CHOOSE a \in Address : a \notin used
       IN <<p>> \o NewPages[k - 1, used \cup {p}]
StalePage == [i \in 0..PageSize - 1 |-> Stale]

(* Lets the last of the pages of node a, or the node itself, point to p. *)
SetNext(mem, a, overflows, p) ==
  IF overflows = <<>> THEN [mem EXCEPT ![a][OVERFLOW_ADDRESS_OFFSET] = Link(p)]
                      ELSE [mem EXCEPT ![Last(overflows)][0] = Link(p)]

(* allocate_new_page, k times: each new page points to the one after it.   *)
AllocatePages(a, w, k) ==
  LET new == NewPages[k, DOMAIN w.mem]
      page(i) == [StalePage EXCEPT ![0] = Link(IF i < k THEN new[i + 1] ELSE NULL)]
      at(p) == CHOOSE i \in 1..k : new[i] = p
      mem == [p \in DOMAIN w.mem \cup {new[i] : i \in 1..k} |->
                IF p \in DOMAIN w.mem THEN w.mem[p] ELSE page(at(p))]
  IN IF k =< 0 THEN w
     ELSE [w EXCEPT !.mem = SetNext(mem, a, w.overflows, new[1]),
                    !.overflows = @ \o new]

(* Page p, which is page idx of the node, after src is written to the node *)
(* at the offset.                                                          *)
WritePage(page, idx, offset, src) ==
  LET parts == Segments[offset, Len(src)]
      covers(s, c) == s.page_idx = idx /\ c \in s.offset..s.offset + s.length - 1
  IN [c \in DOMAIN page |->
        IF \E i \in DOMAIN parts : covers(parts[i], c)
        THEN LET s == parts[CHOOSE i \in DOMAIN parts : covers(parts[i], c)]
             IN src[s.from - offset + c - s.offset + 1]
        ELSE page[c]]

write(a, w, offset, src) ==
  LET end_offset == offset + Len(src)
      v == AllocatePages(a, w, compute_num_overflow_pages_needed(end_offset) - Len(w.overflows))
      idx(p) == CHOOSE i \in 0..Len(v.overflows) : PageOf(a, v.overflows, i) = p
      pages == {PageOf(a, v.overflows, i) : i \in 0..Len(v.overflows)}
  IN [v EXCEPT !.mem = [p \in DOMAIN @ |->
                          IF p \in pages THEN WritePage(@[p], idx(p), offset, src) ELSE @[p]],
               !.max_offset = IF end_offset > @ THEN end_offset ELSE @]

(* Mutant: pages are never given back. *)
deallocate_unused_pages_none(a, w) == w

deallocate_unused_pages(a, w) ==
  LET needed == compute_num_overflow_pages_needed(w.max_offset)
      kept == SubSeq(w.overflows, 1, needed)
      unused == {w.overflows[i] : i \in needed + 1..Len(w.overflows)}
  IN [w EXCEPT !.mem = SetNext(Without(@, unused), a, kept, NULL),
               !.overflows = kept]

-----------------------------------------------------------------------------
(* Lazily loaded keys and values. *)

by_value(x) == <<"value", x>>
by_ref(offset, size) == <<"ref", offset, size>>

load_key_from_memory(mem, a, n, offset, size) ==
  KeyOf(Read(mem, a, n.overflows, offset + 1, size))
load_value_from_memory(mem, a, n, offset, size) ==
  ValueOf(Read(mem, a, n.overflows, offset + 1, size))

get_key(mem, a, n, e) ==
  IF e.key[1] = "value" THEN e.key[2]
  ELSE load_key_from_memory(mem, a, n, e.key[2], e.key[3])
get_value(mem, a, n, e) ==
  IF e.value[1] = "value" THEN e.value[2]
  ELSE load_value_from_memory(mem, a, n, e.value[2], e.value[3])

(* What entry e of node n at address a is, and e once it is loaded. *)
entry(mem, a, n, e) == [key |-> get_key(mem, a, n, e), value |-> get_value(mem, a, n, e)]
ByValue(e) == [key |-> by_value(e.key), value |-> by_value(e.value)]

(* The entries of the node with those numbered in S loaded. *)
LoadEntries(mem, a, n, S) ==
  [i \in DOMAIN n.entries |->
     IF i \in S THEN ByValue(entry(mem, a, n, n.entries[i])) ELSE n.entries[i]]

-----------------------------------------------------------------------------
(* Load and save. *)

read_overflows(mem, a) ==
  LET next(p, offset) == AddressOf(ReadPage(mem, p, offset, 1)[1])
      follow[seen \in Seq(Address), p \in Address \cup {NULL}] ==
        IF p = NULL \/ p \in {seen[i] : i \in DOMAIN seen} THEN seen
        ELSE follow[Append(seen, p), next(p, 0)]
  IN follow[<<>>, next(a, OVERFLOW_ADDRESS_OFFSET)]

(* The node at a, given its overflow pages.  After the children come the   *)
(* keys and then the values, each after its size; Places has where they    *)
(* begin.                                                                  *)
LoadWith(mem, a, overflows) ==
  LET field(offset) == Read(mem, a, overflows, offset, 1)[1]
      node_type == field(0)[2]
      count == field(0)[3]
      num_children == IF node_type = "Internal" THEN count + 1 ELSE 0
      size(offset) == SizeOf(field(offset))
      Places[n \in Nat, offset \in Nat] ==
        IF n = 0 THEN <<>> ELSE <<offset>> \o Places[n - 1, offset + 1 + size(offset)]
      key(offset) == IF size(offset) =< EAGER_LOAD_KEY_SIZE_THRESHOLD
                     THEN by_value(KeyOf(Read(mem, a, overflows, offset + 1, size(offset))))
                     ELSE by_ref(offset, size(offset))
      value(offset) == by_ref(offset, size(offset))
  IN [node_type |-> node_type,
      entries |-> With(Places[2 * count, ENTRIES_OFFSET + num_children], LAMBDA p :
                    [i \in 1..count |-> [key |-> key(p[i]), value |-> value(p[count + i])]]),
      children |-> [i \in 1..num_children |-> AddressOf(field(ENTRIES_OFFSET + i - 1))],
      overflows |-> overflows]

load_v2(mem, a) == With(read_overflows(mem, a), LAMBDA overflows : LoadWith(mem, a, overflows))

(* What save_v2 writes: first the header and the address of the first      *)
(* overflow page, then field after field, which are one write here.        *)
InitialFields(n) == <<Header(n), Link(IF n.overflows = <<>> THEN NULL ELSE n.overflows[1])>>
Fields(n) ==
  LET key(i) == n.entries[i].key[2]
      value(i) == n.entries[i].value[2]
  IN [i \in DOMAIN n.children |-> Link(n.children[i])]
     \o FlattenSeq([i \in DOMAIN n.entries |-> <<Size(Len(KeyBytes(key(i))))>> \o KeyBytes(key(i))])
     \o FlattenSeq([i \in DOMAIN n.entries |-> <<Size(Len(ValueBytes(value(i))))>> \o ValueBytes(value(i))])

(* The memory after node n is saved at a, and the node. *)
save_v2(mem, a, n) ==
  LET loaded == [n EXCEPT !.entries = LoadEntries(mem, a, n, DOMAIN @)]
      writer == [mem |-> mem, overflows |-> n.overflows, max_offset |-> 0]
      front == write(a, writer, 0, InitialFields(loaded))
      w == deallocate_unused_pages(a, write(a, front, ENTRIES_OFFSET, Fields(loaded)))
  IN [mem |-> w.mem, node |-> [loaded EXCEPT !.overflows = w.overflows]]

-----------------------------------------------------------------------------
(* What a node is, with everything in it loaded. *)
Content(mem, a, n) ==
  [node_type |-> n.node_type, children |-> n.children,
   entries |-> [i \in DOMAIN n.entries |-> entry(mem, a, n, n.entries[i])]]
Stored == [a \in nodes |-> With(load_v2(memory, a), LAMBDA n : Content(memory, a, n))]
Opened == [a \in DOMAIN open |-> Content(memory, a, open[a])]

KeyAt(a, i) == get_key(memory, a, open[a], open[a].entries[i])
KeysIn(content) == {content.entries[i].key : i \in DOMAIN content.entries}

(* The keys of the tree: of a node in hands, those of the copy. *)
KeysInUse ==
  UNION ({KeysIn(Opened[a]) : a \in DOMAIN open} \cup {KeysIn(Stored[a]) : a \in nodes \ DOMAIN open})

(* The copy was not changed since it was loaded, saved or created. *)
Unchanged(a) == IF a \in nodes THEN Opened[a] = Stored[a] ELSE open[a].entries = <<>>

Returns(op, a, x) == ret' = <<op, a, x>>

Init ==
  /\ memory = <<>>
  /\ nodes = {}
  /\ open = <<>>
  /\ ret = <<"init", 0, <<>>>>

(* allocate_node: the first leaf, or a new root above the old one. *)
New(type, children) ==
  LET a == NewPage(memory)
  IN /\ Cardinality(nodes \cup DOMAIN open) < MaxNodes
     /\ memory' = Put(memory, a, StalePage)
     /\ open' = Put(open, a, [node_type |-> type, entries |-> <<>>,
                              children |-> children, overflows |-> <<>>])
     /\ Returns("new", a, <<>>)
     /\ UNCHANGED nodes

Load(a) ==
  /\ a \in nodes \ DOMAIN open
  /\ open' = Put(open, a, load_v2(memory, a))
  /\ Returns("load", a, <<>>)
  /\ UNCHANGED <<memory, nodes>>

(* A copy that was not changed goes out of scope. *)
Forget(a) ==
  /\ a \in nodes
  /\ Unchanged(a)
  /\ open' = Without(open, {a})
  /\ Returns("drop", a, <<>>)
  /\ UNCHANGED <<memory, nodes>>

(* entry: what was by reference is loaded and kept. *)
ReadEntry(a, i) ==
  /\ open' = [open EXCEPT ![a].entries = LoadEntries(memory, a, open[a], {i})]
  /\ Returns("entry", a, entry(memory, a, open[a], open[a].entries[i]))
  /\ UNCHANGED <<memory, nodes>>

swap_value(a, i, v) ==
  /\ [key |-> KeyAt(a, i), value |-> v] \in Inserted
  /\ Unchanged(a)
  /\ open' = [open EXCEPT ![a].entries[i].value = by_value(v)]
  /\ Returns("swap", a, <<i, v, get_value(memory, a, open[a], open[a].entries[i])>>)
  /\ UNCHANGED <<memory, nodes>>

swap_entry(a, i, e) ==
  /\ \A j \in DOMAIN open[a].entries \ {i} :
       IF j < i THEN KeyAt(a, j) < e.key ELSE e.key < KeyAt(a, j)
  /\ e.key \notin KeysInUse
  /\ Unchanged(a)
  /\ open' = [open EXCEPT ![a].entries[i] = ByValue(e)]
  /\ Returns("swap_entry", a, <<i, e, entry(memory, a, open[a], open[a].entries[i])>>)
  /\ UNCHANGED <<memory, nodes>>

(* In an internal node an entry comes and goes with the child before or    *)
(* after it.                                                               *)
insert_entry(a, i, e) ==
  LET n == open[a]
  IN /\ Len(n.entries) < CAPACITY
     /\ \A j \in DOMAIN n.entries : IF j < i THEN KeyAt(a, j) < e.key ELSE e.key < KeyAt(a, j)
     /\ e.key \notin KeysInUse
     /\ Unchanged(a)
     /\ \E children \in IF n.node_type = "Leaf" THEN {<<>>}
                        ELSE {InsertAt(n.children, j, c) : j \in {i, i + 1}, c \in ChildAddress} :
          open' = [open EXCEPT ![a].entries = InsertAt(@, i, ByValue(e)), ![a].children = children]
     /\ Returns("insert", a, <<i, e>>)
     /\ UNCHANGED <<memory, nodes>>

(* remove_entry and pop_entry. *)
remove_entry(a, i) ==
  LET n == open[a]
  IN /\ Unchanged(a)
     /\ \E children \in IF n.node_type = "Leaf" THEN {<<>>}
                        ELSE {RemoveAt(n.children, j) : j \in {i, i + 1}} :
          open' = [open EXCEPT ![a].entries = RemoveAt(@, i), ![a].children = children]
     /\ Returns("remove", a, <<i, entry(memory, a, n, n.entries[i])>>)
     /\ UNCHANGED <<memory, nodes>>

(* Mutant: the first entry to move is not loaded. *)
LoadMoved_late(a, n) == LoadEntries(memory, a, n, B + 2..Len(n.entries))

(* The entries of a full node, those that will move to its sibling loaded. *)
LoadMoved(a, n) == LoadEntries(memory, a, n, B + 1..Len(n.entries))

(* split_child: a new sibling takes the entries after the median, which is *)
(* the last one that stays, popped.                                        *)
split(a) ==
  LET n == open[a]
      sibling == NewPage(memory)
      loaded == LoadMoved(a, n)
      some(from, to) == IF n.node_type = "Leaf" THEN <<>> ELSE SubSeq(n.children, from, to)
      left == [n EXCEPT !.entries = SubSeq(@, 1, B - 1), !.children = some(1, B)]
      right == [node_type |-> n.node_type,
                entries |-> SubSeq(loaded, B + 1, Len(loaded)),
                children |-> some(B + 1, Len(n.children)),
                overflows |-> <<>>]
  IN /\ Cardinality(nodes \cup DOMAIN open) < MaxNodes
     /\ Unchanged(a)
     /\ Len(n.entries) >= CAPACITY
     /\ memory' = Put(memory, sibling, StalePage)
     /\ open' = Put(Put(open, a, left), sibling, right)
     /\ Returns("split", a, entry(memory, a, n, n.entries[B]))
     /\ UNCHANGED nodes

save(a) ==
  LET n == open[a]
      s == save_v2(memory, a, n)
  IN /\ n.entries # <<>>
     /\ n.node_type = "Internal" => Len(n.children) = Len(n.entries) + 1
     /\ memory' = s.mem
     /\ open' = [open EXCEPT ![a] = s.node]
     /\ nodes' = nodes \cup {a}
     /\ Returns("save", a, <<>>)

(* Mutant: the overflow pages are not given back with the node. *)
PagesOf_initial(a) == {a}

(* The pages that Node::deallocate gives back. *)
PagesOf(a) == {a} \cup {open[a].overflows[i] : i \in DOMAIN open[a].overflows}

(* Mutant: the entries of the source move as the references they are. *)
LoadSource_lazy(source) == open[source].entries

LoadSource(source) == LoadEntries(memory, source, open[source], DOMAIN open[source].entries)

(* The entries of the source, which are loaded first, and those of node a, *)
(* which may still be references, together; a is saved and the source      *)
(* given back.                                                             *)
merge(a, source, median) ==
  LET n == open[a]
      moved == LoadSource(source)
      append == KeyAt(source, 1) > KeyAt(a, 1)
      mid == <<ByValue(median)>>
      merged == [n EXCEPT
        !.entries = IF append THEN @ \o mid \o moved ELSE moved \o mid \o @,
        !.children = IF append THEN @ \o open[source].children ELSE open[source].children \o @]
      s == save_v2(memory, a, merged)
  IN /\ n.entries # <<>> /\ moved # <<>>
     /\ {a, source} \subseteq nodes
     /\ Unchanged(a) /\ Unchanged(source)
     /\ n.node_type = open[source].node_type
     /\ Len(n.entries) + Len(moved) < CAPACITY
     /\ median.key \notin KeysInUse
     /\ LET before == KeysIn(Opened[IF append THEN a ELSE source])
            after == KeysIn(Opened[IF append THEN source ELSE a])
        IN /\ \A k \in before : k < median.key
           /\ \A k \in after : median.key < k
     /\ memory' = Without(s.mem, PagesOf(source))
     /\ open' = Without(Put(open, a, s.node), {source})
     /\ nodes' = nodes \ {source}
     /\ Returns("merge", a, median)

(* The tree gives back a node that has no entries left. *)
deallocate(a) ==
  /\ open[a].entries = <<>>
  /\ a \in nodes
  /\ memory' = Without(memory, PagesOf(a))
  /\ open' = Without(open, {a})
  /\ nodes' = nodes \ {a}
  /\ Returns("deallocate", a, <<>>)

Next ==
  \/ New("Leaf", <<>>)
  \/ \E c \in ChildAddress : New("Internal", <<c>>)
  \/ \E a \in nodes : Load(a)
  \/ \E a \in DOMAIN open : Forget(a)
  \/ \E a \in DOMAIN open : \E i \in DOMAIN open[a].entries : ReadEntry(a, i)
  \/ \E a \in DOMAIN open : \E i \in DOMAIN open[a].entries, v \in Value : swap_value(a, i, v)
  \/ \E a \in DOMAIN open : \E i \in DOMAIN open[a].entries, e \in Inserted : swap_entry(a, i, e)
  \/ \E a \in DOMAIN open : \E i \in 1..Len(open[a].entries) + 1, e \in Inserted : insert_entry(a, i, e)
  \/ \E a \in DOMAIN open : \E i \in DOMAIN open[a].entries : remove_entry(a, i)
  \/ \E a \in DOMAIN open : split(a) \/ save(a) \/ deallocate(a)
  \/ \E a, source \in DOMAIN open, median \in Inserted : a # source /\ merge(a, source, median)

Spec == Init /\ [][Next]_vars

-----------------------------------------------------------------------------
IsLazy(x, S) ==
  \/ x[1] = "value" /\ x[2] \in S
  \/ x[1] = "ref" /\ x[2] \in Nat /\ x[3] \in Nat

TypeOK ==
  /\ DOMAIN memory \subseteq Address
  /\ \A a \in DOMAIN memory : DOMAIN memory[a] = 0..PageSize - 1
  /\ nodes \cup DOMAIN open \subseteq DOMAIN memory
  /\ \A a \in DOMAIN open :
       /\ open[a].node_type \in {"Leaf", "Internal"}
       /\ \A i \in DOMAIN open[a].entries :
            IsLazy(open[a].entries[i].key, Key) /\ IsLazy(open[a].entries[i].value, Value)
       /\ open[a].children \in Seq(ChildAddress)
       /\ open[a].overflows \in Seq(Address)

OverflowsOf(a) == IF a \in DOMAIN open THEN open[a].overflows ELSE read_overflows(memory, a)

(* Every page in use belongs to exactly one node, as its initial page or   *)
(* once in its chain, and the chain a copy in hands knows is the one in    *)
(* memory: saves that grow or shrink a node, merges and deallocations lose *)
(* no page and share none (NodeWriter, Node::merge, Node::deallocate).     *)
PagesAccountedFor ==
  LET all == nodes \cup DOMAIN open
  IN /\ DOMAIN memory = all \cup UNION {{OverflowsOf(a)[i] : i \in DOMAIN OverflowsOf(a)} : a \in all}
     /\ Cardinality(DOMAIN memory) = MapThenSumSet(LAMBDA a : 1 + Len(OverflowsOf(a)), all)
     /\ \A a \in nodes : OverflowsOf(a) = read_overflows(memory, a)

(* A saved node has the least number of overflow pages that hold it: none  *)
(* is missing and none is kept after the node shrank (finish of            *)
(* NodeWriter, compute_num_overflow_pages_needed).                         *)
NoSparePages ==
  \A a \in nodes :
    LET es == Stored[a].entries
        size == ENTRIES_OFFSET + Len(Stored[a].children)
                + MapThenSumSet(LAMBDA i : 2 + KeySize[es[i].key] + ValueSize[es[i].value], DOMAIN es)
        room(pages) == PageSize + pages * OverflowPageCapacity
        pages == Len(read_overflows(memory, a))
    IN room(pages) >= size /\ (pages > 0 => room(pages - 1) < size)

(* Pages, chains and references are invisible: loading a node gives what   *)
(* was last saved, and a key or value that is read late is the right one,  *)
(* also after its entry moved in a split or merge.                         *)
Abstract == INSTANCE Nodes WITH stored <- Stored, open <- Opened
ImplementsNodes == Abstract!Spec

================================================================================
