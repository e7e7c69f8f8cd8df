# TLA+ specifications of icp-stable-structures

Data structures that live in stable memory and survive upgrades of a canister, and `replog`, a map on top
of them that clients can replicate.  This directory models their algorithms in TLA+, checks the models on small
instances with TLC, and proves the most important facts for all instances with TLAPS.  `PROJECT.json` lists the
components, the runs, the hazards and, definition by definition, the source lines each one models.

## The system

| part | state | operations | interacts with |
|---|---|---|---|
| `Memory` trait, back ends (`src/lib.rs`, `vec_mem.rs`, `file_mem.rs`, `ic0_memory.rs`) | pages of 64 KiB | size, grow, read, write, `safe_write` | under everything |
| `MemoryManager`, `VirtualMemory` (`memory_manager.rs`) | header and one owner byte per bucket in page 0, the same on the heap, one bucket cache per handle | get, grow, read, write, load | divides one memory among structures |
| `RestrictedMemory` (`lib.rs`) | a range of pages of a shared memory | grow, read, write | same |
| `Allocator` (`btreemap/allocator.rs`) | free list of chunks threaded through memory, header | allocate, deallocate, clear, load | serves `BTreeMap` |
| `BTreeMap` (`btreemap.rs`, `btreemap/node.rs`) | nodes by address, root and length with a copy in the header | insert, get, remove, pop_first, pop_last, clear, load, iterators | nodes are chunks of `Allocator` |
| node layouts V1, V2 (`btreemap/node/`) | bytes of a node, overflow pages | load, save | `Allocator` |
| `BTreeSet` (`btreeset.rs`) | a `BTreeMap` with unit values | set operations over iterators | `BTreeMap` |
| `Log` (`log.rs`) | data memory, index memory | append, get, clear, init, iterators | two memories |
| `BaseVec`, `Vec`, `MinHeap` | header and fixed slots | push, pop, set, sift | one memory |
| `Cell` (`cell.rs`) | header and value | get, set | one memory |
| `Reader`, `Writer` | an offset | read, write | one memory |
| `RepLogMap` (`replog/src`) | two `BTreeMap`s, a `Log`, a `Cell` with counters | insert, remove, try_insert, try_remove, clear, compact, the queries of replication | all of the above |
| replicating client (documents of `replog` only) | local table, cursor | full sync, polling | `RepLogMap` through queries |

A canister handles one message at a time, so there are no threads.  What makes the code hard is:

* **restarts**: after an upgrade only memory is left, and each structure must go on from its headers alone;
* **partial failure**: a memory may refuse to grow in the middle of an operation of several writes.  On the Internet
  Computer a trap undoes the whole message; `try_insert`, `try_remove` and `append` return an error instead and must
  leave a sound state themselves, and `FileMemory` and `VectorMemory` undo nothing;
* **clients between messages**: queries, changes, compactions and clears interleave, answers come late or get lost;
* **stale copies**: cached bucket addresses, nodes loaded before the tree below them is rearranged, chunk headers of
  before a clear, iterators that outlive changes;
* **long sequences of calls**: splits, rotations and merges of the tree, the order of the free list;
* **two ends**: iterators asked from the front and the back in any order, two of them merged, structures that grow in
  neighbouring ranges of one memory.

## Modules

| module | models | state and actions |
|---|---|---|
| `RepLog` | `replog/src/lib.rs`, `changelog.rs` | a variable per field of `RepLogMap`; an action per operation; `UndoneInsert` and `UndoneRemove` are the error paths write by write; queries are operators |
| `RepLogSync` | `RepLog` and one client, which is external | `Ask...` evaluates a query now, `Receive...` applies the answer later, `Lose` drops it |
| `Allocator` | `btreemap/allocator.rs` | `chunks` is the memory, `header` its saved header, `allocator` the fields on the heap, `held` what the tree owns |
| `BTreeNode` | `btreemap/node.rs` | a node: its entries and the addresses of its children; no variables |
| `BTreeMap` | `btreemap.rs`, `btreemap/node.rs` | one step per call of `insert_nonfull` and `remove_helper`; `call` is the stack: the node reached and, for case 2 of removal, the parents waiting to be saved, as they were loaded |
| `NodeV2` | `btreemap/node.rs`, `node/v2.rs`, `node/io.rs` | `memory` is the pages in use, `nodes` the addresses saved to, `open` the copies the tree has in hands, whose keys and values may be references into pages; an action per operation of `Node` |
| `MemoryManager` | `memory_manager.rs` | page 0 is `header` and `owner`, the other pages `memory`, the heap `inner`, the handles' `cache` |
| `Log` | `log.rs`, `safe_write` of `lib.rs` | an append is three steps, one per write, and may fail before or be cut off after each; `pos` is an iterator |
| `BTreeIter` | `btreemap/iter.rs`, the iterators of `btreemap.rs` | `BTreeMap` and the iterator that borrows it: its range and the stacks of cursors of both ends; an action per call |
| `BTreeSet` | `btreeset.rs` | `BTreeIter` and `pair`, the operation on two sets under way with the two keys it has in hand; a step per turn of its loop |
| `NodeLayouts` | `node/v1.rs`, `node/v2.rs`, `load_helper` of `btreemap.rs`, `check_bounds` of `storable.rs` | the cells of one node, and the types of the map, which a new release changes |
| `RestrictedMemory` | `RestrictedMemory` and `safe_write` of `lib.rs` | operators from a memory to a memory |
| `Cell`, `BaseVec`, `MinHeap` | `cell.rs`, `base_vec.rs`, `min_heap.rs` | operators as well, write by write, with failure at any of them |
| `Divided` | those four, and `vec.rs` | a memory divided between a `Cell` and a `Vec` or `MinHeap`; an action per method; a panic leaves what it wrote, or is undone; `Upgrade` |
| `OrderedMap` | what `RepLog` uses of `BTreeMap` | insert, remove and get of a finite function |
| `VersionedMap`, `SortedMap`, `SortedIter`, `Nodes`, `Memories`, `AppendLog`, `CellAndVec` | nothing in the source | the abstract specifications that `RepLog`, `BTreeMap`, `BTreeIter`, `NodeV2`, `MemoryManager`, `Log` and `Divided` implement |
| `RepLogProofs`, `RepLogSyncProofs`, `AllocatorProofs`, `MemoryManagerProofs`, `LogProofs`, `ViewProofs` | | theorems and proofs |
| `MC...` | | definitions for TLC: symmetry, views, values of constants |

Definitions marked *Mutant* are deliberate mistakes, each paired in `PROJECT.json` with the property that catches it
when it takes the place of the real definition.  No specification uses them.

How the layers fit together: `RepLog` uses a map by its abstract operations (`OrderedMap`), which `SortedMap` is built
from and `BTreeMap` is shown to implement.  `BTreeMap` takes any unused address for a new node; that an allocated chunk
is not in use is what `Allocator` shows, and that a saved node is the node that is loaded, whatever its size, is what
`NodeV2` shows.  `BTreeSet` goes through a tree of `BTreeMap` with an iterator of `BTreeIter`, and through the other set
with what `SortedIter` says of one.  The changelog of `RepLog` is a sequence, which is what `Log` implements.  All of
them run in virtual memories, which `MemoryManager` shows to be independent.

### What is abstracted

* Keys are naturals, because order is all the code asks of them.  Values, items and memory ids are model values.
* In `BTreeMap` a node is its entries and children, not its bytes.  In `NodeV2` a field (header, address, size) takes one
  cell of a page and each byte of a key or value another, known by what it is a byte of; the writes of a save that
  follow each other without a gap are one write.  A page of `MemoryManager` holds one value.  A byte of `Log` is
  known by its item and its place in it, so that mixed-up bytes show.  In `RestrictedMemory` and above it a field of a
  header and a byte of an encoding are a unit each; the encodings are given by the constants `CellBytes` and `Type`, and
  two values never have the same.
* Magic numbers and layout versions are left out, except in `Cell` and `BaseVec`, where `init` decides by them.
  `NodeV2` has keys of variable size only; `NodeLayouts` has fixed ones too, and one run of cells for a node's pages.
* A panic on the Internet Computer undoes the message, so it is no step.  The exceptions are `Log`, where a call may stop
  between any two writes, and `Divided`, which has memories that undo a panic and memories that do not.
* A cursor of `BTreeIter` has the address of its node, where the code has the loaded node: the map is borrowed, so they
  are the same.
* `ret` holds the last result and, where the specification needs it, the request.  No action reads it.

## Runs

| run | shows | states |
|---|---|---|
| `sync` | the two maps, ids and changelog stay consistent through failed and successful operations, and `RepLog` implements `VersionedMap`; whatever a client lacks is always a change it has yet to fetch (`DifferencesArePending`), with its cursor at the end it has the map, and if it polls for ever it converges | 427 896 |
| `allocator` | the free list is sound and complete, assertions hold, the memory grows only when full | 2 329 |
| `memory_manager` | one owner per bucket, coherent caches, and `MemoryManager` implements `Memories` | 3 205 |
| `log` | entries stay readable through failures and cut-off appends, and `Log` implements `AppendLog` | 49 139 |
| `btreemap` | size, balance and order of the tree at every step, the header between operations, every step one level down; `BTreeMap` implements `SortedMap` | 94 912 |
| `node_v2` | a node is loaded as it was last saved and read as it was built, through overflow pages and late reads; no page is lost, shared or spare; `NodeV2` implements `Nodes` | 14 186 |
| `sets` | an iterator returns the entries asked for, in order and each once, whatever the range and the order in which its ends are asked (`BTreeIter` implements `SortedIter`); operations on two sets have yielded the right keys at every moment and decide right | 138 243 |
| `divided` | a `Cell` and a `Vec` or `MinHeap` in two ranges of a memory behave as if they had one each, through panics and upgrades and with iterators that outlive changes (`Divided` implements `CellAndVec`); the heap stays ordered; no operation writes outside its range | 51 952 |
| `replog_values`, `replog_limit`, `divided_grow`, `node_layouts` | a violation each, see below | |

`CellAndVec` lets any call panic, as long as it changes nothing then.  That calls which have the room for it do succeed
is what the theorems of `ViewProofs` say.

### Bounds

* `sync`: 2 keys, 2 values and 4 changes, enough to insert, remove, insert again and clear in one behaviour, with
  compactions and failed operations anywhere.  `MaxSeq` bounds the sequence number.  Pages of one row, so a snapshot of 2
  keys takes three pages with changes in between; one lost answer.  No symmetry, because the run checks liveness.
* `allocator`: 5 chunks, enough for every order of a free list of four and the border.
* `memory_manager`: 3 buckets of 2 pages for 2 memories, so the buckets of one memory need not be neighbours; segments of
  up to 4 pages, which touch up to three buckets.  The memories are interchangeable.  The view leaves out `ret`, which no
  action reads; TLC still checks the step property on every transition.
* `log`: items of 0, 1 and 2 bytes and pages of 3 bytes, so writes end before, at and after the end of a page.
* `btreemap`: minimum degree 2 instead of 6, so that 9 keys make a tree of three levels.  Nine is the least number of keys
  at which two internal nodes exchange a child: the tree needs an internal node that can give and one at its minimum.
  One key is also inserted with a second value.  The view identifies states that differ in the addresses of their nodes
  or in `ret`; the code compares addresses only for equality, and the number of nodes is in the view, so nodes that
  dropped out of the tree still count.
* `node_v2`: two nodes with minimum degree 2, and 3 keys, one of them too large to be loaded at once; pages of 6 cells, the
  least that hold the header and all children, so that a node takes up to four overflow pages.  Values have 0 or 3 bytes,
  so that fields end before, at and after the end of a page; one key has either value, and so a node grows and shrinks.
  The tree changes a copy once before it saves it, as `btreemap.rs` does.  The view identifies states that differ in
  addresses, in old data after the end of a node or in `ret`, and keeps the number of pages, the lengths of the chains and
  whether a copy knows its chain.
* `sets`: trees of up to 8 keys and three levels, in all shapes that insertions and removals reach; iterators over those
  of 0, 1, 4, 7 and 8 keys, with ranges from and to two keys, included or not, which are in the tree or not and in
  leaves or above; pairs of sets with self of 0, 1 or 4 keys and any subset of four keys as the other, so each may be
  empty, end first or end last.  The view is that of `btreemap`, with the cursors.
* `divided`: pages of 8 units and at most 4 pages; the ranges are in either order, next to each other or with a gap, and one
  ends past what the memory can grow to.  Slots cross ends of pages, and lists get as long as their range allows: up to
  five items.  A value of the `Cell` takes one page or two.
* `node_layouts`: up to 3 entries of 2-byte keys, and one value larger than the old bound.

No run switches the deadlock check off.

### Fairness

Only `sync` assumes any, for `Converges`: weak fairness of the client's asking and receiving together, that is, a client that keeps
polling and an answer that, if it is not lost, arrives.  The number of lost answers is bounded, as is the number of
changes, through `MaxSeq`; compactions and failed inserts may go on for ever.  Nothing is assumed of the map's owner.
`StepsGoDown` needs no fairness: every step of a tree operation goes one level down, so the operation ends.

### Disagreements between code and documents

* `replog_values`: an upsert whose key was removed since comes without value, contrary to `replog-spec.md`.
* `replog_limit`: `offset + limit` overflows in `changes_since` for a limit near `u64::MAX`.
* `divided_grow`: a `RestrictedMemory` that is grown before the memory reaches its range does not compare the pages asked
  for with its length.  The first value of a `Cell`, too large for its range, is written into the next range instead of
  being refused.  By `SafeWriteStaysInRange` and `CellStaysInRange`, `safe_write` and `Cell` leave their range in no other case.
* `node_layouts`: the documentation allows to migrate from bounded to unbounded types, but nodes of version 2 store no sizes
  for keys of fixed size, and the unbounded type takes bytes of the key for one.  A second way to the same violation:
  nodes of version 1 keep their layout when they are saved, so that a value beyond the old bound runs into the next entry.

Two more that no run is kept for.  `docs/src/replog-integration.md` has the client go on from the number of the last page
of a snapshot, and so miss a row changed while it was paging: with `CatchUpFromFirst = FALSE`, `RepLogSync` is that client,
and `CaughtUpMeansEqual` fails.  The pattern of `replog-spec.md` (known limitation 3), from the number of the first page,
is the one `sync` shows to be right.  And with the bucket in the cache, a virtual memory accepts an access past its
size (`Accepted` in `MemoryManager`), contrary to the `Memory` trait; the actions of the model keep to the size.

## Proofs

TLAPS checks `RepLogProofs` (557 obligations), `RepLogSyncProofs` (1154), `AllocatorProofs` (662), `MemoryManagerProofs`
(1641), `LogProofs` (555) and `ViewProofs` (1768).  The assumptions are those
stated with the constants: keys are positive naturals, the special results are no values, bounds are naturals, a page
is not empty, encodings keep to the bounds of their type and differ for different values.

* **RepLog**, for any keys, values and bounds.  The inductive invariant is
  `TypeOK /\ IndexConsistent /\ LastChangeTellsState`.  The undo of `try_remove` puts a value back only if it found one,
  so it is an undo only because every id in the index has a value; and an insert keeps `LastChangeTellsState` only
  because a new id is larger than all logged ones.  Four lemmas say that an insert and a remove undo each other; with
  them a failed `try_` operation is shown to change nothing but its result.  From the invariant follow `FreshIds`
  and, step by step, that `RepLog` implements `VersionedMap`.
* **RepLogSync**, for any keys, values, page sizes and numbers of lost answers.  The invariant `SyncInv` is that of `RepLog`,
  the types, the shape of an answer under way, and `DifferencesArePending`.  A change of the map keeps it because it is
  logged after the cursor; an answer keeps it because, by `LastChangeTellsState`, the last change of an id in a batch
  puts its row right.  `CaughtUpMeansEqual` follows: after the end of the log nothing is pending.  Both are proved under
  `CatchUpFromFirst`, the pattern of `replog-spec.md`; for the other pattern they are false (see above).
* **MemoryManager**, for any number of memories, buckets and pages per bucket.  The invariant adds to ownership and caches
  that the pages a memory has been given and not grown to are still zero (`SparePagesZero`), without which growing within
  the last bucket would not give zeroed pages, and that the lists of buckets are no longer than the table.  That two
  memories share no page is arithmetic on buckets (`PagesApart`); with it each write is a write of one memory only, and
  `MemoryManager` implements `Memories` step by step.  `load` rebuilds the lists from the saved table; that they are the
  lists of before is `LoadIs`, since two increasing lists of the same buckets are one (`OneList`).
* **Log**, for any items, lengths and pages.  The invariant adds what the writes of an append under way have left
  (`AppendUnderWay`): nothing else ties the third write, which counts the entry, to the first two.
* **Allocator**, for any number of chunks.  The invariant adds to `FreeListComplete` the exact count and that touched
  chunks have no gap.  `FreeListComplete` says that there is a list; each step names the new list: its tail after
  `allocate`, the freed chunk in front of it after `deallocate`, one chunk after `clear`.  The point is that the last
  chunk of the list is always the highest one, since that is how `allocate` finds untouched memory.  The assertions
  of the code and `GrowsOnlyWhenFull` follow.

* **RestrictedMemory, Cell, BaseVec**, for any sizes of pages, memories, ranges, values and items.  The theorems are about
  single operations, from any memory of the right type, so no invariant is needed beyond `VecHolds`: the memory has a
  length and, in the slots below it, the encodings of these items.  They rest on what one write does: it changes the
  units it covers, all of them in the range, and `grow` gives just the pages that are missing.  An operation on a `Vec`
  writes one slot or the length, and slots do not overlap; so `push`, `set` and `pop` are what they are on a sequence.

Only model-checked: everything about `BTreeMap`, `BTreeIter`, `BTreeSet`, `NodeV2`, and `Divided` as a whole.  Liveness (`Converges`) is beyond the prover, and so is what the recursive functions of `BTreeMap`,
`BTreeIter` and `MinHeap` compute, which would need induction over data.

## Not modelled

* The byte layouts of encodings (`storable.rs`, tuples) and the back ends of memory: plain conversion and I/O.
* `Reader` and `Writer`: a cursor over `safe_write`, with the buffers of the standard library.
* Nodes of version 1 in the tree operations: only their load and save is modelled.  Splits and merges are the same code for
  both versions.
* Widths of integers, except the sum in `changes_since`: sizes and ids are naturals.
* Panics on memories without rollback, outside `Log` and `Divided`; and there for items of variable size, where `set` of the
  last slot may have to grow the memory after it has written the item's new size.

## Plan

1. *Prove*: that the nodes of a `BTreeMap` are a search tree at every step, and what follows from it.
2. *Strengthen*: the request in `ret` of `VersionedMap`, as in `SortedMap`; widths of page counts in
   `MemoryManager`.
