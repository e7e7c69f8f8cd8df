------------------------------- MODULE Allocator -------------------------------
(***************************************************************************)
(* The chunk allocator under every stable BTreeMap                         *)
(* (src/btreemap/allocator.rs): a free list of equal chunks threaded       *)
(* through the stable memory itself.                                       *)
(*                                                                         *)
(* The chunk after the allocator's header is chunk 1, the one chunk_size   *)
(* further is chunk 2, and so on; NULL is 0.  The last chunk of the free   *)
(* list is the one that borders on untouched memory, and it is how the     *)
(* allocator knows where to grow: the code never stores that border.       *)
(***************************************************************************)
EXTENDS Integers, FiniteSets

CONSTANT MaxChunks      \* bound: the number of chunks the memory has room for

ASSUME ChunksAssumption == MaxChunks \in Nat \ {0}

VARIABLES
  chunks,       \* the ChunkHeaders in memory, from chunk 1 on
  header,       \* the AllocatorHeader in memory
  allocator,    \* the same fields in the Allocator
  held          \* chunks the BTreeMap got and has not given back

vars == <<chunks, header, allocator, held>>

NULL == 0
Chunk == 1..MaxChunks
ChunkHeader == [allocated : BOOLEAN, next : Chunk \cup {NULL}]
Fields == [num_allocated_chunks : Nat, free_list_head : Chunk]

null == [allocated |-> FALSE, next |-> NULL]

(* The memory with the header h saved at chunk c. *)
Save(mem, c, h) ==
  [i \in DOMAIN mem \cup {c} |-> IF i = c THEN h ELSE mem[i]]

(* Mutant: the header is not saved. *)
SetFieldsUnsaved(num, head) ==
  /\ allocator' = [num_allocated_chunks |-> num, free_list_head |-> head]
  /\ UNCHANGED header

(* Each operation ends by saving the header. *)
SetFields(num, head) ==
  /\ allocator' = [num_allocated_chunks |-> num, free_list_head |-> head]
  /\ header' = allocator'

Init ==
  /\ chunks = Save(<<>>, 1, null)
  /\ allocator = [num_allocated_chunks |-> 0, free_list_head |-> 1]
  /\ header = allocator
  /\ held = {}

(* ChunkHeader::load finds a header and the chunk is not in use. *)
CanAllocate ==
  /\ allocator.free_list_head \in DOMAIN chunks
  /\ ~chunks[allocator.free_list_head].allocated

(* Mutant: the new border is always the chunk after the one handed out. *)
AllocateShifts ==
  LET c == allocator.free_list_head IN
  /\ CanAllocate
  /\ c < MaxChunks
  /\ chunks' = Save(Save(chunks, c, [chunks[c] EXCEPT !.allocated = TRUE]), c + 1, null)
  /\ SetFields(allocator.num_allocated_chunks + 1, c + 1)
  /\ held' = held \cup {c}

Allocate ==
  LET c == allocator.free_list_head
      num == allocator.num_allocated_chunks + 1
      taken == Save(chunks, c, [chunks[c] EXCEPT !.allocated = TRUE])
  IN
  /\ CanAllocate
  /\ \/ /\ chunks[c].next # NULL
        /\ chunks' = taken
        /\ SetFields(num, chunks[c].next)
     \/ /\ chunks[c].next = NULL
        /\ c < MaxChunks
        /\ chunks' = Save(taken, c + 1, null)
        /\ SetFields(num, c + 1)
  /\ held' = held \cup {c}

CanDeallocate(c) == c \in DOMAIN chunks /\ chunks[c].allocated

(* Mutants: the count is not taken down; the chunk is not chained to the   *)
(* free list; the chunk is not marked as free.                             *)
Free(c, h, num) ==
  /\ CanDeallocate(c)
  /\ chunks' = Save(chunks, c, h)
  /\ SetFields(num, c)
  /\ held' = held \ {c}

DeallocateUncounted(c) ==
  Free(c, [allocated |-> FALSE, next |-> allocator.free_list_head],
       allocator.num_allocated_chunks)

DeallocateUnchained(c) == Free(c, null, allocator.num_allocated_chunks - 1)

DeallocateUnmarked(c) ==
  Free(c, [allocated |-> TRUE, next |-> allocator.free_list_head],
       allocator.num_allocated_chunks - 1)

Deallocate(c) ==
  /\ CanDeallocate(c)
  /\ chunks' = Save(chunks, c, [allocated |-> FALSE, next |-> allocator.free_list_head])
  /\ SetFields(allocator.num_allocated_chunks - 1, c)
  /\ held' = held \ {c}

(* The BTreeMap forgets all its nodes and the first chunk is the border    *)
(* again; the headers of the other chunks stay in memory as they are.      *)
Clear ==
  /\ chunks' = Save(chunks, 1, null)
  /\ SetFields(0, 1)
  /\ held' = {}

(* After an upgrade the Allocator is made from the header in memory. *)
Load ==
  /\ allocator' = header
  /\ UNCHANGED <<chunks, header, held>>

Next ==
  \/ Allocate
  \/ \E c \in held : Deallocate(c)
  \/ Clear
  \/ Load

Spec == Init /\ [][Next]_vars

-------------------------------------------------------------------------------
TypeOK ==
  /\ DOMAIN chunks \subseteq Chunk
  /\ chunks \in [DOMAIN chunks -> ChunkHeader]
  /\ allocator \in Fields
  /\ header \in Fields
  /\ held \subseteq Chunk

(* f[1..n] are the chunks of the free list from its head on. *)
IsFreeList(f, n) ==
  /\ f[1] = allocator.free_list_head
  /\ \A i \in 1..n : chunks[f[i]].next = IF i < n THEN f[i + 1] ELSE NULL
  /\ \A i, j \in 1..n : f[i] = f[j] => i = j
  /\ {f[i] : i \in 1..n} = (1..f[n]) \ held

(* The free list is sound and complete: following it from the head ends at *)
(* the border chunk, visits no chunk twice, visits no chunk in use, and    *)
(* misses no other chunk below the border; every chunk in use lies below   *)
(* it and is marked so.  No chunk is ever lost, whatever the order in      *)
(* which chunks are taken, given back and cleared, and across restarts.    *)
FreeListComplete ==
  /\ header = allocator
  /\ \E n \in Chunk : \E f \in [1..n -> DOMAIN chunks] :
       /\ IsFreeList(f, n)
       /\ held \subseteq 1..f[n]
       /\ 1..f[n] \subseteq DOMAIN chunks
       /\ \A c \in 1..f[n] : chunks[c].allocated <=> c \in held

(* The assertions of allocate and deallocate never fail, and allocate      *)
(* never hands out a chunk that is still in use.                           *)
AssertionsHold ==
  /\ CanAllocate
  /\ allocator.free_list_head \notin held
  /\ \A c \in held : CanDeallocate(c)

(* The saved count is the number of chunks in use, so deallocate never     *)
(* takes it below zero.                                                    *)
CountExact == header.num_allocated_chunks = Cardinality(held)

(* "growing the memory in size only when all the available memory is       *)
(* allocated": a header is written to untouched memory only when every     *)
(* chunk before it is in use.                                              *)
GrowsOnlyWhenFull ==
  [][DOMAIN chunks' # DOMAIN chunks => held' = DOMAIN chunks]_vars

===============================================================================
