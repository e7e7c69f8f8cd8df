----------------------------- MODULE MemoryManager -----------------------------
(***************************************************************************)
(* The MemoryManager (src/memory_manager.rs): many virtual memories in one *)
(* stable memory, each a list of buckets of BucketSize pages.              *)
(*                                                                         *)
(* The unit of reading and writing is a page.  Page 0 of the stable memory *)
(* holds the header and one byte per bucket, modelled by header and owner; *)
(* bucket b starts at page 1 + BucketSize * b.  When the stable memory     *)
(* cannot grow, grow panics and the message is rolled back, which is not a *)
(* step.                                                                   *)
(***************************************************************************)
EXTENDS Integers, Sequences

CONSTANTS
  MemoryId,
  UNALLOCATED,       \* UNALLOCATED_BUCKET_MARKER
  MaxNumBuckets,
  BucketSize,
  Value,             \* contents of a page
  Zero,              \* the contents of a page nobody wrote
  MaxGrow,           \* bound: pages asked for in one grow
  MaxLen             \* bound: pages read or written in one call

ASSUME IdAssumption == UNALLOCATED \notin MemoryId
ASSUME SizeAssumption == MaxNumBuckets \in Nat \ {0} /\ BucketSize \in Nat \ {0}
ASSUME ValueAssumption == Zero \in Value
ASSUME BoundAssumption == MaxGrow \in Nat /\ MaxLen \in Nat

VARIABLES
  header,            \* Header in page 0
  owner,             \* the bucket allocations in page 0
  memory,            \* the other pages of the stable memory
  inner,             \* MemoryManagerInner
  cache,             \* the BucketCache of the VirtualMemory of each id
  ret                \* what the last call returned, or wrote

vars == <<header, owner, memory, inner, cache, ret>>

Bucket == 0..(MaxNumBuckets - 1)
Page == 0..(BucketSize * MaxNumBuckets - 1)
Header == [allocated_buckets : 0..MaxNumBuckets, sizes : [MemoryId -> Nat]]
NoBucket == [idx |-> -1, real |-> -1]

num_buckets_needed(num_pages) == (num_pages + BucketSize - 1) \div BucketSize
bucket_address(b) == 1 + BucketSize * b

(* Mutant: the page of the header is forgotten. *)
pages_needed_short(allocated) == BucketSize * allocated

pages_needed(allocated) == 1 + BucketSize * allocated

(* Mutant: the header keeps what it has. *)
save_header_forgotten(allocated, sizes) == UNCHANGED header

save_header(allocated, sizes) ==
  header' = [allocated_buckets |-> allocated, sizes |-> sizes]

(* The pages of one virtual bucket lie in one real one. *)
RealPage(buckets, i) == bucket_address(buckets[i \div BucketSize + 1]) + (i % BucketSize)

-------------------------------------------------------------------------------
(* BucketCache::get: the whole segment lies in the cached bucket. *)
CacheHit(id, offset, len) ==
  /\ cache[id] # NoBucket
  /\ cache[id].idx * BucketSize =< offset
  /\ offset + len =< (cache[id].idx + 1) * BucketSize

(* Read and write check the bounds only when the cache does not help. *)
Accepted(id, offset, len) ==
  CacheHit(id, offset, len) \/ offset + len =< inner.sizes[id]

(* Mutant: the segment is taken to go on past the end of its bucket. *)
LocatedInARow(id, offset, len) ==
  [j \in 1..len |-> RealPage(inner.memory_buckets[id], offset) + j - 1]

(* Where the pages of the segment are: next to each other in the cached    *)
(* bucket, or bucket by bucket as for_each_bucket finds them.              *)
Located(id, offset, len) ==
  [j \in 1..len |->
     IF CacheHit(id, offset, len)
     THEN cache[id].real + (offset + j - 1 - cache[id].idx * BucketSize)
     ELSE RealPage(inner.memory_buckets[id], offset + j - 1)]

(* Mutant: the first bucket goes with the address of the last one. *)
TouchFirst(id, offset, len) ==
  LET last == (offset + len - 1) \div BucketSize IN
  cache' = [cache EXCEPT ![id] =
             [idx |-> offset \div BucketSize,
              real |-> bucket_address(inner.memory_buckets[id][last + 1])]]

(* for_each_bucket leaves the last bucket of the segment in the cache. *)
Touch(id, offset, len) ==
  LET idx == (offset + len - 1) \div BucketSize IN
  cache' = IF CacheHit(id, offset, len) THEN cache
           ELSE [cache EXCEPT ![id] =
                  [idx |-> idx,
                   real |-> bucket_address(inner.memory_buckets[id][idx + 1])]]

Init ==
  /\ header = [allocated_buckets |-> 0, sizes |-> [id \in MemoryId |-> 0]]
  /\ owner = [b \in Bucket |-> UNALLOCATED]
  /\ memory = <<>>
  /\ inner = [allocated_buckets |-> 0, sizes |-> [id \in MemoryId |-> 0],
              memory_buckets |-> [id \in MemoryId |-> <<>>]]
  /\ cache = [id \in MemoryId |-> NoBucket]
  /\ ret = <<>>

Refused(id, pages) ==
  LET current == num_buckets_needed(inner.sizes[id])
      required == num_buckets_needed(inner.sizes[id] + pages)
  IN required - current + inner.allocated_buckets > MaxNumBuckets

Grow(id, pages) ==
  LET old_size == inner.sizes[id]
      new_size == old_size + pages
      new_buckets == num_buckets_needed(new_size) - num_buckets_needed(old_size)
      first == inner.allocated_buckets
      allocated == first + new_buckets
      sizes == [inner.sizes EXCEPT ![id] = new_size]
  IN
  \/ /\ Refused(id, pages)
     /\ ret' = <<-1>>
     /\ UNCHANGED <<header, owner, memory, inner, cache>>
  \/ /\ ~Refused(id, pages)
     /\ owner' = [b \in Bucket |-> IF first =< b /\ b < allocated THEN id ELSE owner[b]]
     /\ inner' = [allocated_buckets |-> allocated,
                  sizes |-> sizes,
                  memory_buckets |->
                    [inner.memory_buckets EXCEPT ![id] =
                       @ \o [n \in 1..new_buckets |-> first + n - 1]]]
     /\ memory' = [p \in DOMAIN memory \cup 1..(pages_needed(allocated) - 1) |->
                     IF p \in DOMAIN memory THEN memory[p] ELSE Zero]
     /\ save_header(allocated, sizes)
     /\ ret' = <<old_size>>
     /\ UNCHANGED cache

Write(id, offset, len, src) ==
  LET at == Located(id, offset, len) IN
  /\ Accepted(id, offset, len)
  /\ memory' = [p \in DOMAIN memory |->
                  IF \E j \in 1..len : at[j] = p
                  THEN src[CHOOSE j \in 1..len : at[j] = p]
                  ELSE memory[p]]
  /\ Touch(id, offset, len)
  /\ ret' = src
  /\ UNCHANGED <<header, owner, inner>>

Read(id, offset, len) ==
  LET at == Located(id, offset, len) IN
  /\ Accepted(id, offset, len)
  /\ ret' = [j \in 1..len |-> memory[at[j]]]
  /\ Touch(id, offset, len)
  /\ UNCHANGED <<header, owner, memory, inner>>

(* The bucket list of a memory as load makes it: by ascending bucket. *)
Ascending(buckets, S) ==
  /\ {buckets[n] : n \in DOMAIN buckets} = S
  /\ \A m, n \in DOMAIN buckets : m < n => buckets[m] < buckets[n]

BucketLists ==
  LET OwnedBy(id) == {b \in Bucket : owner[b] = id}
  IN [id \in MemoryId |->
        CHOOSE s \in UNION {[1..n -> OwnedBy(id)] : n \in 0..MaxNumBuckets} :
          Ascending(s, OwnedBy(id))]

(* After an upgrade: MemoryManager::init finds the magic and loads, and    *)
(* the structures get new VirtualMemory handles.                           *)
Load ==
  /\ inner' = [allocated_buckets |-> header.allocated_buckets,
               sizes |-> header.sizes,
               memory_buckets |-> BucketLists]
  /\ cache' = [id \in MemoryId |-> NoBucket]
  /\ ret' = <<>>
  /\ UNCHANGED <<header, owner, memory>>

(* The stable structures read and write only what they have grown to. *)
Next ==
  \/ Load
  \/ \E id \in MemoryId :
       \/ \E pages \in 0..MaxGrow : Grow(id, pages)
       \/ \E offset \in Page, len \in 1..MaxLen :
            /\ offset + len =< inner.sizes[id]
            /\ \/ Read(id, offset, len)
               \/ \E src \in [1..len -> Value] : Write(id, offset, len, src)

Spec == Init /\ [][Next]_vars

-------------------------------------------------------------------------------
TypeOK ==
  /\ header \in Header
  /\ owner \in [Bucket -> MemoryId \cup {UNALLOCATED}]
  /\ DOMAIN memory = 1..(BucketSize * inner.allocated_buckets)
  /\ \A p \in DOMAIN memory : memory[p] \in Value
  /\ inner \in [allocated_buckets : 0..MaxNumBuckets,
                sizes : [MemoryId -> Nat],
                memory_buckets : [MemoryId -> Seq(Bucket)]]
  /\ cache \in [MemoryId -> {NoBucket} \cup [idx : Nat, real : Nat]]

(* The heap agrees with page 0 and every bucket has one owner: the buckets *)
(* below allocated_buckets are taken and the others free, the list of a    *)
(* memory names exactly its buckets, in ascending order as load will find  *)
(* them, and has as many as its size needs.                                *)
BucketsOwned ==
  /\ header = [allocated_buckets |-> inner.allocated_buckets, sizes |-> inner.sizes]
  /\ \A b \in Bucket : owner[b] = UNALLOCATED <=> b >= inner.allocated_buckets
  /\ \A id \in MemoryId :
       /\ Ascending(inner.memory_buckets[id], {b \in Bucket : owner[b] = id})
       /\ Len(inner.memory_buckets[id]) = num_buckets_needed(inner.sizes[id])

(* A cached bucket is where the memory's list says it is, however much     *)
(* this or another memory has grown since it was cached.                   *)
CacheCoherent ==
  \A id \in MemoryId : cache[id] # NoBucket =>
    /\ cache[id].idx + 1 \in DOMAIN inner.memory_buckets[id]
    /\ cache[id].real = bucket_address(inner.memory_buckets[id][cache[id].idx + 1])

(* Each virtual memory behaves as a memory of its own: nothing another     *)
(* memory does shows in it, a restart loses nothing, and pages it gets by  *)
(* growing are zero.                                                       *)
View ==
  [id \in MemoryId |->
     [i \in Page |-> IF i < inner.sizes[id]
                     THEN memory[RealPage(inner.memory_buckets[id], i)] ELSE Zero]]

Abs == INSTANCE Memories WITH size <- inner.sizes, mem <- View

ImplementsMemories == Abs!Spec

===============================================================================
