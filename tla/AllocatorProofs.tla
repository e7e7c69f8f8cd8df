---------------------------- MODULE AllocatorProofs ----------------------------
(***************************************************************************)
(* Proofs about Allocator, for any number of chunks.                       *)
(*                                                                         *)
(* The inductive invariant is FreeListComplete with the types and two more *)
(* facts.  The code finds untouched memory by adding chunk_size to the     *)
(* head when the head has no successor, which is right because the last    *)
(* chunk of the free list is always the one with the highest address, the  *)
(* border.  CountExact keeps the count from going below zero, and NoGap    *)
(* says that the chunks ever touched, also before a clear, have no hole.   *)
(***************************************************************************)
EXTENDS Allocator, FiniteSetTheorems, TLAPS

USE ChunksAssumption

(* The n chunks of f are the free list and border on untouched memory. *)
Witness(f, n) ==
  /\ n \in Chunk
  /\ f \in [1..n -> DOMAIN chunks]
  /\ IsFreeList(f, n)
  /\ held \subseteq 1..f[n]
  /\ 1..f[n] \subseteq DOMAIN chunks
  /\ \A c \in 1..f[n] : chunks[c].allocated <=> c \in held

NoGap == \E m \in Chunk : DOMAIN chunks = 1..m

Inv == TypeOK /\ FreeListComplete /\ CountExact /\ NoGap

(* A list of different chunks is not longer than the memory. *)
LEMMA ListFits ==
  ASSUME NEW n \in Nat, NEW g \in [1..n -> Chunk],
         \A i, j \in 1..n : g[i] = g[j] => i = j
  PROVE  n =< MaxChunks
<1>1. g \in Injection(1..n, Chunk)
  BY DEF Injection, IsInjective
<1>2. IsFiniteSet(Chunk) /\ Cardinality(Chunk) = MaxChunks
  BY FS_Interval DEF Chunk
<1>3. Cardinality(1..n) = n
  BY FS_Interval
<1> QED
  BY <1>1, <1>2, <1>3, FS_Injection

LEMMA InitInv == Init => Inv
<1> SUFFICES ASSUME Init PROVE Inv
  OBVIOUS
<1>1. chunks = [i \in {1} |-> null]
  BY DEF Init, Save
<1>2. TypeOK
  <2>1. null \in ChunkHeader /\ 1 \in Chunk
    BY DEF null, ChunkHeader, NULL, Chunk
  <2>2. DOMAIN chunks = {1} /\ chunks \in [DOMAIN chunks -> ChunkHeader]
    BY <1>1, <2>1
  <2>3. allocator \in Fields
    BY <2>1 DEF Init, Fields
  <2> QED
    BY <2>1, <2>2, <2>3 DEF Init, TypeOK
<1>3. Witness([i \in 1..1 |-> 1], 1)
  BY <1>1 DEF Init, Witness, IsFreeList, Chunk, null, NULL
<1>4. FreeListComplete
  BY <1>3, Zenon DEF FreeListComplete, Witness, Init
<1>5. CountExact
  BY FS_EmptySet DEF Init, CountExact
<1>6. NoGap
  BY <1>1 DEF NoGap, Chunk
<1> QED
  BY <1>2, <1>4, <1>5, <1>6 DEF Inv

(* The count of the allocator, and the effect on it of one chunk. *)
LEMMA HeldCount ==
  ASSUME Inv
  PROVE  /\ allocator.num_allocated_chunks = Cardinality(held)
         /\ IsFiniteSet(held)
         /\ \A c \in held : Cardinality(held \ {c}) = Cardinality(held) - 1
                            /\ Cardinality(held) - 1 \in Nat
         /\ \A c : c \notin held => Cardinality(held \cup {c}) = Cardinality(held) + 1
<1>1. IsFiniteSet(held)
  <2>1. IsFiniteSet(Chunk)
    BY FS_Interval DEF Chunk
  <2> QED
    BY <2>1, FS_Subset DEF Inv, TypeOK
<1>2. Cardinality(held) \in Nat
  BY <1>1, FS_CardinalityType
<1>3. ASSUME NEW c \in held
      PROVE  Cardinality(held \ {c}) = Cardinality(held) - 1 /\ Cardinality(held) - 1 \in Nat
  <2>1. Cardinality(held \ {c}) = Cardinality(held) - 1 /\ IsFiniteSet(held \ {c})
    BY <1>1, FS_RemoveElement
  <2> QED
    BY <2>1, FS_CardinalityType
<1>4. ASSUME NEW c, c \notin held
      PROVE  Cardinality(held \cup {c}) = Cardinality(held) + 1
  BY <1>1, <1>4, FS_AddElement
<1> QED
  BY <1>1, <1>3, <1>4, SMTT(30) DEF Inv, CountExact, FreeListComplete

(* The head of the free list is free and its header is in memory. *)
LEMMA HeadIsFree ==
  ASSUME TypeOK, NEW n, NEW f, Witness(f, n)
  PROVE  /\ f[1] = allocator.free_list_head
         /\ f[1] \in (1..f[n]) \ held
         /\ CanAllocate
         /\ (chunks[f[1]].next = NULL) <=> (n = 1)
         /\ n > 1 => chunks[f[1]].next = f[2]
<1>1. n \in Nat /\ n >= 1 /\ 1 \in 1..n /\ f[1] = allocator.free_list_head
  BY DEF Witness, IsFreeList, Chunk
<1>2. f[1] \in (1..f[n]) \ held
  BY <1>1 DEF Witness, IsFreeList
<1>3. CanAllocate
  BY <1>1, <1>2 DEF Witness, CanAllocate
<1>4. n > 1 => chunks[f[1]].next = f[2] /\ f[2] \in Chunk
  BY <1>1 DEF Witness, IsFreeList, TypeOK
<1>5. n = 1 => chunks[f[1]].next = NULL
  BY <1>1 DEF Witness, IsFreeList
<1> QED
  BY <1>1, <1>2, <1>3, <1>4, <1>5 DEF Chunk, NULL

LEMMA AllocateKeepsInv ==
  ASSUME Inv, Allocate
  PROVE  TypeOK' /\ FreeListComplete'
<1> DEFINE c == allocator.free_list_head
           h == [chunks[c] EXCEPT !.allocated = TRUE]
           taken == Save(chunks, c, h)
<1>1. PICK f, n : Witness(f, n)
  BY Zenon DEF Inv, FreeListComplete, Witness
<1>2. c \in Chunk /\ c \in DOMAIN chunks /\ h \in ChunkHeader
  BY ZenonT(30) DEF Allocate, CanAllocate, Inv, TypeOK, ChunkHeader
<1>3. /\ DOMAIN taken = DOMAIN chunks
      /\ taken \in [DOMAIN chunks -> ChunkHeader]
      /\ taken[c] = h
      /\ \A i \in DOMAIN chunks : i # c => taken[i] = chunks[i]
  <2> HIDE DEF h
  <2>1. /\ DOMAIN taken = DOMAIN chunks \cup {c}
        /\ taken \in [DOMAIN taken -> ChunkHeader]
        /\ taken[c] = h
        /\ \A i \in DOMAIN chunks : i # c => taken[i] = chunks[i]
    BY <1>2 DEF Save, Inv, TypeOK
  <2> QED
    BY <1>2, <2>1
<1>4. /\ f[1] = c
      /\ c \in (1..f[n]) \ held
      /\ (chunks[c].next = NULL) <=> (n = 1)
      /\ n > 1 => chunks[c].next = f[2]
  BY <1>1, HeadIsFree DEF Inv
<1>5. held' = held \cup {c} /\ header' = allocator'
  BY DEF Allocate, SetFields
<1>6. n \in Nat /\ n >= 1 /\ f[n] \in Chunk /\ n \in Chunk
      /\ f \in [1..n -> DOMAIN chunks]
  BY <1>1 DEF Chunk, Inv, TypeOK, Witness
<1>7. CASE chunks[c].next # NULL
  <2> DEFINE g == [i \in 1..(n-1) |-> f[i+1]]
  <2>1. /\ chunks' = taken
        /\ allocator' = [num_allocated_chunks |-> allocator.num_allocated_chunks + 1,
                         free_list_head |-> chunks[c].next]
    BY <1>7 DEF Allocate, SetFields
  <2>2. n > 1 /\ n - 1 \in Chunk /\ f[2] \in Chunk
    BY <1>1, <1>4, <1>6, <1>7 DEF Chunk, Inv, TypeOK
  <2>3. TypeOK'
    <3>1. DOMAIN chunks' \subseteq Chunk /\ chunks' \in [DOMAIN chunks' -> ChunkHeader]
      BY <1>3, <2>1, Zenon DEF Inv, TypeOK
    <3>2. allocator' \in Fields
      BY <1>4, <2>1, <2>2 DEF Inv, TypeOK, Fields
    <3>3. held' \subseteq Chunk
      BY <1>2, <1>5 DEF Inv, TypeOK
    <3> QED
      BY <1>5, <3>1, <3>2, <3>3 DEF TypeOK
  <2>4. g \in [1..(n-1) -> DOMAIN chunks'] /\ g[n-1] = f[n] /\ g[1] = f[2]
    BY <1>3, <1>6, <2>1, <2>2
  <2>5. \A i \in 1..n : i # 1 => f[i] # c
    BY <1>1, <1>4, <1>6 DEF Witness, IsFreeList
  <2>6. IsFreeList(g, n-1)'
    <3>1. g[1] = allocator'.free_list_head
      BY <1>4, <2>1, <2>2, <2>4
    <3>2. \A i \in 1..(n-1) :
            chunks'[g[i]].next = IF i < n-1 THEN g[i+1] ELSE NULL
      <4> SUFFICES ASSUME NEW i \in 1..(n-1)
                   PROVE  chunks'[g[i]].next = IF i < n-1 THEN g[i+1] ELSE NULL
        OBVIOUS
      <4>1. i + 1 \in 1..n /\ g[i] = f[i+1] /\ f[i+1] # c /\ f[i+1] \in DOMAIN chunks
        BY <1>6, <2>2, <2>5
      <4>2. chunks'[g[i]] = chunks[f[i+1]]
        BY <1>3, <2>1, <4>1, Zenon
      <4>3. chunks[f[i+1]].next = IF i + 1 < n THEN f[i+2] ELSE NULL
        BY <1>1, <1>6, <4>1 DEF Witness, IsFreeList
      <4>4. i < n - 1 => i + 1 \in 1..(n-1) /\ g[i+1] = f[i+2]
        BY <1>6, <2>2
      <4> QED
        BY <1>6, <4>2, <4>3, <4>4
    <3>3. \A i, j \in 1..(n-1) : g[i] = g[j] => i = j
      BY <1>1, <1>6, <2>2 DEF Witness, IsFreeList
    <3>4. {g[i] : i \in 1..(n-1)} = (1..f[n]) \ held'
      <4>1. \A i \in 1..(n-1) : i + 1 \in 1..n /\ g[i] = f[i+1] /\ g[i] # c
        BY <1>6, <2>2, <2>5
      <4>2. \A i \in 1..n : i # 1 => i - 1 \in 1..(n-1) /\ g[i-1] = f[i]
        BY <1>6, <2>2
      <4>3. {f[i] : i \in 1..n} = (1..f[n]) \ held
        BY <1>1 DEF Witness, IsFreeList
      <4> HIDE DEF g
      <4> QED
        BY <1>4, <1>5, <4>1, <4>2, <4>3
    <3> QED
      BY <2>4, <3>1, <3>2, <3>3, <3>4, Zenon DEF IsFreeList
  <2>7. Witness(g, n-1)'
    <3>1. \A k \in 1..f[n] : chunks'[k].allocated <=> k \in held'
      <4>1. 1..f[n] \subseteq DOMAIN chunks
        BY <1>1 DEF Witness
      <4>2. \A k \in 1..f[n] : k # c => (chunks'[k].allocated <=> k \in held')
        BY <1>1, <1>3, <1>5, <2>1, <4>1, Zenon DEF Witness
      <4>3. chunks'[c].allocated
        BY <1>2, <1>3, <2>1 DEF Inv, TypeOK, ChunkHeader
      <4> QED
        BY <1>5, <4>2, <4>3
    <3> QED
      <4>1. held' \subseteq 1..f[n] /\ 1..f[n] \subseteq DOMAIN chunks'
        BY <1>1, <1>3, <1>4, <1>5, <2>1 DEF Witness
      <4> HIDE DEF g
      <4> QED
        BY <2>2, <2>4, <2>6, <3>1, <4>1 DEF Witness
  <2> QED
    BY <1>5, <2>2, <2>3, <2>7, Zenon DEF FreeListComplete, Witness
<1>8. CASE chunks[c].next = NULL
  <2> DEFINE g == [i \in 1..1 |-> f[n] + 1]
  <2>1. /\ c < MaxChunks
        /\ chunks' = Save(taken, c + 1, null)
        /\ allocator' = [num_allocated_chunks |-> allocator.num_allocated_chunks + 1,
                         free_list_head |-> c + 1]
    BY <1>8 DEF Allocate, SetFields
  <2>2. n = 1 /\ f[n] = c /\ c + 1 \in Chunk /\ 1 \in Chunk /\ null \in ChunkHeader
    BY <1>2, <1>4, <1>8, <2>1 DEF Chunk, null, ChunkHeader, NULL
  <2>3. held' = 1..c
    <3>1. {f[i] : i \in 1..n} = (1..f[n]) \ held /\ held \subseteq 1..f[n]
      BY <1>1 DEF Witness, IsFreeList
    <3>2. {f[i] : i \in 1..n} = {c}
      BY <1>4, <2>2
    <3>3. (1..c) \ held = {c} /\ held \subseteq 1..c
      BY <2>2, <3>1, <3>2
    <3> QED
      BY <1>5, <3>3, Zenon
  <2>4. /\ DOMAIN chunks' = DOMAIN chunks \cup {c + 1}
        /\ chunks' \in [DOMAIN chunks' -> ChunkHeader]
        /\ chunks'[c + 1] = null
        /\ \A i \in DOMAIN chunks : i # c + 1 => chunks'[i] = taken[i]
    <3> HIDE DEF taken
    <3> QED
      BY <1>3, <2>1, <2>2 DEF Save
  <2>5. TypeOK'
    <3>1. allocator' \in Fields
      BY <2>1, <2>2 DEF Inv, TypeOK, Fields
    <3> QED
      BY <1>2, <1>5, <2>2, <2>4, <3>1 DEF Inv, TypeOK
  <2>6. /\ 1..(c + 1) = (1..c) \cup {c + 1}
        /\ c + 1 \notin 1..c
    BY <1>2 DEF Chunk
  <2>7. 1..c \subseteq DOMAIN chunks
    BY <1>1, <2>2 DEF Witness
  <2>8. \A k \in 1..(c + 1) : chunks'[k].allocated <=> k \in held'
    <3>1. ~chunks'[c + 1].allocated
      BY <2>4 DEF null
    <3>2. chunks'[c].allocated
      BY <1>2, <1>3, <2>4, <2>6, Zenon DEF Inv, TypeOK, ChunkHeader, Chunk
    <3>3. \A k \in 1..c : k # c => chunks'[k].allocated
      <4>1. \A k \in 1..c : k # c => chunks[k].allocated
        BY <1>1, <1>5, <2>2, <2>3 DEF Witness
      <4> QED
        BY <1>3, <2>4, <2>6, <2>7, <4>1, ZenonT(30)
    <3> QED
      BY <2>3, <2>6, <3>1, <3>2, <3>3
  <2>9. IsFreeList(g, 1)'
    <3>1. /\ g[1] = c + 1
          /\ {g[i] : i \in 1..1} = {c + 1}
          /\ (1..(c + 1)) \ held' = {c + 1}
      BY <2>2, <2>3, <2>6
    <3>2. chunks'[g[1]].next = NULL
      BY <2>4, <3>1 DEF null
    <3>3. allocator'.free_list_head = c + 1
      BY <2>1
    <3> HIDE DEF g, c
    <3> QED
      BY <3>1, <3>2, <3>3 DEF IsFreeList
  <2>10. Witness(g, 1)'
    <3>1. g \in [1..1 -> DOMAIN chunks'] /\ g[1] = c + 1
      BY <2>2, <2>4
    <3>2. held' \subseteq 1..(c + 1) /\ 1..(c + 1) \subseteq DOMAIN chunks'
      BY <2>3, <2>4, <2>6, <2>7
    <3> HIDE DEF g
    <3> QED
      BY <2>2, <2>8, <2>9, <3>1, <3>2 DEF Witness
  <2> HIDE DEF g
  <2> QED
    BY <1>5, <2>5, <2>10, Zenon DEF FreeListComplete, Witness
<1> QED
  BY <1>7, <1>8

LEMMA DeallocateKeepsInv ==
  ASSUME Inv, NEW c \in held, Deallocate(c)
  PROVE  TypeOK' /\ FreeListComplete'
<1> DEFINE h == [allocated |-> FALSE, next |-> allocator.free_list_head]
<1>1. PICK f, n : Witness(f, n)
  BY Zenon DEF Inv, FreeListComplete, Witness
<1>2. /\ n \in Nat /\ n >= 1
      /\ f \in [1..n -> DOMAIN chunks]
      /\ f[n] \in Chunk
      /\ f[1] = allocator.free_list_head
      /\ {f[i] : i \in 1..n} = (1..f[n]) \ held
      /\ held \subseteq 1..f[n]
      /\ 1..f[n] \subseteq DOMAIN chunks
  BY <1>1 DEF Witness, IsFreeList, Chunk, Inv, TypeOK
<1>3. /\ chunks' = Save(chunks, c, h)
      /\ allocator' = [num_allocated_chunks |-> allocator.num_allocated_chunks - 1,
                       free_list_head |-> c]
      /\ header' = allocator'
      /\ held' = held \ {c}
      /\ c \in DOMAIN chunks
  BY DEF Deallocate, SetFields, CanDeallocate
<1>4. c \in Chunk /\ h \in ChunkHeader /\ c \notin {f[i] : i \in 1..n}
  BY <1>2 DEF Inv, TypeOK, ChunkHeader, Fields
<1>5. /\ DOMAIN chunks' = DOMAIN chunks
      /\ chunks' \in [DOMAIN chunks -> ChunkHeader]
      /\ chunks'[c] = h
      /\ \A i \in DOMAIN chunks : i # c => chunks'[i] = chunks[i]
  <2> HIDE DEF h
  <2> QED
    BY <1>3, <1>4 DEF Save, Inv, TypeOK
<1> DEFINE g == [i \in 1..(n + 1) |-> IF i = 1 THEN c ELSE f[i - 1]]
<1>6. /\ g[1] = c
      /\ \A i \in 1..n : i + 1 \in 1..(n + 1) /\ g[i + 1] = f[i]
      /\ \A i \in 1..(n + 1) : i # 1 => i - 1 \in 1..n /\ g[i] = f[i - 1]
      /\ g[n + 1] = f[n]
      /\ 1 \in 1..(n + 1)
      /\ g \in [1..(n + 1) -> DOMAIN chunks]
  BY <1>2, <1>3
<1> HIDE DEF g
<1>7. \A i, j \in 1..(n + 1) : g[i] = g[j] => i = j
  <2>1. \A i \in 1..n : f[i] # c
    BY <1>4
  <2>2. \A i, j \in 1..n : f[i] = f[j] => i = j
    BY <1>1 DEF Witness, IsFreeList
  <2> QED
    BY <1>2, <1>6, <2>1, <2>2
<1>8. n + 1 \in Chunk
  <2>1. g \in [1..(n + 1) -> Chunk]
    BY <1>6 DEF Inv, TypeOK
  <2>2. n + 1 \in Nat
    BY <1>2
  <2>3. n + 1 =< MaxChunks
    BY <1>7, <2>1, <2>2, ListFits, Zenon
  <2> QED
    BY <1>2, <2>3 DEF Chunk
<1>9. {g[i] : i \in 1..(n + 1)} = (1..f[n]) \ held'
  <2>1. {g[i] : i \in 1..(n + 1)} = {f[i] : i \in 1..n} \cup {c}
    BY <1>6
  <2> QED
    BY <1>2, <1>3, <2>1, ZenonT(30)
<1>10. \A i \in 1..(n + 1) :
         chunks'[g[i]].next = IF i < n + 1 THEN g[i + 1] ELSE NULL
  <2>1. chunks'[g[1]].next = g[2] /\ 1 < n + 1
    BY <1>2, <1>5, <1>6
  <2>2. ASSUME NEW i \in 1..n
        PROVE  chunks'[g[i + 1]].next = IF i + 1 < n + 1 THEN g[i + 2] ELSE NULL
    <3>1. f[i] # c /\ f[i] \in DOMAIN chunks
      BY <1>2, <1>4
    <3>2. chunks'[g[i + 1]] = chunks[f[i]]
      BY <1>5, <1>6, <3>1
    <3>3. chunks[f[i]].next = IF i < n THEN f[i + 1] ELSE NULL
      BY <1>1 DEF Witness, IsFreeList
    <3>4. i < n => i + 1 \in 1..n /\ g[i + 2] = f[i + 1]
      BY <1>2, <1>6
    <3> QED
      BY <1>2, <3>2, <3>3, <3>4
  <2>3. ASSUME NEW i \in 1..(n + 1), i # 1
        PROVE  chunks'[g[i]].next = IF i < n + 1 THEN g[i + 1] ELSE NULL
    <3>1. i - 1 \in 1..n /\ (i - 1) + 1 = i /\ (i - 1) + 2 = i + 1
      BY <1>2, <2>3
    <3> QED
      BY <2>2, <3>1
  <2> QED
    BY <2>1, <2>3
<1>11. \A k \in 1..f[n] : chunks'[k].allocated <=> k \in held'
  <2>1. ~chunks'[c].allocated
    BY <1>5
  <2>2. \A k \in 1..f[n] : k # c => (chunks'[k].allocated <=> k \in held')
    BY <1>1, <1>2, <1>3, <1>5, ZenonT(30) DEF Witness
  <2> QED
    BY <1>3, <2>1, <2>2, Zenon
<1>12. allocator'.free_list_head = c
  BY <1>3
<1>13. Witness(g, n + 1)'
  <2>1. IsFreeList(g, n + 1)'
    BY <1>6, <1>7, <1>9, <1>10, <1>12 DEF IsFreeList
  <2>2. held' \subseteq 1..f[n] /\ 1..f[n] \subseteq DOMAIN chunks'
    BY <1>2, <1>3, <1>5
  <2> QED
    BY <1>5, <1>6, <1>8, <1>11, <2>1, <2>2 DEF Witness
<1>14. TypeOK'
  <2>1. allocator.num_allocated_chunks - 1 \in Nat
    BY HeldCount, Zenon
  <2>2. allocator' \in Fields
    BY <1>3, <1>4, <2>1 DEF Fields
  <2> QED
    BY <1>3, <1>5, <2>2, Zenon DEF Inv, TypeOK
<1> QED
  BY <1>3, <1>13, <1>14, Zenon DEF FreeListComplete, Witness

LEMMA ClearKeepsInv ==
  ASSUME Inv, Clear
  PROVE  TypeOK' /\ FreeListComplete'
<1> DEFINE g == [i \in 1..1 |-> 1]
<1>1. 1 \in Chunk /\ null \in ChunkHeader
  BY DEF Chunk, null, ChunkHeader, NULL
<1>2. /\ DOMAIN chunks' = DOMAIN chunks \cup {1}
      /\ chunks' \in [DOMAIN chunks' -> ChunkHeader]
      /\ chunks'[1] = null
  BY <1>1 DEF Clear, Save, Inv, TypeOK
<1>3. /\ allocator' = [num_allocated_chunks |-> 0, free_list_head |-> 1]
      /\ header' = allocator'
      /\ held' = {}
  BY DEF Clear, SetFields
<1>4. TypeOK'
  <2>1. allocator' \in Fields
    BY <1>1, <1>3 DEF Fields
  <2> QED
    BY <1>1, <1>2, <1>3, <2>1 DEF Inv, TypeOK
<1>5. g[1] = 1 /\ g \in [1..1 -> DOMAIN chunks']
  BY <1>2
<1>6. chunks'[1].next = NULL /\ ~chunks'[1].allocated /\ allocator'.free_list_head = 1
  BY <1>2, <1>3 DEF null
<1>7. {g[i] : i \in 1..1} = {1} /\ 1..1 = {1}
  BY <1>5
<1> HIDE DEF g
<1>8. IsFreeList(g, 1)'
  BY <1>3, <1>5, <1>6, <1>7 DEF IsFreeList
<1>9. Witness(g, 1)'
  BY <1>1, <1>2, <1>3, <1>5, <1>6, <1>7, <1>8 DEF Witness
<1> QED
  BY <1>3, <1>4, <1>9, Zenon DEF FreeListComplete, Witness

(* A header is saved over another one or right after the last one. *)
LEMMA NextLeavesNoGap ==
  ASSUME Inv, Next
  PROVE  NoGap'
<1>1. PICK m \in Chunk : DOMAIN chunks = 1..m
  BY DEF Inv, NoGap
<1>3. 1 \in 1..m
  BY DEF Chunk
<1>4. CASE Allocate
  <2> DEFINE c == allocator.free_list_head
  <2>1. c \in 1..m
    BY <1>1, <1>4 DEF Allocate, CanAllocate
  <2>2. CASE DOMAIN chunks' = (1..m) \cup {c}
    BY <2>1, <2>2 DEF NoGap
  <2>3. CASE c < MaxChunks /\ DOMAIN chunks' = ((1..m) \cup {c}) \cup {c + 1}
    <3>1. CASE c < m
      <4>1. DOMAIN chunks' = 1..m
        BY <2>1, <2>3, <3>1 DEF Chunk
      <4> QED
        BY <4>1 DEF NoGap
    <3>2. CASE c = m
      <4>1. m + 1 \in Chunk /\ DOMAIN chunks' = 1..(m + 1)
        BY <2>1, <2>3, <3>2 DEF Chunk
      <4> QED
        BY <4>1 DEF NoGap
    <3> QED
      BY <2>1, <3>1, <3>2 DEF Chunk
  <2> QED
    BY <1>1, <1>4, <2>2, <2>3 DEF Allocate, Save
<1>5. ASSUME NEW c \in held, Deallocate(c) PROVE NoGap'
  <2>1. DOMAIN chunks' = DOMAIN chunks
    BY <1>5 DEF Deallocate, CanDeallocate, Save
  <2> QED
    BY <1>1, <2>1 DEF NoGap
<1>6. CASE Clear
  <2>1. DOMAIN chunks' = DOMAIN chunks
    BY <1>1, <1>3, <1>6 DEF Clear, Save
  <2> QED
    BY <1>1, <2>1 DEF NoGap
<1>7. CASE Load
  BY <1>1, <1>7 DEF Load, NoGap
<1> QED
  BY <1>4, <1>5, <1>6, <1>7 DEF Next

LEMMA NextInv == Inv /\ [Next]_vars => Inv'
<1> SUFFICES ASSUME Inv, [Next]_vars PROVE Inv'
  OBVIOUS
<1>1. CASE Allocate
  <2>1. PICK f, n : Witness(f, n)
    BY Zenon DEF Inv, FreeListComplete, Witness
  <2>2. allocator.free_list_head \notin held
    BY <2>1, HeadIsFree DEF Inv
  <2>3. CountExact'
    BY <1>1, <2>2, HeldCount DEF Allocate, SetFields, CountExact
  <2> QED
    BY <1>1, <2>3, AllocateKeepsInv, NextLeavesNoGap DEF Inv, Next
<1>2. ASSUME NEW c \in held, Deallocate(c) PROVE Inv'
  <2>1. CountExact'
    BY <1>2, HeldCount DEF Deallocate, SetFields, CountExact
  <2> QED
    BY <1>2, <2>1, DeallocateKeepsInv, NextLeavesNoGap DEF Inv, Next
<1>3. CASE Clear
  <2>1. CountExact'
    BY <1>3, FS_EmptySet DEF Clear, SetFields, CountExact
  <2> QED
    BY <1>3, <2>1, ClearKeepsInv, NextLeavesNoGap DEF Inv, Next
<1>4. CASE Load \/ UNCHANGED vars
  <2>1. UNCHANGED vars
    BY <1>4 DEF Load, vars, Inv, FreeListComplete
  <2>2. TypeOK' /\ CountExact' /\ NoGap'
    BY <2>1 DEF vars, Inv, TypeOK, CountExact, NoGap
  <2>3. PICK f, n : Witness(f, n)
    BY Zenon DEF Inv, FreeListComplete, Witness
  <2>4. Witness(f, n)'
    BY <2>1, <2>3 DEF vars, Witness, IsFreeList
  <2>5. FreeListComplete'
    BY <2>1, <2>4, Zenon DEF vars, Inv, FreeListComplete, Witness
  <2> QED
    BY <2>2, <2>5 DEF Inv
<1> QED
  BY <1>1, <1>2, <1>3, <1>4 DEF Next

(* Chunk headers, the saved fields and the chunks handed out keep their    *)
(* types; in particular the count never falls below zero.                  *)
THEOREM TypeCorrect == Spec => []TypeOK
<1>1. Inv => TypeOK
  BY DEF Inv
<1> QED
  BY <1>1, InitInv, NextInv, PTL DEF Spec

(* The free list stays sound and complete, for memories of any size. *)
THEOREM FreeListStaysComplete == Spec => []FreeListComplete
<1>1. Inv => FreeListComplete
  BY DEF Inv
<1> QED
  BY <1>1, InitInv, NextInv, PTL DEF Spec

(* num_allocated_chunks counts the chunks in use. *)
THEOREM CountStaysExact == Spec => []CountExact
<1>1. Inv => CountExact
  BY DEF Inv
<1> QED
  BY <1>1, InitInv, NextInv, PTL DEF Spec

(* The assertions of allocate and deallocate never fail. *)
THEOREM AssertionsNeverFail == Spec => []AssertionsHold
<1>1. Inv => AssertionsHold
  <2> SUFFICES ASSUME Inv PROVE AssertionsHold
    OBVIOUS
  <2>1. PICK f, n : Witness(f, n)
    BY Zenon DEF Inv, FreeListComplete, Witness
  <2>2. CanAllocate /\ allocator.free_list_head \notin held
    BY <2>1, HeadIsFree DEF Inv
  <2>3. \A c \in held : CanDeallocate(c)
    BY <2>1 DEF Witness, CanDeallocate
  <2> QED
    BY <2>2, <2>3 DEF AssertionsHold
<1> QED
  BY <1>1, InitInv, NextInv, PTL DEF Spec

(* Untouched memory is used only when every chunk is in use. *)
THEOREM GrowsOnlyIfFull == Spec => GrowsOnlyWhenFull
<1>1. ASSUME Inv, [Next]_vars
      PROVE  [DOMAIN chunks' # DOMAIN chunks => held' = DOMAIN chunks]_vars
  <2> DEFINE c == allocator.free_list_head
  <2>1. PICK f, n : Witness(f, n)
    BY <1>1, Zenon DEF Inv, FreeListComplete, Witness
  <2>2. /\ f[1] = c /\ c \in (1..f[n]) \ held /\ CanAllocate
        /\ (chunks[c].next = NULL) <=> (n = 1)
    BY <1>1, <2>1, HeadIsFree DEF Inv
  <2>3. CASE Allocate
    <3>1. CASE chunks[c].next # NULL
      BY <2>2, <2>3, <3>1 DEF Allocate, CanAllocate, Save
    <3>2. CASE chunks[c].next = NULL /\ c + 1 \in DOMAIN chunks
      BY <2>2, <2>3, <3>2 DEF Allocate, CanAllocate, Save
    <3>3. CASE chunks[c].next = NULL /\ c + 1 \notin DOMAIN chunks
      <4>1. PICK m \in Chunk : DOMAIN chunks = 1..m
        BY <1>1 DEF Inv, NoGap
      <4>2. c \in 1..m /\ c = m
        BY <2>2, <3>3, <4>1 DEF CanAllocate, Chunk
      <4>3. n = 1 /\ {f[i] : i \in 1..n} = (1..f[n]) \ held /\ held \subseteq 1..f[n]
        BY <2>1, <2>2, <3>3 DEF Witness, IsFreeList
      <4>4. (1..c) \ held = {c} /\ held \subseteq 1..c
        BY <2>2, <4>3
      <4>5. held' = held \cup {c}
        BY <2>3 DEF Allocate
      <4> QED
        BY <4>1, <4>2, <4>4, <4>5, Zenon
    <3> QED
      BY <3>1, <3>2, <3>3
  <2>4. ASSUME NEW k \in held, Deallocate(k) PROVE DOMAIN chunks' = DOMAIN chunks
    BY <2>4 DEF Deallocate, CanDeallocate, Save
  <2>5. CASE Clear
    <3>1. 1 \in DOMAIN chunks
      BY <1>1 DEF Inv, NoGap, Chunk
    <3> QED
      BY <2>5, <3>1 DEF Clear, Save
  <2>6. CASE Load \/ UNCHANGED vars
    BY <2>6 DEF Load, vars
  <2> QED
    BY <1>1, <2>3, <2>4, <2>5, <2>6 DEF Next
<1> QED
  BY <1>1, InitInv, NextInv, PTL DEF Spec, GrowsOnlyWhenFull

===============================================================================
