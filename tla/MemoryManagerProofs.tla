--------------------------- MODULE MemoryManagerProofs ---------------------------
(***************************************************************************)
(* Proofs about the MemoryManager, for all memories, bucket sizes and      *)
(* numbers of buckets: the types, that every bucket has one owner, that    *)
(* the bucket cache never leads astray, and that the virtual memories      *)
(* behave as memories of their own.                                        *)
(***************************************************************************)
EXTENDS MemoryManager, SequenceTheorems, WellFoundedInduction, TLAPS

(* The pages of the last bucket that a memory has not grown to yet are     *)
(* still zero: what makes the next grow, when it needs no new bucket,      *)
(* yield zeroed pages.                                                     *)
SparePagesZero ==
  \A id \in MemoryId :
    \A i \in inner.sizes[id]..(BucketSize * Len(inner.memory_buckets[id]) - 1) :
      memory[RealPage(inner.memory_buckets[id], i)] = Zero

(* No memory has more buckets than are allocated. *)
ListsBounded ==
  \A id \in MemoryId : Len(inner.memory_buckets[id]) =< inner.allocated_buckets

(* The inductive invariant. *)
Inv == TypeOK /\ BucketsOwned /\ CacheCoherent /\ SparePagesZero /\ ListsBounded

-------------------------------------------------------------------------------
(* Arithmetic of buckets. *)

LEMMA Products ==
  ASSUME NEW x \in Nat, NEW y \in Nat
  PROVE  /\ BucketSize * x \in Nat
         /\ x =< y => BucketSize * x =< BucketSize * y
         /\ x < y => BucketSize * x + BucketSize =< BucketSize * y
         /\ BucketSize * (x + y) = BucketSize * x + BucketSize * y
<1>1. \A a \in Nat : BucketSize * a \in Nat
  BY SizeAssumption
<1>2. ASSUME NEW a \in Nat, NEW b \in Nat
      PROVE  BucketSize * (a + b) = BucketSize * a + BucketSize * b
  BY SizeAssumption
<1>3. ASSUME x < y
      PROVE  BucketSize * x + BucketSize =< BucketSize * y
  <2>1. y - x - 1 \in Nat
    BY <1>3
  <2>2. PICK d \in Nat : y = (x + 1) + d
    BY <2>1
  <2>3. BucketSize * y = BucketSize * (x + 1) + BucketSize * d
    BY <1>2, <2>2
  <2>4. BucketSize * (x + 1) = BucketSize * x + BucketSize
    BY <1>2, SizeAssumption
  <2> QED
    BY <1>1, <2>3, <2>4, SizeAssumption
<1>4. ASSUME x =< y
      PROVE  BucketSize * x =< BucketSize * y
  <2>1. CASE x = y
    BY <1>1, <2>1
  <2>2. CASE x < y
    BY <1>1, <1>3, <2>2, SizeAssumption
  <2> QED
    BY <1>4, <2>1, <2>2
<1> QED
  BY <1>1, <1>2, <1>3, <1>4

LEMMA DivMod ==
  ASSUME NEW a \in Nat
  PROVE  /\ a \div BucketSize \in Nat
         /\ a % BucketSize \in 0..(BucketSize - 1)
         /\ a = BucketSize * (a \div BucketSize) + (a % BucketSize)
<1>1. a \div BucketSize \in Nat
  BY SizeAssumption
<1>2. a % BucketSize \in 0..(BucketSize - 1)
  BY SizeAssumption
<1>3. a = BucketSize * (a \div BucketSize) + (a % BucketSize)
  BY SizeAssumption
<1> QED
  BY <1>1, <1>2, <1>3

(* A page is in one bucket, at one place. *)
LEMMA OnePlace ==
  ASSUME NEW q \in Nat, NEW r \in 0..(BucketSize - 1),
         NEW x \in Nat, NEW y \in 0..(BucketSize - 1),
         BucketSize * q + r = BucketSize * x + y
  PROVE  q = x /\ r = y
<1>1. BucketSize * q \in Nat /\ BucketSize * x \in Nat
  BY Products
<1>2. ~(q < x)
  <2>1. q < x => BucketSize * q + BucketSize =< BucketSize * x
    BY Products
  <2> QED
    BY <1>1, <2>1, SizeAssumption
<1>3. ~(x < q)
  <2>1. x < q => BucketSize * x + BucketSize =< BucketSize * q
    BY Products
  <2> QED
    BY <1>1, <2>1, SizeAssumption
<1>4. q = x
  BY <1>2, <1>3
<1>5. BucketSize * q = BucketSize * x
  BY <1>4
<1> QED
  BY <1>1, <1>4, <1>5, SizeAssumption

(* The pages below BucketSize * n are those of the first n buckets. *)
LEMMA InBuckets ==
  ASSUME NEW a \in Nat, NEW n \in Nat
  PROVE  a < BucketSize * n <=> a \div BucketSize + 1 \in 1..n
<1> DEFINE q == a \div BucketSize
           r == a % BucketSize
<1>1. q \in Nat /\ r \in 0..(BucketSize - 1) /\ a = BucketSize * q + r
  BY DivMod
<1> HIDE DEF q, r
<1>2. BucketSize * q \in Nat /\ BucketSize * n \in Nat
  BY <1>1, Products
<1>3. q < n => BucketSize * q + BucketSize =< BucketSize * n
  BY <1>1, Products
<1>4. n =< q => BucketSize * n =< BucketSize * q
  BY <1>1, Products
<1>5. a < BucketSize * n <=> q < n
  BY <1>1, <1>2, <1>3, <1>4, SizeAssumption
<1>6. a < BucketSize * n <=> q + 1 \in 1..n
  BY <1>1, <1>5
<1> QED
  BY <1>6 DEF q

(* num_buckets_needed is the least number of buckets with that many pages. *)
LEMMA Needed ==
  ASSUME NEW p \in Nat
  PROVE  /\ num_buckets_needed(p) \in Nat
         /\ p =< BucketSize * num_buckets_needed(p)
         /\ BucketSize * num_buckets_needed(p) < p + BucketSize
<1> DEFINE a == p + BucketSize - 1
           q == a \div BucketSize
           r == a % BucketSize
<1>1. a \in Nat
  BY SizeAssumption
<1> HIDE DEF a
<1>2. q \in Nat /\ r \in 0..(BucketSize - 1) /\ a = BucketSize * q + r
  BY <1>1, DivMod
<1>3. num_buckets_needed(p) = q
  BY DEF num_buckets_needed, a
<1> HIDE DEF q, r
<1>4. BucketSize * q \in Nat
  BY <1>2, Products
<1>5. p =< BucketSize * q /\ BucketSize * q < p + BucketSize
  BY <1>2, <1>4, SizeAssumption DEF a
<1> QED
  BY <1>2, <1>3, <1>5

LEMMA NeededGrows ==
  ASSUME NEW p \in Nat, NEW k \in Nat
  PROVE  num_buckets_needed(p) =< num_buckets_needed(p + k)
<1> DEFINE x == num_buckets_needed(p)
           y == num_buckets_needed(p + k)
<1>1. x \in Nat /\ BucketSize * x < p + BucketSize
  BY Needed
<1>2. y \in Nat /\ p + k =< BucketSize * y
  <2>1. p + k \in Nat
    OBVIOUS
  <2> QED
    BY <2>1, Needed
<1> HIDE DEF x, y
<1>3. BucketSize * x \in Nat /\ BucketSize * y \in Nat
  BY <1>1, <1>2, Products
<1>4. y < x => BucketSize * y + BucketSize =< BucketSize * x
  BY <1>1, <1>2, Products
<1>5. x =< y
  BY <1>1, <1>2, <1>3, <1>4, SizeAssumption
<1> QED
  BY <1>5 DEF x, y

(* The pages of a memory are in the buckets its size needs. *)
LEMMA PageHasBucket ==
  ASSUME NEW p \in Nat, NEW i \in Nat, i < p
  PROVE  i \div BucketSize + 1 \in 1..num_buckets_needed(p)
<1>1. /\ num_buckets_needed(p) \in Nat
      /\ p =< BucketSize * num_buckets_needed(p)
      /\ BucketSize * num_buckets_needed(p) \in Nat
  BY Needed, Products
<1>2. i < BucketSize * num_buckets_needed(p)
  BY <1>1
<1> QED
  BY <1>1, <1>2, InBuckets

-------------------------------------------------------------------------------
(* Lists of buckets. *)

(* A set of numbers that is not empty has a least one. *)
LEMMA FirstOf ==
  ASSUME NEW S \in SUBSET Nat, S # {}
  PROVE  \E m \in S : \A k \in S : m =< k
<1> DEFINE Less == {ss \in Nat \X Nat : ss[1] < ss[2]}
<1>1. IsWellFoundedOn(Less, Nat)
  BY NatLessThanWellFounded DEF OpToRel
<1>2. PICK m \in S : \A k \in S : ~(<<k, m>> \in Less)
  <2> HIDE DEF Less
  <2> QED
    BY <1>1, WFMin
<1>3. ASSUME NEW k \in S
      PROVE  m =< k
  <2>1. m \in Nat /\ k \in Nat
    OBVIOUS
  <2>2. ~(k < m)
    BY <1>2, <2>1
  <2> QED
    BY <2>1, <2>2
<1> QED
  BY <1>3

(* Of two ascending lists of one set, neither falls behind the other. *)
LEMMA NotBehind ==
  ASSUME NEW S, S \subseteq Nat, NEW s \in Seq(Nat), NEW t \in Seq(Nat),
         Ascending(s, S), Ascending(t, S),
         NEW n \in DOMAIN s, n \in DOMAIN t,
         \A m \in 1..(n - 1) : s[m] = t[m]
  PROVE  s[n] >= t[n]
<1>1. SUFFICES ASSUME s[n] < t[n] PROVE FALSE
  <2>1. s[n] \in Nat /\ t[n] \in Nat
    OBVIOUS
  <2> QED
    BY <2>1
<1>2. s[n] \in S
  BY DEF Ascending
<1>3. PICK m \in DOMAIN t : t[m] = s[n]
  BY <1>2 DEF Ascending
<1>4. m \in Nat /\ n \in Nat /\ n >= 1 /\ m >= 1 /\ n =< Len(s) /\ DOMAIN s = 1..Len(s)
  OBVIOUS
<1>5. m < n
  <2>1. n < m => t[n] < t[m]
    BY DEF Ascending
  <2>2. t[n] \in Nat /\ t[m] \in Nat
    OBVIOUS
  <2> QED
    BY <1>1, <1>3, <1>4, <2>1, <2>2
<1>6. s[m] = t[m] /\ m \in DOMAIN s
  <2>1. m \in 1..(n - 1)
    BY <1>4, <1>5
  <2>2. m \in 1..Len(s) /\ Len(s) \in Nat
    BY <1>4, <1>5
  <2> QED
    BY <1>4, <2>1, <2>2
<1>7. s[m] < s[n]
  BY <1>5, <1>6 DEF Ascending
<1>8. s[m] \in Nat
  BY <1>6
<1> QED
  BY <1>3, <1>6, <1>7, <1>8

(* Lists that agree have the same length. *)
LEMMA NotShorter ==
  ASSUME NEW S, NEW s \in Seq(Nat), NEW t \in Seq(Nat),
         Ascending(s, S), Ascending(t, S),
         \A n \in DOMAIN s \cap DOMAIN t : s[n] = t[n]
  PROVE  Len(t) =< Len(s)
<1>1. SUFFICES ASSUME Len(s) < Len(t) PROVE FALSE
  OBVIOUS
<1> DEFINE n == Len(s) + 1
<1>2. n \in DOMAIN t
  BY <1>1
<1>3. PICK m \in DOMAIN s : s[m] = t[n]
  BY <1>2 DEF Ascending
<1>4. m \in DOMAIN t /\ m < n
  BY <1>1
<1>5. t[m] < t[n] /\ t[m] = s[m]
  BY <1>2, <1>4 DEF Ascending
<1>6. t[m] \in Nat
  BY <1>4
<1> QED
  BY <1>3, <1>5, <1>6

(* A set of buckets has one ascending list: what load makes of the owners  *)
(* is the list that grow has built.                                        *)
LEMMA OneList ==
  ASSUME NEW S, S \subseteq Nat, NEW s \in Seq(Nat), NEW t \in Seq(Nat),
         Ascending(s, S), Ascending(t, S)
  PROVE  s = t
<1> DEFINE D == {n \in DOMAIN s \cap DOMAIN t : s[n] # t[n]}
<1>1. D = {}
  <2>1. SUFFICES ASSUME D # {} PROVE FALSE
    OBVIOUS
  <2>2. D \in SUBSET Nat
    OBVIOUS
  <2>3. PICK n \in D : \A k \in D : n =< k
    <3> HIDE DEF D
    <3> QED
      BY <2>1, <2>2, FirstOf
  <2>4. n \in DOMAIN s /\ n \in DOMAIN t /\ n \in Nat /\ n =< Len(s) /\ n =< Len(t)
        /\ DOMAIN s = 1..Len(s) /\ DOMAIN t = 1..Len(t) /\ Len(s) \in Nat /\ Len(t) \in Nat
    OBVIOUS
  <2>5. ASSUME NEW m \in 1..(n - 1)
        PROVE  s[m] = t[m]
    <3>1. m \in Nat /\ m < n /\ m >= 1
      BY <2>4
    <3>2. m \in DOMAIN s /\ m \in DOMAIN t
      <4>1. m \in 1..Len(s) /\ m \in 1..Len(t)
        BY <2>4, <3>1
      <4> QED
        BY <2>4, <4>1
    <3>3. m \notin D
      <4> HIDE DEF D
      <4> QED
        BY <2>3, <2>4, <3>1
    <3> QED
      BY <3>2, <3>3
  <2>6. s[n] >= t[n] /\ t[n] >= s[n]
    BY <2>4, <2>5, NotBehind
  <2>7. s[n] \in Nat /\ t[n] \in Nat
    BY <2>4
  <2> QED
    BY <2>6, <2>7
<1>2. \A n \in DOMAIN s \cap DOMAIN t : s[n] = t[n]
  BY <1>1
<1>3. Len(s) = Len(t)
  <2>1. Len(t) =< Len(s) /\ Len(s) =< Len(t)
    BY <1>2, NotShorter
  <2> QED
    BY <2>1
<1>4. DOMAIN s = 1..Len(s) /\ DOMAIN t = 1..Len(t)
  OBVIOUS
<1> HIDE DEF D
<1>5. DOMAIN s \cap DOMAIN t = 1..Len(s)
  <2>1. DOMAIN t = DOMAIN s
    BY <1>3, <1>4, Zenon
  <2> QED
    BY <1>4, <2>1, Zenon
<1>6. \A n \in 1..Len(s) : s[n] = t[n]
  BY <1>2, <1>5, Zenon
<1> QED
  BY <1>3, <1>6, SeqEqual, Zenon

-------------------------------------------------------------------------------
(* What the invariant says of one memory. *)

LEMMA Lists ==
  ASSUME Inv, NEW id \in MemoryId
  PROVE  LET B == inner.memory_buckets[id] IN
         /\ B \in Seq(Bucket) /\ Len(B) \in Nat /\ DOMAIN B = 1..Len(B)
         /\ inner.sizes[id] \in Nat
         /\ inner.allocated_buckets \in 0..MaxNumBuckets
         /\ Len(B) = num_buckets_needed(inner.sizes[id])
         /\ Len(B) =< inner.allocated_buckets
         /\ \A n \in 1..Len(B) : /\ B[n] \in Bucket /\ B[n] \in Nat
                                 /\ B[n] < inner.allocated_buckets
                                 /\ owner[B[n]] = id
         /\ \A m, n \in 1..Len(B) : m < n => B[m] < B[n]
<1> DEFINE B == inner.memory_buckets[id]
<1>1. /\ B \in Seq(Bucket)
      /\ inner.sizes[id] \in Nat
      /\ inner.allocated_buckets \in 0..MaxNumBuckets
  BY DEF Inv, TypeOK
<1>2. Len(B) \in Nat /\ DOMAIN B = 1..Len(B)
  BY <1>1
<1>3. Len(B) = num_buckets_needed(inner.sizes[id])
  BY DEF Inv, BucketsOwned
<1>4. Len(B) =< inner.allocated_buckets
  BY DEF Inv, ListsBounded
<1>5. Ascending(B, {b \in Bucket : owner[b] = id})
  BY DEF Inv, BucketsOwned
<1>6. \A m, n \in 1..Len(B) : m < n => B[m] < B[n]
  BY <1>2, <1>5 DEF Ascending
<1>7. ASSUME NEW n \in 1..Len(B)
      PROVE  B[n] \in Bucket /\ B[n] \in Nat /\ B[n] < inner.allocated_buckets /\ owner[B[n]] = id
  <2>1. B[n] \in Bucket /\ owner[B[n]] = id
    BY <1>2, <1>5, <1>7 DEF Ascending
  <2>2. B[n] \in Nat
    BY <2>1, SizeAssumption DEF Bucket
  <2>3. owner[B[n]] # UNALLOCATED
    BY <2>1, IdAssumption
  <2>4. ~(B[n] >= inner.allocated_buckets)
    BY <2>1, <2>3 DEF Inv, BucketsOwned
  <2> QED
    BY <1>1, <2>1, <2>2, <2>4
<1> QED
  BY <1>1, <1>2, <1>3, <1>4, <1>6, <1>7

(* Where a page of a memory is. *)
LEMMA PlaceOf ==
  ASSUME Inv, NEW id \in MemoryId, NEW i \in Nat,
         i < BucketSize * Len(inner.memory_buckets[id])
  PROVE  LET B == inner.memory_buckets[id] IN
         /\ i \div BucketSize \in Nat
         /\ i \div BucketSize + 1 \in 1..Len(B)
         /\ i % BucketSize \in 0..(BucketSize - 1)
         /\ RealPage(B, i) = 1 + BucketSize * B[i \div BucketSize + 1] + (i % BucketSize)
         /\ RealPage(B, i) \in DOMAIN memory
<1> DEFINE B == inner.memory_buckets[id]
           q == i \div BucketSize
           r == i % BucketSize
           b == B[q + 1]
           a == inner.allocated_buckets
<1>1. q \in Nat /\ r \in 0..(BucketSize - 1)
  BY DivMod
<1>2. Len(B) \in Nat
  BY Lists
<1>3. q + 1 \in 1..Len(B)
  BY <1>2, InBuckets
<1>4. b \in Nat /\ b < a /\ a \in Nat
  BY <1>3, Lists, SizeAssumption
<1>5. RealPage(B, i) = 1 + BucketSize * b + r
  BY DEF RealPage, bucket_address
<1> HIDE DEF q, r, b, a
<1>6. BucketSize * b \in Nat /\ BucketSize * b + BucketSize =< BucketSize * a /\ BucketSize * a \in Nat
  BY <1>4, Products
<1>7. 1 + BucketSize * b + r \in 1..(BucketSize * a)
  BY <1>1, <1>6, SizeAssumption
<1>8. DOMAIN memory = 1..(BucketSize * a)
  BY DEF Inv, TypeOK, a
<1>9. RealPage(B, i) \in DOMAIN memory
  BY <1>5, <1>7, <1>8
<1> QED
  BY <1>1, <1>3, <1>5, <1>9 DEF q, r, b

(* No two pages of the virtual memories share a page of the stable memory. *)
LEMMA PagesApart ==
  ASSUME Inv, NEW id \in MemoryId, NEW id2 \in MemoryId, NEW i \in Nat, NEW i2 \in Nat,
         i < BucketSize * Len(inner.memory_buckets[id]),
         i2 < BucketSize * Len(inner.memory_buckets[id2]),
         RealPage(inner.memory_buckets[id], i) = RealPage(inner.memory_buckets[id2], i2)
  PROVE  id = id2 /\ i = i2
<1> DEFINE q == i \div BucketSize
           r == i % BucketSize
           q2 == i2 \div BucketSize
           r2 == i2 % BucketSize
           b == inner.memory_buckets[id][q + 1]
           b2 == inner.memory_buckets[id2][q2 + 1]
<1>1. /\ q \in Nat /\ r \in 0..(BucketSize - 1) /\ q + 1 \in 1..Len(inner.memory_buckets[id])
      /\ RealPage(inner.memory_buckets[id], i) = 1 + BucketSize * b + r
  BY PlaceOf
<1>2. /\ q2 \in Nat /\ r2 \in 0..(BucketSize - 1) /\ q2 + 1 \in 1..Len(inner.memory_buckets[id2])
      /\ RealPage(inner.memory_buckets[id2], i2) = 1 + BucketSize * b2 + r2
  BY PlaceOf
<1>3. /\ b \in Nat /\ owner[b] = id
      /\ \A m, n \in 1..Len(inner.memory_buckets[id]) :
           m < n => inner.memory_buckets[id][m] < inner.memory_buckets[id][n]
      /\ \A n \in 1..Len(inner.memory_buckets[id]) : inner.memory_buckets[id][n] \in Nat
  BY <1>1, Lists
<1>4. b2 \in Nat /\ owner[b2] = id2
  BY <1>2, Lists
<1>5. i = BucketSize * q + r /\ i2 = BucketSize * q2 + r2
  BY DivMod
<1> HIDE DEF q, r, q2, r2
<1>6. BucketSize * b + r = BucketSize * b2 + r2
  <2>1. BucketSize * b \in Nat /\ BucketSize * b2 \in Nat
    BY <1>3, <1>4, Products
  <2>2. 1 + BucketSize * b + r = 1 + BucketSize * b2 + r2
    BY <1>1, <1>2, Zenon
  <2>3. r \in Nat /\ r2 \in Nat
    BY <1>1, <1>2, SizeAssumption
  <2> HIDE DEF b, b2
  <2>4. PICK x : x = BucketSize * b
    BY Zenon
  <2>5. PICK y : y = BucketSize * b2
    BY Zenon
  <2>6. x \in Nat /\ y \in Nat
    BY <2>1, <2>4, <2>5, Zenon
  <2>7. 1 + x + r = 1 + y + r2
    BY <2>2, <2>4, <2>5, Zenon
  <2>8. x + r = y + r2
    BY <2>3, <2>6, <2>7
  <2> QED
    BY <2>4, <2>5, <2>8, Zenon
<1>7. b = b2 /\ r = r2
  <2> HIDE DEF b, b2
  <2> QED
    BY <1>1, <1>2, <1>3, <1>4, <1>6, OnePlace
<1>8. id = id2
  BY <1>3, <1>4, <1>7
<1>9. q = q2
  <2>1. /\ q + 1 \in 1..Len(inner.memory_buckets[id]) /\ q2 + 1 \in 1..Len(inner.memory_buckets[id])
        /\ inner.memory_buckets[id][q + 1] = inner.memory_buckets[id][q2 + 1]
    BY <1>1, <1>2, <1>7, <1>8
  <2> DEFINE B == inner.memory_buckets[id]
             m == q + 1
             n == q2 + 1
  <2>2. /\ m \in 1..Len(B) /\ n \in 1..Len(B) /\ B[m] = B[n] /\ B[m] \in Nat
        /\ m < n => B[m] < B[n]
        /\ n < m => B[n] < B[m]
    BY <1>3, <2>1
  <2>3. ~(q + 1 < q2 + 1) /\ ~(q2 + 1 < q + 1)
    <3> HIDE DEF B
    <3> QED
      BY <2>2
  <2> QED
    BY <1>1, <1>2, <2>3
<1> QED
  BY <1>5, <1>7, <1>8, <1>9

(* What a memory has grown to has buckets, and is a Page. *)
LEMMA GrownTo ==
  ASSUME Inv, NEW id \in MemoryId
  PROVE  /\ inner.sizes[id] =< BucketSize * Len(inner.memory_buckets[id])
         /\ BucketSize * Len(inner.memory_buckets[id]) \in Nat
         /\ BucketSize * Len(inner.memory_buckets[id]) =< BucketSize * MaxNumBuckets
         /\ \A i \in Nat : i < BucketSize * Len(inner.memory_buckets[id]) => i \in Page
<1> DEFINE n == Len(inner.memory_buckets[id])
<1>1. /\ n \in Nat /\ n =< MaxNumBuckets /\ inner.sizes[id] \in Nat
      /\ n = num_buckets_needed(inner.sizes[id])
  <2>1. /\ n \in Nat /\ n =< inner.allocated_buckets /\ inner.sizes[id] \in Nat
        /\ n = num_buckets_needed(inner.sizes[id])
        /\ inner.allocated_buckets \in 0..MaxNumBuckets
    BY Lists
  <2> QED
    BY <2>1, SizeAssumption
<1>2. inner.sizes[id] =< BucketSize * n
  BY <1>1, Needed
<1> HIDE DEF n
<1>3. /\ BucketSize * n \in Nat /\ BucketSize * n =< BucketSize * MaxNumBuckets
      /\ BucketSize * MaxNumBuckets \in Nat
  BY <1>1, Products, SizeAssumption
<1>4. \A i \in Nat : i < BucketSize * n => i \in Page
  BY <1>3 DEF Page
<1> QED
  BY <1>2, <1>3, <1>4 DEF n

-------------------------------------------------------------------------------
(* Reading and writing. *)

(* With the cache or without it, a segment is found where the list of its  *)
(* memory says.                                                            *)
LEMMA LocatedIs ==
  ASSUME Inv, NEW id \in MemoryId, NEW offset \in Nat, NEW len \in Nat, NEW j \in 1..len
  PROVE  /\ Located(id, offset, len)[j] = RealPage(inner.memory_buckets[id], offset + j - 1)
         /\ DOMAIN Located(id, offset, len) = 1..len
<1> DEFINE B == inner.memory_buckets[id]
           a == offset + j - 1
           idx == cache[id].idx
           r == a - BucketSize * idx
<1>1. a \in Nat /\ a >= offset /\ a < offset + len
  OBVIOUS
<1>2. CASE ~CacheHit(id, offset, len)
  BY <1>2 DEF Located
<1>3. CASE CacheHit(id, offset, len)
  <2>1. /\ cache[id] # NoBucket
        /\ idx * BucketSize =< offset
        /\ offset + len =< (idx + 1) * BucketSize
    BY <1>3 DEF CacheHit
  <2>2. idx \in Nat /\ cache[id].real = 1 + BucketSize * B[idx + 1]
    <3>1. idx \in Nat
      BY <2>1 DEF Inv, TypeOK
    <3>2. cache[id].real = bucket_address(B[idx + 1])
      BY <2>1 DEF Inv, CacheCoherent
    <3> QED
      BY <3>1, <3>2 DEF bucket_address
  <2>3. Located(id, offset, len)[j] = cache[id].real + (offset + j - 1 - cache[id].idx * BucketSize)
    BY <1>3 DEF Located
  <2>4. idx + 1 \in 1..Len(B) /\ B[idx + 1] \in Nat
    <3>1. idx + 1 \in DOMAIN B
      BY <2>1 DEF Inv, CacheCoherent
    <3> QED
      BY <3>1, Lists
  <2> DEFINE P == BucketSize * B[idx + 1]
             x == BucketSize * idx
  <2>5. /\ idx * BucketSize = x
        /\ (idx + 1) * BucketSize = x + BucketSize
        /\ x \in Nat /\ P \in Nat
    <3> HIDE DEF idx, B
    <3>1. x \in Nat /\ P \in Nat
      BY <2>2, <2>4, Products
    <3>2. idx * BucketSize = x /\ (idx + 1) * BucketSize = x + BucketSize
      BY <2>2, SizeAssumption
    <3> QED
      BY <3>1, <3>2
  <2>6. a = x + r /\ r \in 0..(BucketSize - 1)
    <3>1. x =< offset /\ offset + len =< x + BucketSize
      BY <2>1, <2>5
    <3>2. x \in Nat
      BY <2>5
    <3> HIDE DEF x
    <3>3. r = a - x
      BY DEF x
    <3> HIDE DEF a, r
    <3> QED
      BY <1>1, <3>1, <3>2, <3>3, SizeAssumption
  <2>7. a \div BucketSize = idx /\ a % BucketSize = r
    <3>1. /\ a \div BucketSize \in Nat /\ a % BucketSize \in 0..(BucketSize - 1)
          /\ a = BucketSize * (a \div BucketSize) + (a % BucketSize)
      BY <1>1, DivMod
    <3>2. BucketSize * (a \div BucketSize) + (a % BucketSize) = BucketSize * idx + r
      BY <2>6, <3>1
    <3> HIDE DEF a, r, idx
    <3> QED
      BY <2>2, <2>6, <3>1, <3>2, OnePlace
  <2>8. RealPage(B, a) = 1 + P + r
    BY <2>7 DEF RealPage, bucket_address
  <2>9. Located(id, offset, len)[j] = 1 + P + r
    <3>1. Located(id, offset, len)[j] = 1 + P + (a - x)
      BY <2>2, <2>3, <2>5
    <3> QED
      BY <3>1
  <2>10. DOMAIN Located(id, offset, len) = 1..len
    BY DEF Located
  <2> QED
    BY <2>8, <2>9, <2>10
<1> QED
  BY <1>2, <1>3

(* The pages of a segment are allocated. *)
LEMMA SegmentInBuckets ==
  ASSUME Inv, NEW id \in MemoryId, NEW offset \in Nat, NEW len \in Nat,
         offset + len =< inner.sizes[id], NEW j \in 1..len
  PROVE  /\ offset + j - 1 \in Nat
         /\ offset + j - 1 < inner.sizes[id]
         /\ offset + j - 1 < BucketSize * Len(inner.memory_buckets[id])
<1>1. inner.sizes[id] \in Nat
  BY Lists
<1>2. /\ inner.sizes[id] =< BucketSize * Len(inner.memory_buckets[id])
      /\ BucketSize * Len(inner.memory_buckets[id]) \in Nat
  BY GrownTo
<1> QED
  BY <1>1, <1>2

(* The cache after a segment was read or written. *)
LEMMA TouchKeeps ==
  ASSUME Inv, NEW id \in MemoryId, NEW offset \in Nat, NEW len \in Nat \ {0},
         offset + len =< inner.sizes[id], Touch(id, offset, len), inner' = inner
  PROVE  /\ cache' \in [MemoryId -> {NoBucket} \cup [idx : Nat, real : Nat]]
         /\ CacheCoherent'
<1>0. cache \in [MemoryId -> {NoBucket} \cup [idx : Nat, real : Nat]]
  BY DEF Inv, TypeOK
<1>1. CASE CacheHit(id, offset, len)
  <2>1. cache' = cache
    BY <1>1 DEF Touch
  <2> QED
    BY <1>0, <2>1 DEF Inv, CacheCoherent
<1>2. CASE ~CacheHit(id, offset, len)
  <2> DEFINE q == (offset + len - 1) \div BucketSize
             B == inner.memory_buckets[id]
             c == [idx |-> q, real |-> bucket_address(B[q + 1])]
  <2>1. cache' = [cache EXCEPT ![id] = c]
    BY <1>2 DEF Touch
  <2>2. q \in Nat /\ q + 1 \in 1..Len(B)
    <3>1. len \in 1..len /\ len \in Nat
      OBVIOUS
    <3>2. offset + len - 1 \in Nat /\ offset + len - 1 < BucketSize * Len(B)
      BY <3>1, SegmentInBuckets
    <3> QED
      BY <3>2, PlaceOf
  <2>3. DOMAIN B = 1..Len(B) /\ B[q + 1] \in Nat
    BY <2>2, Lists
  <2>4. c \in [idx : Nat, real : Nat] /\ c.idx = q /\ c.real = bucket_address(B[q + 1])
    <3> HIDE DEF q, B
    <3>1. bucket_address(B[q + 1]) \in Nat
      <4>1. BucketSize * B[q + 1] \in Nat
        BY <2>3, Products
      <4> QED
        BY <4>1 DEF bucket_address
    <3> QED
      BY <2>2, <3>1
  <2>5. cache' \in [MemoryId -> {NoBucket} \cup [idx : Nat, real : Nat]]
    <3> HIDE DEF c
    <3> QED
      BY <1>0, <2>1, <2>4
  <2>6. ASSUME NEW k \in MemoryId, cache'[k] # NoBucket
        PROVE  /\ cache'[k].idx + 1 \in DOMAIN inner.memory_buckets[k]
               /\ cache'[k].real = bucket_address(inner.memory_buckets[k][cache'[k].idx + 1])
    <3>1. CASE k = id
      <4>1. cache'[k] = c
        BY <1>0, <2>1, <3>1
      <4> QED
        BY <2>2, <2>3, <2>4, <3>1, <4>1
    <3>2. CASE k # id
      <4>1. cache'[k] = cache[k]
        BY <1>0, <2>1, <3>2
      <4> QED
        BY <2>6, <4>1 DEF Inv, CacheCoherent
    <3> QED
      BY <3>1, <3>2
  <2> QED
    BY <2>5, <2>6 DEF CacheCoherent
<1> QED
  BY <1>1, <1>2

LEMMA ReadKeeps ==
  ASSUME Inv, NEW id \in MemoryId, NEW offset \in Page, NEW len \in 1..MaxLen,
         offset + len =< inner.sizes[id], Read(id, offset, len)
  PROVE  Inv'
<1>1. UNCHANGED <<header, owner, memory, inner>> /\ Touch(id, offset, len)
  BY DEF Read
<1>2. offset \in Nat /\ len \in Nat \ {0}
  BY BoundAssumption DEF Page
<1>3. /\ cache' \in [MemoryId -> {NoBucket} \cup [idx : Nat, real : Nat]]
      /\ CacheCoherent'
  BY <1>1, <1>2, TouchKeeps
<1>4. TypeOK'
  BY <1>1, <1>3 DEF Inv, TypeOK
<1>5. BucketsOwned' /\ SparePagesZero' /\ ListsBounded'
  BY <1>1 DEF Inv, BucketsOwned, SparePagesZero, ListsBounded
<1> QED
  BY <1>3, <1>4, <1>5 DEF Inv

(* A write changes the pages it names and no other page of any memory. *)
WritesOnly(id, offset, len, src) ==
  /\ DOMAIN memory' = DOMAIN memory
  /\ \A p \in DOMAIN memory : memory'[p] \in Value
  /\ \A k \in MemoryId : \A i \in Nat :
       i < BucketSize * Len(inner.memory_buckets[k]) =>
         memory'[RealPage(inner.memory_buckets[k], i)] =
           IF k = id /\ i \in offset..(offset + len - 1)
           THEN src[i - offset + 1]
           ELSE memory[RealPage(inner.memory_buckets[k], i)]

LEMMA WriteIs ==
  ASSUME Inv, NEW id \in MemoryId, NEW offset \in Nat, NEW len \in Nat,
         offset + len =< inner.sizes[id], NEW src \in [1..len -> Value],
         Write(id, offset, len, src)
  PROVE  WritesOnly(id, offset, len, src)
<1> DEFINE at == Located(id, offset, len)
           B(k) == inner.memory_buckets[k]
<1>1. memory' = [p \in DOMAIN memory |->
                   IF \E j \in 1..len : at[j] = p
                   THEN src[CHOOSE j \in 1..len : at[j] = p]
                   ELSE memory[p]]
  BY DEF Write
<1>2. \A j \in 1..len : at[j] = RealPage(B(id), offset + j - 1)
  BY LocatedIs
<1> HIDE DEF at
<1>3. \A p \in DOMAIN memory : memory[p] \in Value
  BY DEF Inv, TypeOK
<1>4. ASSUME NEW p \in DOMAIN memory
      PROVE  memory'[p] \in Value
  <2>1. CASE \E j \in 1..len : at[j] = p
    <3>1. (CHOOSE j \in 1..len : at[j] = p) \in 1..len
      BY <2>1
    <3> QED
      BY <1>1, <2>1, <3>1
  <2>2. CASE ~\E j \in 1..len : at[j] = p
    BY <1>1, <1>3, <2>2
  <2> QED
    BY <2>1, <2>2
<1>5. ASSUME NEW k \in MemoryId, NEW i \in Nat, i < BucketSize * Len(B(k))
      PROVE  memory'[RealPage(B(k), i)] =
               IF k = id /\ i \in offset..(offset + len - 1)
               THEN src[i - offset + 1] ELSE memory[RealPage(B(k), i)]
  <2> DEFINE p == RealPage(B(k), i)
  <2>1. p \in DOMAIN memory
    BY <1>5, PlaceOf
  <2>2. ASSUME NEW j \in 1..len, at[j] = p
        PROVE  k = id /\ i = offset + j - 1
    <3>1. /\ offset + j - 1 \in Nat
          /\ offset + j - 1 < BucketSize * Len(inner.memory_buckets[id])
      BY SegmentInBuckets
    <3>2. RealPage(inner.memory_buckets[id], offset + j - 1) = RealPage(inner.memory_buckets[k], i)
      BY <1>2, <2>2
    <3> QED
      BY <1>5, <3>1, <3>2, PagesApart
  <2>3. CASE k = id /\ i \in offset..(offset + len - 1)
    <3> DEFINE n == i - offset + 1
               c == CHOOSE j \in 1..len : at[j] = p
    <3>1. n \in 1..len /\ i = offset + n - 1
      BY <2>3
    <3>2. at[n] = p
      BY <1>2, <2>3, <3>1
    <3>3. c \in 1..len /\ at[c] = p
      BY <3>1, <3>2
    <3>4. i = offset + c - 1
      <4> HIDE DEF c, p
      <4> QED
        BY <2>2, <3>3
    <3>5. c = n
      <4> HIDE DEF c
      <4> QED
        BY <3>3, <3>4
    <3>6. memory'[p] = src[c]
      BY <1>1, <2>1, <3>1, <3>2
    <3> QED
      BY <2>3, <3>5, <3>6
  <2>4. CASE ~(k = id /\ i \in offset..(offset + len - 1))
    <3>1. ~\E j \in 1..len : at[j] = p
      <4>1. SUFFICES ASSUME NEW j \in 1..len, at[j] = p PROVE FALSE
        OBVIOUS
      <4>2. k = id /\ i = offset + j - 1
        BY <2>2, <4>1
      <4> QED
        BY <2>4, <4>2
    <3>2. memory'[p] = memory[p]
      BY <1>1, <2>1, <3>1
    <3> QED
      BY <2>4, <3>2
  <2> QED
    BY <2>3, <2>4
<1>6. DOMAIN memory' = DOMAIN memory
  BY <1>1
<1> QED
  BY <1>4, <1>5, <1>6 DEF WritesOnly

LEMMA WriteKeeps ==
  ASSUME Inv, NEW id \in MemoryId, NEW offset \in Page, NEW len \in 1..MaxLen,
         offset + len =< inner.sizes[id], NEW src \in [1..len -> Value],
         Write(id, offset, len, src)
  PROVE  Inv'
<1>1. UNCHANGED <<header, owner, inner>> /\ Touch(id, offset, len)
  BY DEF Write
<1>2. offset \in Nat /\ len \in Nat /\ len \in Nat \ {0}
  BY BoundAssumption DEF Page
<1>3. /\ cache' \in [MemoryId -> {NoBucket} \cup [idx : Nat, real : Nat]]
      /\ CacheCoherent'
  BY <1>1, <1>2, TouchKeeps
<1>4. WritesOnly(id, offset, len, src)
  BY <1>2, WriteIs
<1>5. TypeOK'
  BY <1>1, <1>3, <1>4 DEF Inv, TypeOK, WritesOnly
<1>6. BucketsOwned' /\ ListsBounded'
  BY <1>1 DEF Inv, BucketsOwned, ListsBounded
<1>7. SparePagesZero'
  <2>1. SUFFICES ASSUME NEW k \in MemoryId,
                        NEW i \in inner.sizes[k]..(BucketSize * Len(inner.memory_buckets[k]) - 1)
                 PROVE  memory'[RealPage(inner.memory_buckets[k], i)] = Zero
    BY <1>1 DEF SparePagesZero
  <2>2. /\ inner.sizes[k] \in Nat /\ inner.sizes[id] \in Nat
        /\ BucketSize * Len(inner.memory_buckets[k]) \in Nat
    BY Lists, GrownTo
  <2>3. i \in Nat /\ i < BucketSize * Len(inner.memory_buckets[k]) /\ i >= inner.sizes[k]
    BY <2>2
  <2>4. ~(k = id /\ i \in offset..(offset + len - 1))
    BY <1>2, <2>2, <2>3
  <2>5. memory[RealPage(inner.memory_buckets[k], i)] = Zero
    BY DEF Inv, SparePagesZero
  <2> QED
    BY <1>4, <2>3, <2>4, <2>5 DEF WritesOnly
<1> QED
  BY <1>3, <1>5, <1>6, <1>7 DEF Inv

-------------------------------------------------------------------------------
(* Growing. *)

(* The number of buckets that growing by this many pages adds. *)
Added(id, pages) ==
  num_buckets_needed(inner.sizes[id] + pages) - num_buckets_needed(inner.sizes[id])

(* The lists after a grow: that of the memory gets the next free buckets,  *)
(* the others stay.                                                        *)
LEMMA GrowLists ==
  ASSUME Inv, NEW id \in MemoryId, NEW pages \in Nat, Grow(id, pages), ~Refused(id, pages)
  PROVE  /\ Added(id, pages) \in Nat
         /\ inner.allocated_buckets \in Nat
         /\ inner'.allocated_buckets = inner.allocated_buckets + Added(id, pages)
         /\ inner'.allocated_buckets \in 0..MaxNumBuckets
         /\ inner'.sizes = [inner.sizes EXCEPT ![id] = @ + pages]
         /\ inner'.memory_buckets \in [MemoryId -> Seq(Bucket)]
         /\ \A k \in MemoryId : k # id => inner'.memory_buckets[k] = inner.memory_buckets[k]
         /\ Len(inner'.memory_buckets[id]) = Len(inner.memory_buckets[id]) + Added(id, pages)
         /\ \A n \in 1..Len(inner.memory_buckets[id]) :
              inner'.memory_buckets[id][n] = inner.memory_buckets[id][n]
         /\ \A n \in 1..Added(id, pages) :
              inner'.memory_buckets[id][Len(inner.memory_buckets[id]) + n]
                = inner.allocated_buckets + n - 1
         /\ inner' = [allocated_buckets |-> inner'.allocated_buckets,
                      sizes |-> inner'.sizes, memory_buckets |-> inner'.memory_buckets]
<1> DEFINE B == inner.memory_buckets[id]
           first == inner.allocated_buckets
           nb == Added(id, pages)
           new == [n \in 1..nb |-> first + n - 1]
<1>1. inner' = [allocated_buckets |-> first + nb,
                sizes |-> [inner.sizes EXCEPT ![id] = inner.sizes[id] + pages],
                memory_buckets |-> [inner.memory_buckets EXCEPT ![id] = B \o new]]
  BY DEF Grow, Added
<1>2. /\ B \in Seq(Bucket) /\ Len(B) \in Nat /\ inner.sizes[id] \in Nat
      /\ first \in 0..MaxNumBuckets /\ Len(B) = num_buckets_needed(inner.sizes[id])
  BY Lists
<1>3. nb \in Nat
  <2>1. inner.sizes[id] + pages \in Nat
    BY <1>2
  <2>2. /\ num_buckets_needed(inner.sizes[id] + pages) \in Nat
        /\ num_buckets_needed(inner.sizes[id]) \in Nat
    BY <1>2, <2>1, Needed
  <2>3. num_buckets_needed(inner.sizes[id]) =< num_buckets_needed(inner.sizes[id] + pages)
    BY <1>2, NeededGrows
  <2> QED
    BY <2>2, <2>3 DEF Added
<1>4. first \in Nat /\ first + nb \in 0..MaxNumBuckets
  <2>1. ~(nb + first > MaxNumBuckets)
    BY DEF Refused, Added
  <2> QED
    BY <1>2, <1>3, <2>1, SizeAssumption
<1> HIDE DEF nb
<1>5. new \in Seq(Bucket) /\ Len(new) = nb /\ \A n \in 1..nb : new[n] = first + n - 1
  <2>1. \A n \in 1..nb : first + n - 1 \in Bucket
    BY <1>3, <1>4, SizeAssumption DEF Bucket
  <2> QED
    BY <1>3, <2>1
<1> HIDE DEF new, first
<1>6. /\ B \o new \in Seq(Bucket)
      /\ Len(B \o new) = Len(B) + nb
      /\ \A n \in 1..Len(B) : (B \o new)[n] = B[n]
      /\ \A n \in 1..nb : (B \o new)[Len(B) + n] = new[n]
  <2> HIDE DEF B
  <2>1. new \in Seq(Bucket) /\ Len(new) = nb
    BY <1>5
  <2> HIDE DEF new
  <2>2. /\ B \o new \in Seq(Bucket)
        /\ Len(B \o new) = Len(B) + Len(new)
        /\ \A i \in 1..(Len(B) + Len(new)) :
             (B \o new)[i] = IF i =< Len(B) THEN B[i] ELSE new[i - Len(B)]
    BY <1>2, <2>1, ConcatProperties, Zenon
  <2>3. ASSUME NEW n \in 1..Len(B)
        PROVE  (B \o new)[n] = B[n]
    BY <1>2, <1>3, <2>1, <2>2
  <2>4. ASSUME NEW n \in 1..nb
        PROVE  (B \o new)[Len(B) + n] = new[n]
    <3>1. Len(B) + n \in 1..(Len(B) + Len(new)) /\ ~(Len(B) + n =< Len(B)) /\ (Len(B) + n) - Len(B) = n
      BY <1>2, <1>3, <2>1
    <3> QED
      BY <2>2, <3>1
  <2> QED
    BY <2>1, <2>2, <2>3, <2>4
<1>7. inner.memory_buckets \in [MemoryId -> Seq(Bucket)]
  BY DEF Inv, TypeOK
<1>8. /\ inner'.memory_buckets[id] = B \o new
      /\ inner'.memory_buckets \in [MemoryId -> Seq(Bucket)]
      /\ \A k \in MemoryId : k # id => inner'.memory_buckets[k] = inner.memory_buckets[k]
  BY <1>1, <1>6, <1>7
<1>9. /\ inner'.allocated_buckets = first + nb
      /\ inner'.sizes = [inner.sizes EXCEPT ![id] = inner.sizes[id] + pages]
      /\ inner' = [allocated_buckets |-> inner'.allocated_buckets,
                   sizes |-> inner'.sizes, memory_buckets |-> inner'.memory_buckets]
  BY <1>1
<1>10. \A n \in 1..nb : inner'.memory_buckets[id][Len(B) + n] = first + n - 1
  BY <1>5, <1>6, <1>8
<1> QED
  BY <1>3, <1>4, <1>6, <1>8, <1>9, <1>10 DEF nb, first

(* The pages of a memory after a grow: the old ones are where they were,   *)
(* and those in new buckets are zero.                                      *)
LEMMA GrowPages ==
  ASSUME Inv, NEW id \in MemoryId, NEW pages \in Nat, Grow(id, pages), ~Refused(id, pages)
  PROVE  /\ DOMAIN memory' = 1..(BucketSize * inner'.allocated_buckets)
         /\ \A p \in DOMAIN memory' : memory'[p] \in Value
         /\ \A k \in MemoryId : \A i \in Nat :
              i < BucketSize * Len(inner'.memory_buckets[k]) =>
                memory'[RealPage(inner'.memory_buckets[k], i)] =
                  IF i < BucketSize * Len(inner.memory_buckets[k])
                  THEN memory[RealPage(inner.memory_buckets[k], i)] ELSE Zero
<1> DEFINE a == inner.allocated_buckets
           nb == Added(id, pages)
<1>1. /\ nb \in Nat /\ a \in Nat
      /\ inner'.allocated_buckets = a + nb
      /\ \A k \in MemoryId : k # id => inner'.memory_buckets[k] = inner.memory_buckets[k]
      /\ Len(inner'.memory_buckets[id]) = Len(inner.memory_buckets[id]) + nb
      /\ \A n \in 1..Len(inner.memory_buckets[id]) :
           inner'.memory_buckets[id][n] = inner.memory_buckets[id][n]
      /\ \A n \in 1..nb :
           inner'.memory_buckets[id][Len(inner.memory_buckets[id]) + n] = a + n - 1
  BY GrowLists
<1>2. memory' = [p \in DOMAIN memory \cup 1..(pages_needed(a + nb) - 1) |->
                   IF p \in DOMAIN memory THEN memory[p] ELSE Zero]
  BY DEF Grow, Added
<1> HIDE DEF a, nb
<1>3. DOMAIN memory = 1..(BucketSize * a) /\ \A p \in DOMAIN memory : memory[p] \in Value
  BY DEF Inv, TypeOK, a
<1>4. /\ BucketSize * a \in Nat /\ BucketSize * (a + nb) \in Nat
      /\ BucketSize * a =< BucketSize * (a + nb)
  <2>1. a + nb \in Nat /\ a =< a + nb
    BY <1>1
  <2> QED
    BY <1>1, <2>1, Products
<1>5. DOMAIN memory \cup 1..(pages_needed(a + nb) - 1) = 1..(BucketSize * (a + nb))
  <2>1. pages_needed(a + nb) - 1 = BucketSize * (a + nb)
    BY <1>4 DEF pages_needed
  <2> QED
    BY <1>3, <1>4, <2>1
<1>6. memory' = [p \in 1..(BucketSize * (a + nb)) |->
                   IF p \in DOMAIN memory THEN memory[p] ELSE Zero]
  BY <1>2, <1>5
<1>7. \A p \in DOMAIN memory' : memory'[p] \in Value
  BY <1>3, <1>6, ValueAssumption
<1>8. ASSUME NEW k \in MemoryId, NEW i \in Nat, i < BucketSize * Len(inner.memory_buckets[k])
      PROVE  memory'[RealPage(inner'.memory_buckets[k], i)]
               = memory[RealPage(inner.memory_buckets[k], i)]
  <2>1. /\ i \div BucketSize + 1 \in 1..Len(inner.memory_buckets[k])
        /\ RealPage(inner.memory_buckets[k], i) \in DOMAIN memory
    BY <1>8, PlaceOf
  <2>2. inner'.memory_buckets[k][i \div BucketSize + 1]
          = inner.memory_buckets[k][i \div BucketSize + 1]
    BY <1>1, <2>1
  <2>3. RealPage(inner'.memory_buckets[k], i) = RealPage(inner.memory_buckets[k], i)
    BY <2>2 DEF RealPage
  <2>4. RealPage(inner.memory_buckets[k], i) \in 1..(BucketSize * (a + nb))
    BY <1>3, <1>4, <2>1
  <2> QED
    BY <1>6, <2>1, <2>3, <2>4
<1>9. ASSUME NEW k \in MemoryId, NEW i \in Nat,
             i < BucketSize * Len(inner'.memory_buckets[k]),
             ~(i < BucketSize * Len(inner.memory_buckets[k]))
      PROVE  memory'[RealPage(inner'.memory_buckets[k], i)] = Zero
  <2> DEFINE q == i \div BucketSize
             r == i % BucketSize
             L == Len(inner.memory_buckets[id])
             b == inner'.memory_buckets[id][q + 1]
  <2>1. k = id
    BY <1>1, <1>9
  <2>2. L \in Nat /\ L + nb \in Nat /\ Len(inner'.memory_buckets[id]) = L + nb
    BY <1>1, Lists
  <2> HIDE DEF L
  <2>3. q + 1 \in 1..(L + nb) /\ q + 1 \notin 1..L
    BY <1>9, <2>1, <2>2, InBuckets DEF L
  <2>4. q \in Nat /\ r \in 0..(BucketSize - 1)
    BY DivMod
  <2>5. RealPage(inner'.memory_buckets[k], i) = 1 + BucketSize * b + r
    BY <2>1 DEF RealPage, bucket_address
  <2> HIDE DEF q, r
  <2>6. b = a + (q + 1 - L) - 1 /\ q + 1 - L \in 1..nb
    <3>1. q + 1 - L \in 1..nb /\ L + (q + 1 - L) = q + 1
      BY <1>1, <2>2, <2>3, <2>4
    <3> QED
      BY <1>1, <3>1 DEF L
  <2>7. b \in Nat /\ a =< b /\ b < a + nb
    <3> HIDE DEF b
    <3> QED
      BY <1>1, <2>2, <2>4, <2>6
  <2> HIDE DEF b
  <2>8. /\ BucketSize * b \in Nat /\ BucketSize * a =< BucketSize * b
        /\ BucketSize * b + BucketSize =< BucketSize * (a + nb)
    <3>1. a + nb \in Nat
      BY <1>1
    <3> QED
      BY <1>1, <2>7, <3>1, Products
  <2>9. /\ 1 + BucketSize * b + r \notin 1..(BucketSize * a)
        /\ 1 + BucketSize * b + r \in 1..(BucketSize * (a + nb))
    BY <1>4, <2>4, <2>8, SizeAssumption
  <2> QED
    BY <1>3, <1>6, <2>5, <2>9
<1>10. DOMAIN memory' = 1..(BucketSize * inner'.allocated_buckets)
  BY <1>1, <1>6
<1> QED
  BY <1>7, <1>8, <1>9, <1>10

(* The owners after a grow, and the lists that go with them. *)
LEMMA GrowOwners ==
  ASSUME Inv, NEW id \in MemoryId, NEW pages \in Nat, Grow(id, pages), ~Refused(id, pages)
  PROVE  /\ owner' \in [Bucket -> MemoryId \cup {UNALLOCATED}]
         /\ \A b \in Bucket : owner'[b] = UNALLOCATED <=> b >= inner'.allocated_buckets
         /\ \A k \in MemoryId :
              Ascending(inner'.memory_buckets[k], {b \in Bucket : owner'[b] = k})
<1> DEFINE a == inner.allocated_buckets
           nb == Added(id, pages)
           B == inner.memory_buckets[id]
           C == inner'.memory_buckets[id]
<1>1. /\ nb \in Nat /\ a \in Nat /\ inner'.allocated_buckets = a + nb
      /\ a + nb =< MaxNumBuckets
      /\ \A k \in MemoryId : k # id => inner'.memory_buckets[k] = inner.memory_buckets[k]
      /\ C \in Seq(Bucket) /\ Len(C) = Len(B) + nb
      /\ \A n \in 1..Len(B) : C[n] = B[n]
      /\ \A n \in 1..nb : C[Len(B) + n] = a + n - 1
  <2>1. a + nb \in 0..MaxNumBuckets /\ nb \in Nat /\ a \in Nat
    BY GrowLists
  <2>2. a + nb =< MaxNumBuckets
    BY <2>1, SizeAssumption
  <2> QED
    BY <2>1, <2>2, GrowLists
<1>2. owner' = [b \in Bucket |-> IF a =< b /\ b < a + nb THEN id ELSE owner[b]]
  BY DEF Grow, Added
<1>3. /\ owner \in [Bucket -> MemoryId \cup {UNALLOCATED}]
      /\ \A b \in Bucket : owner[b] = UNALLOCATED <=> b >= a
  BY DEF Inv, TypeOK, BucketsOwned
<1>4. \A b \in Bucket : b \in Nat /\ b < MaxNumBuckets
  BY SizeAssumption DEF Bucket
<1>5. /\ Len(B) \in Nat
      /\ \A n \in 1..Len(B) : B[n] \in Bucket /\ B[n] \in Nat /\ B[n] < a /\ owner[B[n]] = id
      /\ \A m, n \in 1..Len(B) : m < n => B[m] < B[n]
  BY Lists
<1>6. \A k \in MemoryId : Ascending(inner.memory_buckets[k], {b \in Bucket : owner[b] = k})
  BY DEF Inv, BucketsOwned
<1>nat. a \in Nat /\ nb \in Nat /\ Len(B) \in Nat
  BY <1>1, <1>5
<1> HIDE DEF a, nb
<1>7. owner' \in [Bucket -> MemoryId \cup {UNALLOCATED}]
  BY <1>2, <1>3
<1>8. ASSUME NEW b \in Bucket
      PROVE  owner'[b] = UNALLOCATED <=> b >= a + nb
  <2>1. CASE a =< b /\ b < a + nb
    BY <1>1, <1>2, <1>4, <2>1, IdAssumption
  <2>2. CASE ~(a =< b /\ b < a + nb)
    <3>1. owner'[b] = owner[b]
      BY <1>2, <2>2
    <3> QED
      BY <1>1, <1>3, <1>4, <2>2, <3>1
  <2> QED
    BY <2>1, <2>2
<1>9. ASSUME NEW k \in MemoryId, k # id
      PROVE  Ascending(inner'.memory_buckets[k], {b \in Bucket : owner'[b] = k})
  <2>1. ASSUME NEW b \in Bucket
        PROVE  owner'[b] = k <=> owner[b] = k
    <3>1. CASE a =< b /\ b < a + nb
      <4>1. owner'[b] = id /\ owner[b] = UNALLOCATED
        BY <1>1, <1>2, <1>3, <1>4, <3>1
      <4> QED
        BY <1>9, <4>1, IdAssumption
    <3>2. CASE ~(a =< b /\ b < a + nb)
      BY <1>2, <3>2
    <3> QED
      BY <3>1, <3>2
  <2>2. {b \in Bucket : owner'[b] = k} = {b \in Bucket : owner[b] = k}
    BY <2>1
  <2> QED
    BY <1>1, <1>6, <1>9, <2>2
<1>10. Ascending(C, {b \in Bucket : owner'[b] = id})
  <2> HIDE DEF C
  <2>1. DOMAIN C = 1..(Len(B) + nb)
    BY <1>1
  <2>2. ASSUME NEW n \in 1..(Len(B) + nb)
        PROVE  \/ n \in 1..Len(B) /\ C[n] = B[n] /\ C[n] \in Nat /\ C[n] < a
               \/ n - Len(B) \in 1..nb /\ C[n] = a + (n - Len(B)) - 1
    <3>1. CASE n =< Len(B)
      <4>1. n \in 1..Len(B)
        BY <1>1, <1>5, <3>1
      <4> QED
        BY <1>1, <1>5, <4>1
    <3>2. CASE ~(n =< Len(B))
      <4>1. n - Len(B) \in 1..nb /\ Len(B) + (n - Len(B)) = n
        BY <1>1, <1>5, <3>2
      <4> QED
        BY <1>1, <4>1
    <3> QED
      BY <3>1, <3>2
  <2>3. ASSUME NEW m \in 1..(Len(B) + nb), NEW n \in 1..(Len(B) + nb), m < n
        PROVE  C[m] < C[n]
    <3>1. CASE n \in 1..Len(B)
      <4>1. m \in 1..Len(B)
        BY <1>1, <1>5, <2>3, <3>1
      <4>2. C[m] = B[m] /\ C[n] = B[n] /\ B[m] < B[n]
        BY <1>1, <1>5, <2>3, <3>1, <4>1
      <4> QED
        BY <4>2
    <3>2. CASE n \notin 1..Len(B)
      <4>1. n - Len(B) \in 1..nb /\ C[n] = a + (n - Len(B)) - 1
        BY <2>2, <3>2
      <4>2. CASE m \in 1..Len(B)
        <5>1. C[m] \in Nat /\ C[m] < a
          BY <1>1, <1>5, <4>2
        <5> HIDE DEF B
        <5> QED
          BY <1>nat, <4>1, <5>1
      <4>3. CASE m \notin 1..Len(B)
        <5>1. C[m] = a + (m - Len(B)) - 1
          BY <2>2, <4>3
        <5> HIDE DEF B
        <5> QED
          BY <1>nat, <2>3, <4>1, <5>1
      <4> QED
        BY <4>2, <4>3
    <3> QED
      BY <3>1, <3>2
  <2>4. ASSUME NEW n \in 1..(Len(B) + nb)
        PROVE  C[n] \in Bucket /\ owner'[C[n]] = id
    <3>1. C[n] \in Bucket
      BY <1>1, <2>1
    <3>2. CASE n \in 1..Len(B)
      <4>1. C[n] = B[n] /\ owner[B[n]] = id
        BY <1>1, <1>5, <3>2
      <4> QED
        BY <1>2, <3>1, <4>1
    <3>3. CASE n \notin 1..Len(B)
      <4>1. n - Len(B) \in 1..nb /\ C[n] = a + (n - Len(B)) - 1
        BY <2>2, <3>3
      <4>2. a =< C[n] /\ C[n] < a + nb
        <5> HIDE DEF B
        <5> QED
          BY <1>nat, <4>1
      <4> QED
        BY <1>2, <3>1, <4>2
    <3> QED
      BY <3>1, <3>2, <3>3
  <2>5. ASSUME NEW b \in Bucket, owner'[b] = id
        PROVE  \E n \in 1..(Len(B) + nb) : C[n] = b
    <3>1. CASE a =< b /\ b < a + nb
      <4> DEFINE n == b - a + 1
      <4>1. n \in 1..nb /\ a + n - 1 = b
        BY <1>1, <1>4, <3>1
      <4>2. Len(B) + n \in 1..(Len(B) + nb)
        BY <1>nat, <4>1
      <4>3. C[Len(B) + n] = b
        BY <1>1, <4>1
      <4> QED
        BY <4>2, <4>3
    <3>2. CASE ~(a =< b /\ b < a + nb)
      <4>1. owner[b] = id
        BY <1>2, <2>5, <3>2
      <4>2. PICK n \in DOMAIN B : B[n] = b
        BY <1>6, <4>1 DEF Ascending
      <4>3. DOMAIN B = 1..Len(B)
        BY Lists
      <4>4. n \in 1..(Len(B) + nb) /\ C[n] = b
        BY <1>1, <1>5, <4>2, <4>3
      <4> QED
        BY <4>4
    <3> QED
      BY <3>1, <3>2
  <2>6. {C[n] : n \in DOMAIN C} = {b \in Bucket : owner'[b] = id}
    BY <2>1, <2>4, <2>5
  <2> QED
    BY <2>1, <2>3, <2>6 DEF Ascending
<1> QED
  BY <1>1, <1>7, <1>8, <1>9, <1>10

LEMMA GrowKeeps ==
  ASSUME Inv, NEW id \in MemoryId, NEW pages \in Nat, Grow(id, pages)
  PROVE  Inv'
<1>1. CASE Refused(id, pages)
  <2>1. UNCHANGED <<header, owner, memory, inner, cache>>
    BY <1>1 DEF Grow
  <2> QED
    BY <2>1 DEF Inv, TypeOK, BucketsOwned, CacheCoherent, SparePagesZero, ListsBounded
<1>2. CASE ~Refused(id, pages)
  <2> DEFINE nb == Added(id, pages)
  <2>1. /\ nb \in Nat /\ inner.allocated_buckets \in Nat
        /\ inner'.allocated_buckets = inner.allocated_buckets + nb
        /\ inner'.allocated_buckets \in 0..MaxNumBuckets
        /\ inner'.sizes = [inner.sizes EXCEPT ![id] = @ + pages]
        /\ inner'.memory_buckets \in [MemoryId -> Seq(Bucket)]
        /\ \A k \in MemoryId : k # id => inner'.memory_buckets[k] = inner.memory_buckets[k]
        /\ Len(inner'.memory_buckets[id]) = Len(inner.memory_buckets[id]) + nb
        /\ \A n \in 1..Len(inner.memory_buckets[id]) :
             inner'.memory_buckets[id][n] = inner.memory_buckets[id][n]
        /\ inner' = [allocated_buckets |-> inner'.allocated_buckets,
                     sizes |-> inner'.sizes, memory_buckets |-> inner'.memory_buckets]
    BY <1>2, GrowLists
  <2>2. cache' = cache /\ header' = [allocated_buckets |-> inner'.allocated_buckets,
                                     sizes |-> inner'.sizes]
    <3> DEFINE A == inner.allocated_buckets + (num_buckets_needed(inner.sizes[id] + pages)
                                               - num_buckets_needed(inner.sizes[id]))
               Z == [inner.sizes EXCEPT ![id] = inner.sizes[id] + pages]
    <3>1. cache' = cache /\ save_header(A, Z)
      BY <1>2, Zenon DEF Grow
    <3>2. PICK M : inner' = [allocated_buckets |-> A, sizes |-> Z, memory_buckets |-> M]
      BY <1>2, Zenon DEF Grow
    <3> HIDE DEF A, Z
    <3>3. inner'.allocated_buckets = A /\ inner'.sizes = Z
      BY <3>2
    <3>4. header' = [allocated_buckets |-> A, sizes |-> Z]
      BY <3>1, Zenon DEF save_header
    <3> QED
      BY <3>1, <3>3, <3>4, Zenon
  <2>3. inner.sizes \in [MemoryId -> Nat] /\ inner'.sizes \in [MemoryId -> Nat]
        /\ \A k \in MemoryId : inner'.sizes[k] = IF k = id THEN inner.sizes[k] + pages
                                                 ELSE inner.sizes[k]
    <3>1. inner.sizes \in [MemoryId -> Nat]
      BY DEF Inv, TypeOK
    <3> QED
      BY <2>1, <3>1
  <2>4. TypeOK'
    <3>1. header' \in Header
      BY <2>1, <2>2, <2>3 DEF Header
    <3>2. inner' \in [allocated_buckets : 0..MaxNumBuckets, sizes : [MemoryId -> Nat],
                      memory_buckets : [MemoryId -> Seq(Bucket)]]
      BY <2>1, <2>3
    <3>3. cache' \in [MemoryId -> {NoBucket} \cup [idx : Nat, real : Nat]]
      BY <2>2 DEF Inv, TypeOK
    <3>4. /\ DOMAIN memory' = 1..(BucketSize * inner'.allocated_buckets)
          /\ \A p \in DOMAIN memory' : memory'[p] \in Value
      BY <1>2, GrowPages
    <3>5. owner' \in [Bucket -> MemoryId \cup {UNALLOCATED}]
      BY <1>2, GrowOwners
    <3> QED
      BY <3>1, <3>2, <3>3, <3>4, <3>5 DEF TypeOK
  <2>5. \A k \in MemoryId : Len(inner'.memory_buckets[k]) =
          IF k = id THEN Len(inner.memory_buckets[k]) + nb ELSE Len(inner.memory_buckets[k])
    BY <2>1
  <2>6. BucketsOwned'
    <3>1. ASSUME NEW k \in MemoryId
          PROVE  Len(inner'.memory_buckets[k]) = num_buckets_needed(inner'.sizes[k])
      <4>1. Len(inner.memory_buckets[k]) = num_buckets_needed(inner.sizes[k]) /\ inner.sizes[k] \in Nat
        BY Lists
      <4>2. CASE k = id
        <5>1. nb = num_buckets_needed(inner.sizes[id] + pages) - num_buckets_needed(inner.sizes[id])
          BY DEF Added
        <5>2. inner.sizes[id] + pages \in Nat /\ inner.sizes[id] \in Nat
          BY <4>1, <4>2
        <5>3. /\ num_buckets_needed(inner.sizes[id] + pages) \in Nat
              /\ num_buckets_needed(inner.sizes[id]) \in Nat
          BY <5>2, Needed
        <5> HIDE DEF nb
        <5>4. Len(inner'.memory_buckets[k]) = num_buckets_needed(inner.sizes[id]) + nb
          BY <2>5, <4>1, <4>2
        <5>5. num_buckets_needed(inner.sizes[id]) + nb = num_buckets_needed(inner.sizes[id] + pages)
          BY <5>1, <5>3
        <5> QED
          BY <2>3, <4>2, <5>4, <5>5
      <4>3. CASE k # id
        BY <2>3, <2>5, <4>1, <4>3
      <4> QED
        BY <4>2, <4>3
    <3> QED
      BY <1>2, <2>2, <3>1, GrowOwners DEF BucketsOwned
  <2>7. CacheCoherent'
    <3>1. SUFFICES ASSUME NEW k \in MemoryId, cache[k] # NoBucket
                   PROVE  /\ cache[k].idx + 1 \in DOMAIN inner'.memory_buckets[k]
                          /\ cache[k].real = bucket_address(inner'.memory_buckets[k][cache[k].idx + 1])
      BY <2>2 DEF CacheCoherent
    <3>2. /\ cache[k].idx + 1 \in DOMAIN inner.memory_buckets[k]
          /\ cache[k].real = bucket_address(inner.memory_buckets[k][cache[k].idx + 1])
      BY <3>1 DEF Inv, CacheCoherent
    <3>3. CASE k = id
      <4>1. /\ DOMAIN inner.memory_buckets[id] = 1..Len(inner.memory_buckets[id])
            /\ Len(inner.memory_buckets[id]) \in Nat
        BY Lists
      <4>2. inner'.memory_buckets[id] \in Seq(Bucket)
        BY <2>1
      <4>3. DOMAIN inner'.memory_buckets[id] = 1..Len(inner'.memory_buckets[id])
        BY <4>2
      <4>4. cache[k].idx + 1 \in 1..Len(inner.memory_buckets[id])
        BY <3>2, <3>3, <4>1
      <4>5. cache[k].idx + 1 \in 1..Len(inner'.memory_buckets[id])
        BY <2>1, <4>1, <4>4
      <4> QED
        BY <2>1, <3>2, <3>3, <4>3, <4>4, <4>5
    <3>4. CASE k # id
      BY <2>1, <3>2, <3>4
    <3> QED
      BY <3>3, <3>4
  <2>8. ListsBounded'
    <3>1. ASSUME NEW k \in MemoryId
          PROVE  Len(inner'.memory_buckets[k]) =< inner'.allocated_buckets
      <4>1. Len(inner.memory_buckets[k]) \in Nat /\ Len(inner.memory_buckets[k]) =< inner.allocated_buckets
        BY Lists
      <4> HIDE DEF nb
      <4> QED
        BY <2>1, <2>5, <4>1
    <3> QED
      BY <3>1 DEF ListsBounded
  <2>9. SparePagesZero'
    <3>1. SUFFICES ASSUME NEW k \in MemoryId,
                          NEW i \in inner'.sizes[k]..(BucketSize * Len(inner'.memory_buckets[k]) - 1)
                   PROVE  memory'[RealPage(inner'.memory_buckets[k], i)] = Zero
      BY DEF SparePagesZero
    <3>2. /\ inner'.sizes[k] \in Nat /\ inner.sizes[k] \in Nat /\ inner'.sizes[k] >= inner.sizes[k]
      BY <2>3
    <3>3. BucketSize * Len(inner'.memory_buckets[k]) \in Nat
      <4>1. Len(inner'.memory_buckets[k]) \in Nat
        <5>1. inner'.memory_buckets[k] \in Seq(Bucket)
          BY <2>1
        <5> QED
          BY <5>1
      <4> QED
        BY <4>1, Products
    <3>4. i \in Nat /\ i < BucketSize * Len(inner'.memory_buckets[k]) /\ i >= inner.sizes[k]
      BY <3>2, <3>3
    <3>5. memory'[RealPage(inner'.memory_buckets[k], i)] =
            IF i < BucketSize * Len(inner.memory_buckets[k])
            THEN memory[RealPage(inner.memory_buckets[k], i)] ELSE Zero
      BY <1>2, <3>4, GrowPages
    <3>6. i < BucketSize * Len(inner.memory_buckets[k])
            => memory[RealPage(inner.memory_buckets[k], i)] = Zero
      <4>1. BucketSize * Len(inner.memory_buckets[k]) \in Nat
        BY GrownTo
      <4>2. i < BucketSize * Len(inner.memory_buckets[k])
              => i \in inner.sizes[k]..(BucketSize * Len(inner.memory_buckets[k]) - 1)
        BY <3>2, <3>4, <4>1
      <4> QED
        BY <4>2 DEF Inv, SparePagesZero
    <3> QED
      BY <3>5, <3>6
  <2> QED
    BY <2>4, <2>6, <2>7, <2>8, <2>9 DEF Inv
<1> QED
  BY <1>1, <1>2

-------------------------------------------------------------------------------
(* Loading. *)

(* Load makes of page 0 exactly what was on the heap. *)
LEMMA LoadIs ==
  ASSUME Inv, Load
  PROVE  inner' = inner
<1>1. inner \in [allocated_buckets : 0..MaxNumBuckets, sizes : [MemoryId -> Nat],
                 memory_buckets : [MemoryId -> Seq(Bucket)]]
  BY DEF Inv, TypeOK
<1>2. header.allocated_buckets = inner.allocated_buckets /\ header.sizes = inner.sizes
  BY DEF Inv, BucketsOwned
<1> DEFINE Owned(id) == {b \in Bucket : owner[b] = id}
           Listed(id) == CHOOSE c \in UNION {[1..n -> Owned(id)] : n \in 0..MaxNumBuckets} :
                           Ascending(c, Owned(id))
<1>3. ASSUME NEW id \in MemoryId
      PROVE  Listed(id) = inner.memory_buckets[id]
  <2> DEFINE S == Owned(id)
             B == inner.memory_buckets[id]
             T == UNION {[1..n -> S] : n \in 0..MaxNumBuckets}
             s == CHOOSE c \in T : Ascending(c, S)
  <2>1. Listed(id) = s
    OBVIOUS
  <2>2. Ascending(B, S)
    BY DEF Inv, BucketsOwned
  <2>3. /\ B \in Seq(Bucket) /\ Len(B) \in Nat /\ DOMAIN B = 1..Len(B)
        /\ Len(B) =< inner.allocated_buckets /\ inner.allocated_buckets \in 0..MaxNumBuckets
        /\ \A n \in 1..Len(B) : B[n] \in Bucket /\ B[n] \in Nat /\ owner[B[n]] = id
    BY Lists
  <2>4. Len(B) \in 0..MaxNumBuckets
    BY <2>3, SizeAssumption
  <2>5. B \in [1..Len(B) -> S]
    BY <2>3
  <2>6. B \in T
    <3> HIDE DEF B, S
    <3> QED
      BY <2>4, <2>5
  <2>7. s \in T /\ Ascending(s, S)
    <3> HIDE DEF B, S, T
    <3> QED
      BY <2>2, <2>6
  <2>8. S \subseteq Nat
    BY SizeAssumption DEF Bucket
  <2>9. B \in Seq(Nat)
    <3> HIDE DEF B
    <3>1. B \in [1..Len(B) -> Nat]
      BY <2>3
    <3> QED
      BY <2>3, <3>1
  <2>10. s \in Seq(Nat)
    <3> HIDE DEF s, S
    <3>1. PICK n \in 0..MaxNumBuckets : s \in [1..n -> S]
      BY <2>7
    <3>2. n \in Nat
      BY SizeAssumption
    <3>3. s \in [1..n -> Nat]
      BY <2>8, <3>1
    <3> QED
      BY <3>2, <3>3
  <2>11. s = B
    <3> HIDE DEF s, S, B
    <3> QED
      BY <2>2, <2>7, <2>8, <2>9, <2>10, OneList
  <2> QED
    BY <2>1, <2>11
<1>4. BucketLists = inner.memory_buckets
  <2>1. inner.memory_buckets = [id \in MemoryId |-> inner.memory_buckets[id]]
    BY <1>1
  <2>2. BucketLists = [id \in MemoryId |-> Listed(id)]
    BY DEF BucketLists
  <2> HIDE DEF Listed
  <2> QED
    BY <1>3, <2>1, <2>2
<1>5. inner' = [allocated_buckets |-> inner.allocated_buckets, sizes |-> inner.sizes,
                memory_buckets |-> inner.memory_buckets]
  BY <1>2, <1>4 DEF Load
<1> QED
  BY <1>1, <1>5

LEMMA LoadKeeps ==
  ASSUME Inv, Load
  PROVE  Inv'
<1>1. inner' = inner /\ UNCHANGED <<header, owner, memory>>
  BY LoadIs DEF Load
<1>2. cache' = [id \in MemoryId |-> NoBucket]
  BY DEF Load
<1>3. TypeOK'
  BY <1>1, <1>2 DEF Inv, TypeOK
<1>4. CacheCoherent'
  BY <1>2 DEF CacheCoherent
<1>5. BucketsOwned' /\ SparePagesZero' /\ ListsBounded'
  BY <1>1 DEF Inv, BucketsOwned, SparePagesZero, ListsBounded
<1> QED
  BY <1>3, <1>4, <1>5 DEF Inv

-------------------------------------------------------------------------------
(* The manager starts with no bucket, and every call and every restart     *)
(* keeps the invariant.                                                    *)
LEMMA InvInductive == Spec => []Inv
<1>1. Init => Inv
  <2> SUFFICES ASSUME Init PROVE Inv
    OBVIOUS
  <2> USE DEF Init
  <2>1. /\ inner.allocated_buckets = 0 /\ inner.sizes = [id \in MemoryId |-> 0]
        /\ inner.memory_buckets = [id \in MemoryId |-> <<>>]
    OBVIOUS
  <2>2. BucketSize * 0 = 0 /\ 0 \in 0..MaxNumBuckets
    BY SizeAssumption
  <2>3. TypeOK
    <3>1. header \in Header
      BY <2>2 DEF Header
    <3>2. owner \in [Bucket -> MemoryId \cup {UNALLOCATED}]
      OBVIOUS
    <3>3. DOMAIN memory = 1..(BucketSize * inner.allocated_buckets) /\ DOMAIN memory = {}
      BY <2>1, <2>2
    <3>4. inner \in [allocated_buckets : 0..MaxNumBuckets, sizes : [MemoryId -> Nat],
                     memory_buckets : [MemoryId -> Seq(Bucket)]]
      <4>1. [id \in MemoryId |-> 0] \in [MemoryId -> Nat]
        <5> HIDE DEF Init
        <5> QED
          OBVIOUS
      <4>2. [id \in MemoryId |-> <<>>] \in [MemoryId -> Seq(Bucket)]
        <5> HIDE DEF Init
        <5>1. <<>> \in Seq(Bucket)
          OBVIOUS
        <5> QED
          BY <5>1, Zenon
      <4>3. inner = [allocated_buckets |-> 0, sizes |-> [id \in MemoryId |-> 0],
                     memory_buckets |-> [id \in MemoryId |-> <<>>]]
        BY Zenon
      <4> HIDE DEF Init
      <4> QED
        BY <2>2, <4>1, <4>2, <4>3, Zenon
    <3>5. cache \in [MemoryId -> {NoBucket} \cup [idx : Nat, real : Nat]]
      OBVIOUS
    <3> QED
      BY <3>1, <3>2, <3>3, <3>4, <3>5 DEF TypeOK
  <2>4. BucketsOwned
    <3>1. num_buckets_needed(0) = 0
      <4>1. num_buckets_needed(0) \in Nat /\ BucketSize * num_buckets_needed(0) < BucketSize
        BY Needed, SizeAssumption
      <4>2. 0 < num_buckets_needed(0) => BucketSize * 0 + BucketSize =< BucketSize * num_buckets_needed(0)
        BY <4>1, Products
      <4>3. BucketSize * num_buckets_needed(0) \in Nat
        BY <4>1, Products
      <4> QED
        BY <2>2, <4>1, <4>2, <4>3, SizeAssumption
    <3>2. ASSUME NEW id \in MemoryId
          PROVE  /\ Ascending(inner.memory_buckets[id], {b \in Bucket : owner[b] = id})
                 /\ Len(inner.memory_buckets[id]) = num_buckets_needed(inner.sizes[id])
      <4>1. inner.memory_buckets[id] = <<>> /\ inner.sizes[id] = 0
        BY <2>1
      <4>2. {b \in Bucket : owner[b] = id} = {}
        BY IdAssumption
      <4>3. Ascending(<<>>, {})
        BY DEF Ascending
      <4> QED
        BY <3>1, <4>1, <4>2, <4>3
    <3>3. \A b \in Bucket : owner[b] = UNALLOCATED <=> b >= inner.allocated_buckets
      BY <2>1, SizeAssumption DEF Bucket
    <3> QED
      BY <3>2, <3>3 DEF BucketsOwned
  <2>5. CacheCoherent
    BY DEF CacheCoherent
  <2>6. ASSUME NEW id \in MemoryId
        PROVE  Len(inner.memory_buckets[id]) = 0
    BY <2>1
  <2>7. SparePagesZero
    BY <2>1, <2>2, <2>6 DEF SparePagesZero
  <2>8. ListsBounded
    <3>1. SUFFICES ASSUME NEW id \in MemoryId
                   PROVE  Len(inner.memory_buckets[id]) =< inner.allocated_buckets
      BY DEF ListsBounded
    <3>2. 0 =< inner.allocated_buckets
      BY <2>1
    <3> QED
      BY <2>6, <3>2
  <2> QED
    BY <2>3, <2>4, <2>5, <2>7, <2>8 DEF Inv
<1>2. Inv /\ [Next]_vars => Inv'
  <2> SUFFICES ASSUME Inv, [Next]_vars PROVE Inv'
    OBVIOUS
  <2>1. CASE Load
    BY <2>1, LoadKeeps
  <2>2. ASSUME NEW id \in MemoryId, NEW pages \in 0..MaxGrow, Grow(id, pages)
        PROVE  Inv'
    <3>1. pages \in Nat
      BY BoundAssumption
    <3> QED
      BY <2>2, <3>1, GrowKeeps
  <2>3. ASSUME NEW id \in MemoryId, NEW offset \in Page, NEW len \in 1..MaxLen,
               offset + len =< inner.sizes[id], Read(id, offset, len)
        PROVE  Inv'
    BY <2>3, ReadKeeps
  <2>4. ASSUME NEW id \in MemoryId, NEW offset \in Page, NEW len \in 1..MaxLen,
               offset + len =< inner.sizes[id],
               NEW src \in [1..len -> Value], Write(id, offset, len, src)
        PROVE  Inv'
    BY <2>4, WriteKeeps
  <2>5. CASE UNCHANGED vars
    BY <2>5 DEF vars, Inv, TypeOK, BucketsOwned, CacheCoherent, SparePagesZero, ListsBounded
  <2> QED
    BY <2>1, <2>2, <2>3, <2>4, <2>5 DEF Next
<1> QED
  BY <1>1, <1>2, PTL DEF Spec

(* The header, the owners, the heap and the caches keep their types, and   *)
(* the stable memory has exactly the pages of the allocated buckets.       *)
THEOREM TypeCorrect == Spec => []TypeOK
<1>1. Inv => TypeOK
  BY DEF Inv
<1> QED
  BY <1>1, InvInductive, PTL

(* Every bucket has one owner and is in exactly that memory's list: what   *)
(* grow keeps on the heap is what load finds in page 0.                    *)
THEOREM BucketsStayOwned == Spec => []BucketsOwned
<1>1. Inv => BucketsOwned
  BY DEF Inv
<1> QED
  BY <1>1, InvInductive, PTL

(* The bucket that read and write left in a cache is still where the cache *)
(* says, whatever has grown since.                                         *)
THEOREM CacheStaysCoherent == Spec => []CacheCoherent
<1>1. Inv => CacheCoherent
  BY DEF Inv
<1> QED
  BY <1>1, InvInductive, PTL

-------------------------------------------------------------------------------
(* Refinement. *)

(* Page i of a memory, as its user sees it. *)
Seen(id, i) ==
  IF i < inner.sizes[id] THEN memory[RealPage(inner.memory_buckets[id], i)] ELSE Zero

LEMMA ViewIs ==
  /\ View = [id \in MemoryId |-> [i \in Page |-> Seen(id, i)]]
  /\ View' = [id \in MemoryId |-> [i \in Page |-> Seen(id, i)']]
  /\ \A i \in Page : i \in Nat
<1>1. View = [id \in MemoryId |-> [i \in Page |-> Seen(id, i)]]
  BY DEF View, Seen
<1>2. View' = [id \in MemoryId |-> [i \in Page |-> Seen(id, i)']]
  BY DEF View, Seen
<1>3. BucketSize * MaxNumBuckets \in Nat
  BY Products, SizeAssumption
<1>4. \A i \in Page : i \in Nat
  BY <1>3 DEF Page
<1> QED
  BY <1>1, <1>2, <1>4

(* Nothing that a user sees changes when the manager restarts. *)
LEMMA LoadRefines ==
  ASSUME Inv, Load
  PROVE  Abs!Restart
<1>1. inner' = inner /\ memory' = memory /\ ret' = <<>>
  BY LoadIs DEF Load
<1>2. View' = View
  BY <1>1 DEF View
<1> QED
  BY <1>1, <1>2 DEF Abs!Restart

(* A grow adds zeroed pages to the memory and shows in no other. *)
LEMMA GrowRefines ==
  ASSUME Inv, NEW id \in MemoryId, NEW pages \in Nat, Grow(id, pages)
  PROVE  Abs!Grow(id, pages) \/ Abs!Refuse
<1>1. CASE Refused(id, pages)
  <2>1. inner' = inner /\ memory' = memory /\ ret' = <<-1>>
    BY <1>1 DEF Grow
  <2>2. View' = View
    BY <2>1 DEF View
  <2> QED
    BY <2>1, <2>2 DEF Abs!Refuse
<1>2. CASE ~Refused(id, pages)
  <2>1. /\ inner'.sizes = [inner.sizes EXCEPT ![id] = @ + pages]
        /\ ret' = <<inner.sizes[id]>>
    <3>1. inner'.sizes = [inner.sizes EXCEPT ![id] = @ + pages]
      BY <1>2, GrowLists
    <3>2. ret' = <<inner.sizes[id]>>
      BY <1>2 DEF Grow
    <3> QED
      BY <3>1, <3>2
  <2>2. Inv'
    BY GrowKeeps
  <2>3. ASSUME NEW k \in MemoryId, NEW i \in Page
        PROVE  Seen(k, i)' = Seen(k, i)
    <3>1. i \in Nat /\ inner.sizes[k] \in Nat /\ inner'.sizes[k] \in Nat
      <4>1. inner.sizes \in [MemoryId -> Nat] /\ inner'.sizes \in [MemoryId -> Nat]
        BY <2>2 DEF Inv, TypeOK
      <4> QED
        BY <4>1, ViewIs
    <3>2. inner.sizes[k] =< inner'.sizes[k]
      <4>1. inner.sizes \in [MemoryId -> Nat]
        BY DEF Inv, TypeOK
      <4> QED
        BY <2>1, <4>1
    <3>3. /\ inner.sizes[k] =< BucketSize * Len(inner.memory_buckets[k])
          /\ BucketSize * Len(inner.memory_buckets[k]) \in Nat
      BY GrownTo
    <3>4. CASE i < inner'.sizes[k]
      <4>1. i < BucketSize * Len(inner'.memory_buckets[k])
        <5>1. /\ inner'.sizes[k] =< BucketSize * Len(inner'.memory_buckets[k])
              /\ BucketSize * Len(inner'.memory_buckets[k]) \in Nat
          <6>1. /\ Len(inner'.memory_buckets[k]) = num_buckets_needed(inner'.sizes[k])
            BY <2>2 DEF Inv, BucketsOwned
          <6> QED
            BY <3>1, <6>1, Needed, Products
        <5> QED
          BY <3>1, <3>4, <5>1
      <4>2. memory'[RealPage(inner'.memory_buckets[k], i)] =
              IF i < BucketSize * Len(inner.memory_buckets[k])
              THEN memory[RealPage(inner.memory_buckets[k], i)] ELSE Zero
        BY <1>2, <3>1, <4>1, GrowPages
      <4>3. CASE i < inner.sizes[k]
        <5>1. i < BucketSize * Len(inner.memory_buckets[k])
          BY <3>1, <3>3, <4>3
        <5> QED
          BY <3>4, <4>2, <4>3, <5>1 DEF Seen
      <4>4. CASE ~(i < inner.sizes[k]) /\ i < BucketSize * Len(inner.memory_buckets[k])
        <5>1. i \in inner.sizes[k]..(BucketSize * Len(inner.memory_buckets[k]) - 1)
          BY <3>1, <3>3, <4>4
        <5>2. memory[RealPage(inner.memory_buckets[k], i)] = Zero
          BY <5>1 DEF Inv, SparePagesZero
        <5> QED
          BY <3>4, <4>2, <4>4, <5>2 DEF Seen
      <4>5. CASE ~(i < inner.sizes[k]) /\ ~(i < BucketSize * Len(inner.memory_buckets[k]))
        BY <3>4, <4>2, <4>5 DEF Seen
      <4> QED
        BY <4>3, <4>4, <4>5
    <3>5. CASE ~(i < inner'.sizes[k])
      <4>1. ~(i < inner.sizes[k])
        BY <3>1, <3>2, <3>5
      <4> QED
        BY <3>5, <4>1 DEF Seen
    <3> QED
      BY <3>4, <3>5
  <2>4. View' = View
    BY <2>3, ViewIs
  <2> QED
    BY <2>1, <2>4 DEF Abs!Grow
<1> QED
  BY <1>1, <1>2

(* A read returns the pages that the user of the memory sees. *)
LEMMA ReadRefines ==
  ASSUME Inv, NEW id \in MemoryId, NEW offset \in Page, NEW len \in 1..MaxLen,
         offset + len =< inner.sizes[id], Read(id, offset, len)
  PROVE  Abs!Read(id, offset, len)
<1>1. inner' = inner /\ memory' = memory
  BY DEF Read
<1>2. View' = View
  BY <1>1 DEF View
<1>3. offset \in Nat /\ len \in Nat
  BY ViewIs, BoundAssumption
<1>4. ASSUME NEW j \in 1..len
      PROVE  memory[Located(id, offset, len)[j]] = View[id][offset + j - 1]
  <2>1. Located(id, offset, len)[j] = RealPage(inner.memory_buckets[id], offset + j - 1)
    BY <1>3, LocatedIs
  <2>2. /\ offset + j - 1 \in Nat /\ offset + j - 1 < inner.sizes[id]
        /\ offset + j - 1 < BucketSize * Len(inner.memory_buckets[id])
    BY <1>3, SegmentInBuckets
  <2>3. offset + j - 1 \in Page
    BY <2>2, GrownTo
  <2>4. View[id][offset + j - 1] = Seen(id, offset + j - 1)
    BY <2>3, ViewIs
  <2> QED
    BY <2>1, <2>2, <2>4 DEF Seen
<1>5. ret' = [j \in 1..len |-> memory[Located(id, offset, len)[j]]]
  BY DEF Read
<1>6. ret' = [j \in 1..len |-> View[id][offset + j - 1]]
  BY <1>4, <1>5
<1> QED
  BY <1>1, <1>2, <1>6 DEF Abs!Read

(* A write changes the pages it names, in its own memory only. *)
LEMMA WriteRefines ==
  ASSUME Inv, NEW id \in MemoryId, NEW offset \in Page, NEW len \in 1..MaxLen,
         offset + len =< inner.sizes[id], NEW src \in [1..len -> Value],
         Write(id, offset, len, src)
  PROVE  ret' \in [1..len -> Value] /\ Abs!Write(id, offset, ret')
<1>1. inner' = inner /\ ret' = src
  BY DEF Write
<1>2. offset \in Nat /\ len \in Nat
  BY ViewIs, BoundAssumption
<1>3. WritesOnly(id, offset, len, src)
  BY <1>2, WriteIs
<1>4. Len(src) = len
  BY <1>2
<1> DEFINE written == offset..(offset + len - 1)
<1>5. ASSUME NEW k \in MemoryId, NEW i \in Page
      PROVE  Seen(k, i)' = IF k = id /\ i \in written THEN src[i - offset + 1] ELSE Seen(k, i)
  <2>1. i \in Nat /\ inner.sizes[k] \in Nat /\ inner.sizes[id] \in Nat
    BY ViewIs, Lists
  <2>2. CASE i < inner.sizes[k]
    <3>1. i < BucketSize * Len(inner.memory_buckets[k])
      <4>1. /\ inner.sizes[k] =< BucketSize * Len(inner.memory_buckets[k])
            /\ BucketSize * Len(inner.memory_buckets[k]) \in Nat
        BY GrownTo
      <4> QED
        BY <2>1, <2>2, <4>1
    <3>2. memory'[RealPage(inner.memory_buckets[k], i)] =
            IF k = id /\ i \in written THEN src[i - offset + 1]
            ELSE memory[RealPage(inner.memory_buckets[k], i)]
      BY <1>3, <2>1, <3>1 DEF WritesOnly
    <3> HIDE DEF written
    <3> QED
      BY <1>1, <2>2, <3>2 DEF Seen
  <2>3. CASE ~(i < inner.sizes[k])
    <3>1. ~(k = id /\ i \in written)
      BY <1>2, <2>1, <2>3
    <3> QED
      BY <1>1, <2>3, <3>1 DEF Seen
  <2> QED
    BY <2>2, <2>3
<1>6. View' = [View EXCEPT ![id] = [i \in Page |-> IF i \in written
                                                    THEN src[i - offset + 1] ELSE @[i]]]
  <2> DEFINE new == [i \in Page |-> IF i \in written THEN src[i - offset + 1] ELSE View[id][i]]
  <2>1. View = [k \in MemoryId |-> [i \in Page |-> Seen(k, i)]]
    BY ViewIs
  <2>2. View' = [k \in MemoryId |-> [i \in Page |-> Seen(k, i)']]
    BY ViewIs
  <2> HIDE DEF written
  <2>3. new = [i \in Page |-> Seen(id, i)']
    BY <1>5, <2>1
  <2>4. \A k \in MemoryId : k # id => [i \in Page |-> Seen(k, i)'] = View[k]
    BY <1>5, <2>1
  <2>5. View' = [View EXCEPT ![id] = new]
    <3> HIDE DEF new
    <3> QED
      BY <2>1, <2>2, <2>3, <2>4
  <2> QED
    BY <2>5
<1> QED
  BY <1>1, <1>4, <1>6 DEF Abs!Write

(* The virtual memories behave as memories of their own: growing, reading  *)
(* and writing one of them, and restarting, is what Memories says it is.   *)
THEOREM ManagerImplementsMemories == Spec => ImplementsMemories
<1>1. Init => Abs!Init
  <2> SUFFICES ASSUME Init PROVE Abs!Init
    OBVIOUS
  <2>1. inner.sizes = [id \in MemoryId |-> 0] /\ ret = <<>>
    BY DEF Init
  <2>2. ASSUME NEW id \in MemoryId, NEW i \in Page
        PROVE  Seen(id, i) = Zero
    <3>1. i \in Nat /\ inner.sizes[id] = 0
      BY <2>1, ViewIs
    <3> QED
      BY <3>1 DEF Seen
  <2>3. View = [id \in MemoryId |-> [i \in Page |-> Zero]]
    BY <2>2, ViewIs
  <2> QED
    BY <2>1, <2>3 DEF Abs!Init
<1>2. Inv /\ [Next]_vars => [Abs!Next]_(Abs!vars)
  <2> SUFFICES ASSUME Inv, [Next]_vars PROVE [Abs!Next]_(Abs!vars)
    OBVIOUS
  <2>1. CASE Load
    BY <2>1, LoadRefines DEF Abs!Next
  <2>2. ASSUME NEW id \in MemoryId, NEW pages \in 0..MaxGrow, Grow(id, pages)
        PROVE  Abs!Next
    <3>1. pages \in Nat
      BY BoundAssumption
    <3>2. Abs!Grow(id, pages) \/ Abs!Refuse
      BY <2>2, <3>1, GrowRefines
    <3> QED
      BY <3>2 DEF Abs!Next
  <2>3. ASSUME NEW id \in MemoryId, NEW offset \in Page, NEW len \in 1..MaxLen,
               offset + len =< inner.sizes[id], Read(id, offset, len)
        PROVE  Abs!Next
    <3>1. Abs!Read(id, offset, len)
      BY <2>3, ReadRefines
    <3> QED
      BY <2>3, <3>1 DEF Abs!Next
  <2>4. ASSUME NEW id \in MemoryId, NEW offset \in Page, NEW len \in 1..MaxLen,
               offset + len =< inner.sizes[id],
               NEW src \in [1..len -> Value], Write(id, offset, len, src)
        PROVE  Abs!Next
    <3>1. ret' \in [1..len -> Value] /\ Abs!Write(id, offset, ret')
      BY <2>4, WriteRefines
    <3> QED
      BY <2>4, <3>1 DEF Abs!Next
  <2>5. CASE UNCHANGED vars
    <3>1. inner' = inner /\ memory' = memory /\ ret' = ret
      BY <2>5 DEF vars
    <3> QED
      BY <3>1 DEF Abs!vars, View
  <2> QED
    BY <2>1, <2>2, <2>3, <2>4, <2>5 DEF Next
<1> QED
  BY <1>1, <1>2, InvInductive, PTL DEF Spec, ImplementsMemories, Abs!Spec

===============================================================================
