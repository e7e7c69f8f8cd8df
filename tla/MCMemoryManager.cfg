SPECIFICATION Spec
CONSTANTS
  MemoryId = {m0, m1}
  UNALLOCATED = UNALLOCATED
  MaxNumBuckets = 3
  BucketSize = 2
  Value = {0, 1}
  Zero = 0
  MaxGrow = 3
  MaxLen = 4
SYMMETRY Symmetry
VIEW State
INVARIANTS
  TypeOK
  BucketsOwned
  CacheCoherent
PROPERTY ImplementsMemories
