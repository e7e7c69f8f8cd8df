SPECIFICATION Spec
CONSTANT MaxChunks = 5
INVARIANTS
  TypeOK
  FreeListComplete
  AssertionsHold
  CountExact
PROPERTY GrowsOnlyWhenFull
