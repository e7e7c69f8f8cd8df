CONSTANTS
  Key <- MCKey
  Value = {0, 1}
  None = None
  Address = {1,2,3,4,5,6,7,8}
  NULL = 0
  B = 2
  Inserted <- MCInserted
  MaxKey = 8
  Twice = {}
  Start <- MCStart
  End <- MCEnd
  StartKey = {3, 6}
  EndKey = {3, 6}
  IterSizes = {0, 1, 4, 7, 8}
  Other <- MCOther
  OtherKey = {1, 4, 5, 8}
  SetSizes = {0, 1, 4}
SPECIFICATION SetSpec
VIEW SetUpToAddresses
INVARIANTS SetTypeOK YieldedSoFar Decided
PROPERTY ImplementsSortedIter
