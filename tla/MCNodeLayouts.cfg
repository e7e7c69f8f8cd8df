CONSTANTS
  Key = {1, 2, 3}
  v1 = v1
  v2 = v2
  v3 = v3
  Value = {v1, v2, v3}
  KeySize <- MCKeySize
  ValueSize <- MCValueSize
  Unreadable = Unreadable
  MaxKeySize = 2
  MaxValueSize = 1
  ChildAddress = {99}
  CAPACITY = 3
  Room = 30
SPECIFICATION Spec
INVARIANT SurvivesMigration
