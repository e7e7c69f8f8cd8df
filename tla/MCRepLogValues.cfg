SPECIFICATION Spec
CONSTANTS
  Key = {1, 2}
  Value = {v1, v2}
  NoValue = NoValue
  ChangelogFull = ChangelogFull
  MaxSeq = 3
  MaxU64 = 7
INVARIANT UpsertsHaveValues
