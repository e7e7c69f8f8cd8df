SPECIFICATION FairSyncSpec
CONSTANTS
  Key = {1, 2}
  Value = {v1, v2}
  NoValue = NoValue
  ChangelogFull = ChangelogFull
  MaxSeq = 4
  MaxU64 = 20
  Limit = 1
  MaxLost = 1
  CatchUpFromFirst = TRUE
INVARIANTS
  TypeOK
  SyncTypeOK
  IndexConsistent
  LastChangeTellsState
  DifferencesArePending
  CaughtUpMeansEqual
PROPERTIES
  FreshIds
  ImplementsVersionedMap
  Converges
