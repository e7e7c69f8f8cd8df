SPECIFICATION Spec
CONSTANTS
  a = a
  b = b
  c = c
  Item = {a, b, c}
  ByteLen <- Lengths
  GrowFailed = GrowFailed
  NoSuchEntry = NoSuchEntry
  Blank = Blank
  PageSize = 3
  HeaderSize = 1
  MaxEntries = 3
  MaxBytes = 4
  MaxSkip = 1
INVARIANTS
  TypeOK
  EntriesReadable
PROPERTY ImplementsAppendLog
