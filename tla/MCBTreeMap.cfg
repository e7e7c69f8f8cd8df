CONSTANTS
  Key <- MCKey
  Value = {0, 1}
  None = None
  Address = {1,2,3,4,5,6,7,8,9}
  NULL = 0
  B = 2
  Inserted <- MCInserted
  MaxKey = 9
  Twice = {3}
SPECIFICATION Spec
VIEW UpToAddresses
INVARIANTS TypeOK NodesFit Balanced EntriesFound HeaderSaved
PROPERTIES ImplementsSortedMap StepsGoDown
