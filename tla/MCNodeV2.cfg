CONSTANTS
  Key = {1, 2, 3}
  small = small
  large = large
  Value = {small, large}
  KeySize <- MCKeySize
  ValueSize <- MCValueSize
  Unreadable = Unreadable
  Address = {1,2,3,4,5,6,7,8,9,10,11,12,13,14}
  NULL = 0
  ChildAddress = {99}
  PageSize = 6
  EAGER_LOAD_KEY_SIZE_THRESHOLD = 1
  B = 2
  Inserted <- MCInserted
  MaxNodes = 2
SPECIFICATION Spec
VIEW UpToAddresses
INVARIANTS TypeOK PagesAccountedFor NoSparePages
PROPERTY ImplementsNodes
