CONSTANTS
  PageSize = 8
  MaxPages = 4
  CellValue = {1, 2}
  CellBytes <- MCCellBytes
  NoCell = NoCell
  Item <- MCItem
  Type <- MCType
  NoItem = NoItem
  Layout <- MCLayout
  MaxSkip = 1
  MaxStart = 5
SPECIFICATION Spec
VIEW WithoutRet
INVARIANTS TypeOK HeapOrdered
PROPERTIES ImplementsCellAndVec StaysInRange
