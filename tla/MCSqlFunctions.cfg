CONSTANTS
  Functions <- MCFunctions
  Kind <- MCKind
  Rows = {x, y}
  MaxRows = 2
  MaxTableRows = 2
  Caller = Caller
  Proc = Proc
  Null = Null
  Freed = Freed
SPECIFICATION Spec
INVARIANTS
  TypeOK
  RowsOutlastSpi
  ContextRestored
  ScansOwnTheirMemory
PROPERTIES
  HandsOutResults
  CallsEnd
