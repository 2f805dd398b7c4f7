CONSTANTS
  c1 = c1
  c2 = c2
  Cogs = {c1, c2}
  HeapLongs = 12
  MaxRequest = 1
  NCells = 1
  ScanTop <- AllCells
  Calls <- GiveCalls
  StaleRegs = FALSE
  MovesDuringGC = FALSE
SPECIFICATION Spec
INVARIANT ReferencedStaysAllocated
