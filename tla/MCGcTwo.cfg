CONSTANTS
  c1 = c1
  c2 = c2
  Cogs = {c1, c2}
  HeapLongs = 12
  MaxRequest = 2
  NCells = 1
  ScanTop <- StackTops
  Calls <- DisciplinedCalls
  StaleRegs = FALSE
  MovesDuringGC = TRUE
SPECIFICATION Spec
INVARIANT IInv
INVARIANT HeapTiling
INVARIANT ReservedSurvives
INVARIANT FreeListExact
INVARIANT ReferencedStaysAllocated
PROPERTY ImplementsHeap
