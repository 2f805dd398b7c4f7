CONSTANTS
  c1 = c1
  c2 = c2
  Cogs = {c1}
  HeapLongs = 16
  MaxRequest = 2
  NCells = 1
  ScanTop <- AllCells
  Calls <- OneCalls
  StaleRegs = FALSE
  MovesDuringGC = FALSE
SPECIFICATION FairSpec
INVARIANT TypeOK
INVARIANT IInv
INVARIANT NoAdjacentFree
INVARIANT AllocFailureHonest
INVARIANT ZeroesOwnBlock
INVARIANT CollectComplete
PROPERTY LockReleased
PROPERTY ImplementsHeap
