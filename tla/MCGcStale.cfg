CONSTANTS
  c1 = c1
  c2 = c2
  Cogs = {c1}
  HeapLongs = 16
  MaxRequest = 1
  NCells = 0
  ScanTop <- AllCells
  Calls <- StaleCalls
  StaleRegs = TRUE
  MovesDuringGC = FALSE
SPECIFICATION Spec
INVARIANT HeapTiling
