SPECIFICATION Spec
CONSTANTS
  Bytes = {1, 2}
  Newline = 2
  Chunks <- MCChunks
  Counts = {1, 3}
  Offsets <- MCOffsets
  Sizes = {0, 3}
  DefaultSize = 2
  MaxLen = 4
  FlushFails = FALSE
INVARIANTS TypeOK BufferConsistent
PROPERTIES AppendOnly ImplementsStream
