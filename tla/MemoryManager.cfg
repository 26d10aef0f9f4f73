SPECIFICATION Spec
CONSTANTS
  MemSize = 21
  Hdr = 2
  Sizes = {1, 2, 5}
INVARIANTS TypeOK CheckFindsNothing MaxInOneChunk
PROPERTY ImplementsAllocator
