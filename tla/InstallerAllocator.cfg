SPECIFICATION Spec
CONSTANTS
  CHUNK_QTY = 3
  HEAP_START = 1
  HEAP_SIZE = 7
  MAX_REQUEST = 7
INVARIANTS
  HeapIsPartitioned
  FreeRunsAreChunks
  FreeFindsPlace
PROPERTIES
  MergeTerminates
  ImplementsHeap
