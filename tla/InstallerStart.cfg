SPECIFICATION StartSpec
CONSTANTS
  BLOCKS = {b1, b2, b3, b4}
  NULL = NULL
  HEAP_START = b1
  MAX_NAMES = 2
INVARIANTS
  ResultsStayAllocated
  NoLeakBeforeError
  FileReadLeavesNoTrace
  MemoryUsedRight
  ErrorIsFinal
PROPERTIES
  MemoryTestTells
