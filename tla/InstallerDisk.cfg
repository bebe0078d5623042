SPECIFICATION DiskSpec
CONSTANTS
  BUFFER_PG_SIZE = 8
  LBA_STEP = 4
  BUFFER_ROOM = 16
  REQUESTS <- MCRequests
  PARTIAL = {0, 1}
  DEST_SIZE = 82
  PAGE_TABLE_SIZE = 4
  KERNEL_TABLE = 2
  TEXT16_HIGH = 0
  DEPTHS = {36000, 36800}
INVARIANTS
  ReadsAreExact
  IrqsComeInRealMode
  ModesAreLegal
  StackComesBack
PROPERTIES
  CallReturns
