SPECIFICATION Spec
CONSTANTS
  MACHINES <- MCMachines
  FILES <- MCFiles
  BOOT_ENTRIES = {0, 17, 223, 224}
  MOVED = {0, 5}
  ROOT_ENTRY_COUNT = 224
  MAX_TRIES = 6
CHECK_DEADLOCK FALSE
INVARIANTS
  ReadsWhereMeant
  SearchIsComplete
  RunsBootBin
PROPERTIES
  Ends
