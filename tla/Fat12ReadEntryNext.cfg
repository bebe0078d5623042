SPECIFICATION WalkSpec
CONSTANTS
  FILE_CLUSTERS = {2, 3, 6, 7, 8, 16, 17, 31, 32, 341, 342}
  MAX_LENGTH = 3
  END_MARKS = {4088, 4095}
  SIZE_MODULUS = 8
  MEDIA = 240
  BYTES_PER_SECTOR = 512
  SECTORS_PER_CLUSTER = 1
  RESERVED_SECTORS = 1
  FAT_COUNT = 2
  SECTORS_PER_FAT = 9
  ROOT_ENTRIES = 224
CHECK_DEADLOCK FALSE
INVARIANTS
  NextIsEntry
