SPECIFICATION Spec
CONSTANTS
  DRIVES = {0, 128}
  BOOT_DRIVE = 128
  DISKS <- MCDisks
  ENTRY_CNT = 5
  DIRECTORY_ATTRIBUTE = 16
CHECK_DEADLOCK FALSE
INVARIANTS
  InstallerIsLoaded
  OnlyFilesRun
PROPERTIES
  GoodDriveBoots
