------------------------------- MODULE BootStage2 -------------------------------
(***************************************************************************)
(* BOOT.BIN (src/bootloader/stage2): start.asm, which sets up the disk,    *)
(* loads INSTALL.BIN and enters protected mode, and fs_init and fs_read of *)
(* fs.asm.  A drive has a root directory in which one entry may be         *)
(* INSTALL.BIN: a file, a directory, or a file whose first cluster is 0.   *)
(* The BIOS is external.  The disk address packet is in memory that        *)
(* nothing clears: what its last bytes hold is chosen at the start.        *)
(*                                                                         *)
(* As in ChunkList, a definition named for what it gets wrong is a faulty  *)
(* variant of the one after it, there to test the properties.              *)
(***************************************************************************)
EXTENDS Integers

CONSTANTS
  DRIVES,        \* the drives the BIOS knows
  BOOT_DRIVE,    \* the one stage 1 was loaded from
  DISKS,         \* what a drive may hold: entry, kind, cluster and size
  ENTRY_CNT,     \* entries of a root directory
  DIRECTORY_ATTRIBUTE  \* the attribute byte of a directory, 16 and more

ASSUME DrivesAssumption == BOOT_DRIVE \in DRIVES /\ DRIVES \subseteq 0 .. 255
ASSUME DisksAssumption ==
  DISKS \subseteq [entry : 0 .. ENTRY_CNT, kind : {"file", "directory", "empty"},
                   cluster : Nat, size : Nat]
ASSUME AttributeAssumption == ENTRY_CNT \in Nat /\ DIRECTORY_ATTRIBUTE \in 16 .. 31

VARIABLES
  disk,       \* what each drive holds
  reliable,   \* the BIOS never fails
  dapClear,   \* the last three bytes of DAP.lba happen to be 0
  pc,         \* "entry", "fs_init", "fs_read", "search", "load", "error",
              \* "installer" or "halted"
  al,         \* AL where it matters: the drive, when stage 2 is entered
  driveID,
  bx,         \* entries compared
  inFrame,    \* ES and BX are on the stack, above the return address
  loaded      \* the sectors that were read to KERNEL_LOCATION, and from where

machine == <<disk, reliable, dapClear>>
vars == <<machine, pc, al, driveID, bx, inFrame, loaded>>

ROOT_LBA == 19
ENDL == 10

Init ==
  /\ disk \in [DRIVES -> DISKS]
  /\ reliable \in BOOLEAN /\ dapClear \in BOOLEAN
  /\ pc = "entry" /\ al = BOOT_DRIVE /\ driveID = BOOT_DRIVE
  /\ bx = 0 /\ inFrame = FALSE
  /\ loaded = [drive |-> BOOT_DRIVE, start |-> 0, count |-> 0]

(* entry: the drive is what AL holds.                                       *)
Entry ==
  /\ pc = "entry"
  /\ driveID' = al
  /\ pc' = "fs_init"
  /\ UNCHANGED <<machine, al, bx, inFrame, loaded>>

(* A BIOS call on the drive, with an address if it is a read.  A packet     *)
(* whose last bytes are not 0 names a sector no disk has.                   *)
MayFail == ~reliable \/ driveID \notin DRIVES
MaySucceed == driveID \in DRIVES
ReadMayFail == MayFail \/ ~dapClear
ReadMaySucceed == MaySucceed /\ dapClear

(* error: the message is printed, and AL is left as what was printed last   *)
(* or as it was.                                                            *)
Error(code) == pc' = "error" /\ al' = code

(* fs_init: reset, geometry, check for extensions, and the boot sector.     *)
FsInitFails ==
  /\ pc = "fs_init" /\ ReadMayFail
  /\ Error(ENDL)
  /\ UNCHANGED <<machine, driveID, bx, inFrame, loaded>>

FsInitOk ==
  /\ pc = "fs_init" /\ ReadMaySucceed
  /\ pc' = "fs_read"
  /\ UNCHANGED <<machine, al, driveID, bx, inFrame, loaded>>

(* fs_read saves ES and BX and reads the root directory.                    *)
ReadRootFails ==
  /\ pc = "fs_read" /\ ReadMayFail
  /\ inFrame' = TRUE
  /\ Error(ENDL)
  /\ UNCHANGED <<machine, driveID, bx, loaded>>

ReadRootOk ==
  /\ pc = "fs_read" /\ ReadMaySucceed
  /\ inFrame' = TRUE
  /\ bx' = 0
  /\ al' = ROOT_LBA
  /\ pc' = "search"
  /\ UNCHANGED <<machine, driveID, loaded>>

Here == disk[driveID]
Matches == bx < ENTRY_CNT /\ bx = Here.entry

EntryDiffersByTwo ==
  /\ pc = "search" /\ bx < ENTRY_CNT /\ ~Matches
  /\ bx' = bx + 2
  /\ UNCHANGED <<machine, pc, al, driveID, inFrame, loaded>>
EntryDiffers ==
  /\ pc = "search" /\ bx < ENTRY_CNT /\ ~Matches
  /\ bx' = bx + 1
  /\ UNCHANGED <<machine, pc, al, driveID, inFrame, loaded>>

NotFound ==
  /\ pc = "search" /\ bx >= ENTRY_CNT
  /\ Error(al)
  /\ UNCHANGED <<machine, driveID, bx, inFrame, loaded>>

IsDirectory ==
  /\ pc = "search" /\ Matches /\ Here.kind = "directory"
  /\ Error(DIRECTORY_ATTRIBUTE)
  /\ UNCHANGED <<machine, driveID, bx, inFrame, loaded>>

FirstClusterIsZero ==
  /\ pc = "search" /\ Matches /\ Here.kind = "empty"
  /\ Error(0)
  /\ UNCHANGED <<machine, driveID, bx, inFrame, loaded>>

FileFoundUnchecked ==
  /\ pc = "search" /\ Matches
  /\ inFrame' = FALSE
  /\ pc' = "load"
  /\ UNCHANGED <<machine, al, driveID, bx, loaded>>
(* .no_remainder: ES and BX are taken off the stack again.                  *)
FileFound ==
  /\ pc = "search" /\ Matches /\ Here.kind = "file"
  /\ inFrame' = FALSE
  /\ pc' = "load"
  /\ UNCHANGED <<machine, al, driveID, bx, loaded>>

LoadFails ==
  /\ pc = "load" /\ ReadMayFail
  /\ Error(ENDL)
  /\ UNCHANGED <<machine, driveID, bx, inFrame, loaded>>

DapLbaFirstBits(lba) == lba % 128
(* The double word 0 that is written to DAP.lba + 1 leaves one byte of the  *)
(* address.                                                                 *)
DapLba(lba) == lba % 256

Load ==
  /\ pc = "load" /\ ReadMaySucceed
  /\ loaded' = [drive |-> driveID, start |-> DapLba(Here.cluster + 31), count |-> Here.size]
  /\ pc' = "installer"
  /\ UNCHANGED <<machine, al, driveID, bx, inFrame>>

(* stc; ret.  The word on top of the stack is the return address, or the    *)
(* BX that fs_read saved: 0, the address of entry.                          *)
ErrorReturns ==
  /\ pc = "error"
  /\ pc' = IF inFrame THEN "entry" ELSE "halted"
  /\ inFrame' = FALSE
  /\ UNCHANGED <<machine, al, driveID, bx, loaded>>

Next ==
  \/ Entry \/ FsInitFails \/ FsInitOk \/ ReadRootFails \/ ReadRootOk
  \/ EntryDiffers \/ NotFound \/ IsDirectory \/ FirstClusterIsZero \/ FileFound
  \/ LoadFails \/ Load \/ ErrorReturns

(* The processor goes on until it halts or jumps to the installer.          *)
Spec == Init /\ [][Next]_vars /\ WF_vars(Next)

(***************************************************************************)
(* Properties.                                                             *)
(***************************************************************************)
TypeOK ==
  /\ disk \in [DRIVES -> DISKS]
  /\ reliable \in BOOLEAN /\ dapClear \in BOOLEAN /\ inFrame \in BOOLEAN
  /\ pc \in {"entry", "fs_init", "fs_read", "search", "load", "error", "installer", "halted"}
  /\ al \in 0 .. 255 /\ driveID \in 0 .. 255
  /\ bx \in 0 .. ENTRY_CNT
  /\ loaded \in [drive : DRIVES, start : 0 .. 255, count : Nat]

Installs(d) == disk[d].entry < ENTRY_CNT /\ disk[d].kind = "file"

(* On a machine that works, a drive with INSTALL.BIN anywhere in its root   *)
(* directory boots from it, and nothing else happens on the way.            *)
GoodDriveBoots ==
  reliable /\ dapClear /\ Installs(BOOT_DRIVE)
    => <>(pc = "installer" /\ loaded.drive = BOOT_DRIVE)

(* What is jumped to is INSTALL.BIN of the drive in driveID, the one whose  *)
(* number start.asm puts in AL before the jump: all of the file, if it lies *)
(* in the first 256 sectors.                                                *)
InstallerIsLoaded ==
  pc = "installer" /\ Here.cluster + 31 < 256 =>
    loaded = [drive |-> driveID, start |-> Here.cluster + 31, count |-> Here.size]

(* Nothing is run from a drive without the file: a directory, or an entry   *)
(* without a cluster, is not loaded.                                        *)
OnlyFilesRun == pc = "installer" => driveID \in DRIVES /\ Installs(driveID)

(***************************************************************************)
(* What the code says of itself, and does not do.                          *)
(***************************************************************************)

(* "jc failure" and "Failure in finding file" (start.asm:39, 92): when      *)
(* fs_read fails the machine prints that and halts.                         *)
FailureHalts == pc = "error" ~> pc = "halted"

(* "LBA of the root directory" and "Getting the address of the file"        *)
(* (fs.asm:148, 160): the file is read where it is.                         *)
FileReadWhereItIs == pc = "installer" => loaded.start = Here.cluster + 31
=============================================================================
