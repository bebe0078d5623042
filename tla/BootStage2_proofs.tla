---------------------------- MODULE BootStage2_proofs ----------------------------
(***************************************************************************)
(* Proofs about stage 2, for any drives, any root directories and any      *)
(* contents of the bytes that nothing clears.                              *)
(*                                                                         *)
(* What is run is decided in three places: fs_init leaves the drive, the   *)
(* search leaves BX at the entry, and fs_read loads from both.  What makes *)
(* the result right is what is known at each place of the code, and that   *)
(* an error that starts stage 2 again starts it without any of it.         *)
(***************************************************************************)
EXTENDS BootStage2, TLAPS

(* A BIOS call has succeeded on the drive since stage 2 was entered.        *)
DriveAnswered ==
  pc \in {"fs_read", "search", "load", "installer"} => driveID \in DRIVES

(* From .file_found on, the drive has INSTALL.BIN and it is a file.         *)
EntryIsFile == pc \in {"load", "installer"} => Installs(driveID)

(* What is at KERNEL_LOCATION when it is jumped to.                         *)
LoadedIsEntry ==
  pc = "installer" =>
    loaded = [drive |-> driveID, start |-> DapLba(Here.cluster + 31), count |-> Here.size]

IInv == TypeOK /\ DriveAnswered /\ EntryIsFile /\ LoadedIsEntry

LEMMA InitIInv == Init => IInv
<1> SUFFICES ASSUME Init PROVE IInv
  OBVIOUS
<1>1. TypeOK
  <2>1. al \in 0 .. 255 /\ driveID \in 0 .. 255 /\ bx \in 0 .. ENTRY_CNT
    BY DrivesAssumption, AttributeAssumption DEF Init
  <2>2. loaded \in [drive : DRIVES, start : 0 .. 255, count : Nat]
    BY DrivesAssumption DEF Init
  <2>3. QED
    BY <2>1, <2>2 DEF Init, TypeOK
<1>2. DriveAnswered /\ EntryIsFile /\ LoadedIsEntry
  <2>1. pc = "entry"
    BY DEF Init
  <2>2. QED
    BY <2>1 DEF DriveAnswered, EntryIsFile, LoadedIsEntry
<1>3. QED
  BY <1>1, <1>2 DEF IInv

(* What the directory of a known drive says has the type of an entry.       *)
LEMMA EntryType ==
  ASSUME TypeOK, driveID \in DRIVES
  PROVE  Here.cluster \in Nat /\ Here.size \in Nat
<1>1. Here \in DISKS
  BY DEF TypeOK, Here
<1>2. QED
  BY <1>1, DisksAssumption

(* DAP.lba holds one byte, and a sector below 256 unchanged.                *)
LEMMA DapLbaIsByte ==
  ASSUME NEW lba \in Nat
  PROVE  DapLba(lba) \in 0 .. 255 /\ (lba < 256 => DapLba(lba) = lba)
  BY DEF DapLba

LEMMA StepTypeOK == IInv /\ [Next]_vars => TypeOK'
<1> SUFFICES ASSUME IInv, [Next]_vars PROVE TypeOK'
  OBVIOUS
<1>t. TypeOK
  BY DEF IInv
<1>1. CASE Entry
  BY <1>t, <1>1 DEF TypeOK, machine, Entry
<1>2. CASE FsInitFails
  BY <1>t, <1>2 DEF TypeOK, machine, FsInitFails, Error, ENDL
<1>3. CASE FsInitOk
  BY <1>t, <1>3 DEF TypeOK, machine, FsInitOk
<1>4. CASE ReadRootFails
  BY <1>t, <1>4 DEF TypeOK, machine, ReadRootFails, Error, ENDL
<1>5. CASE ReadRootOk
  BY <1>t, <1>5, AttributeAssumption DEF TypeOK, machine, ReadRootOk, ROOT_LBA
<1>6. CASE EntryDiffers
  BY <1>t, <1>6, AttributeAssumption DEF TypeOK, machine, EntryDiffers
<1>7. CASE NotFound
  BY <1>t, <1>7 DEF TypeOK, machine, NotFound, Error
<1>8. CASE IsDirectory
  BY <1>t, <1>8, AttributeAssumption DEF TypeOK, machine, IsDirectory, Error
<1>9. CASE FirstClusterIsZero
  BY <1>t, <1>9 DEF TypeOK, machine, FirstClusterIsZero, Error
<1>10. CASE FileFound
  BY <1>t, <1>10 DEF TypeOK, machine, FileFound
<1>11. CASE LoadFails
  BY <1>t, <1>11 DEF TypeOK, machine, LoadFails, Error, ENDL
<1>12. CASE Load
  <2>1. driveID \in DRIVES
    BY <1>12 DEF Load, IInv, DriveAnswered
  <2>2. Here.cluster \in Nat /\ Here.size \in Nat
    BY <1>t, <2>1, EntryType
  <2>3. DapLba(Here.cluster + 31) \in 0 .. 255
    <3>1. Here.cluster + 31 \in Nat
      BY <2>2
    <3>2. QED
      BY <3>1, DapLbaIsByte
  <2>4. loaded' \in [drive : DRIVES, start : 0 .. 255, count : Nat]
    BY <1>12, <2>1, <2>2, <2>3 DEF Load
  <2>5. QED
    BY <1>t, <1>12, <2>4 DEF TypeOK, machine, Load
<1>13. CASE ErrorReturns
  BY <1>t, <1>13 DEF TypeOK, machine, ErrorReturns
<1>14. CASE UNCHANGED vars
  BY <1>t, <1>14 DEF TypeOK, machine, vars
<1>15. QED
  BY <1>1, <1>2, <1>3, <1>4, <1>5, <1>6, <1>7, <1>8, <1>9, <1>10, <1>11, <1>12, <1>13, <1>14
  DEF Next

LEMMA StepKnown == IInv /\ [Next]_vars => (DriveAnswered /\ EntryIsFile /\ LoadedIsEntry)'
<1> SUFFICES ASSUME IInv, [Next]_vars PROVE (DriveAnswered /\ EntryIsFile /\ LoadedIsEntry)'
  OBVIOUS
<1> USE DEF IInv, DriveAnswered, EntryIsFile, LoadedIsEntry, Installs, Here, machine
(* Leaving what is known for a place where nothing has to be known.         *)
<1>1. CASE \/ Entry \/ FsInitFails \/ ReadRootFails \/ NotFound
           \/ IsDirectory \/ FirstClusterIsZero \/ LoadFails \/ ErrorReturns
  <2>1. pc' \in {"entry", "fs_init", "error", "halted"}
    BY <1>1 DEF Entry, FsInitFails, ReadRootFails, NotFound, IsDirectory, FirstClusterIsZero,
                LoadFails, ErrorReturns, Error
  <2>2. QED
    BY <2>1
(* A BIOS call that succeeds shows that the drive exists.                   *)
<1>2. CASE FsInitOk
  BY <1>2 DEF FsInitOk, ReadMaySucceed, MaySucceed
<1>3. CASE ReadRootOk \/ EntryDiffers
  BY <1>3 DEF ReadRootOk, EntryDiffers
(* The comparison and the attribute check of the entry that is found.       *)
<1>4. CASE FileFound
  BY <1>4 DEF FileFound, Matches
<1>5. CASE Load
  BY <1>5 DEF Load
<1>6. CASE UNCHANGED vars
  BY <1>6 DEF vars
<1>7. QED
  BY <1>1, <1>2, <1>3, <1>4, <1>5, <1>6 DEF Next

LEMMA Invariance == Spec => []IInv
<1>1. IInv /\ [Next]_vars => IInv'
  BY StepTypeOK, StepKnown DEF IInv
<1>2. QED
  BY InitIInv, <1>1, PTL DEF Spec

(* Every register, the packet and what is loaded have their types: no       *)
(* drive but one of the BIOS is ever loaded from.                           *)
THEOREM TypeCorrect == Spec => []TypeOK
  BY Invariance, PTL DEF IInv

(* Whatever happened before, failures and restarts with another drive       *)
(* included, what is jumped to came from a drive that has INSTALL.BIN as a  *)
(* file.                                                                    *)
THEOREM OnlyFilesAreRun == Spec => []OnlyFilesRun
<1>1. IInv => OnlyFilesRun
  BY DEF IInv, DriveAnswered, EntryIsFile, OnlyFilesRun
<1>2. QED
  BY Invariance, <1>1, PTL

(* What is jumped to is that file, all of it and from the drive in driveID, *)
(* if its first sector is below 256.                                        *)
THEOREM TheFileIsLoaded == Spec => []InstallerIsLoaded
<1>1. IInv => InstallerIsLoaded
  <2> SUFFICES ASSUME IInv, pc = "installer", Here.cluster + 31 < 256
               PROVE  loaded = [drive |-> driveID, start |-> Here.cluster + 31, count |-> Here.size]
    BY DEF InstallerIsLoaded
  <2>1. Here.cluster \in Nat
    BY EntryType DEF IInv, DriveAnswered
  <2>2. DapLba(Here.cluster + 31) = Here.cluster + 31
    <3>1. Here.cluster + 31 \in Nat
      BY <2>1
    <3>2. QED
      BY <3>1, DapLbaIsByte
  <2>3. QED
    BY <2>2 DEF IInv, LoadedIsEntry
<1>2. QED
  BY Invariance, <1>1, PTL
=============================================================================
