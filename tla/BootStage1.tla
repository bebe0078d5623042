------------------------------- MODULE BootStage1 -------------------------------
(***************************************************************************)
(* The boot sector (src/bootloader/stage1/boot.asm): it asks the BIOS for  *)
(* the geometry, reads the root directory, looks for BOOT.BIN in it, reads *)
(* the file over it into the same buffer and jumps there.                  *)
(*                                                                         *)
(* The buffer is known by the disk sector at its start and the number of   *)
(* sectors after it.  The BIOS is external: a read moves what it is asked  *)
(* for, or fails after some sectors and leaves in AL, on some machines,    *)
(* how many those were.                                                    *)
(*                                                                         *)
(* As in ChunkList, a definition named for what it gets wrong is a faulty  *)
(* variant of the one after it, there to test the properties.              *)
(***************************************************************************)
EXTENDS Integers

CONSTANTS
  MACHINES,         \* what a BIOS may be: sectors of a track, the number of
                    \* the last head, and whether a failed read sets AL
  BOOT_ENTRIES,     \* the entries of the root directory BOOT.BIN may have
  FILES,            \* the cluster and the size, in sectors, it may have
  MOVED,            \* the numbers of sectors a failing read may have moved
  ROOT_ENTRY_COUNT, \* bpb_root_entry_count, 0xE0 in the code
  MAX_TRIES         \* 6 in the code

ROOT_LBA == 19
ENTRIES_PER_SECTOR == 16

ASSUME MachinesAssumption ==
  MACHINES \subseteq [sectors : 1 .. 63, maxHead : 0 .. 254, setsAL : BOOLEAN]
(* The directory is no longer than what is read of it (0xE0 entries, in 14  *)
(* sectors).                                                                *)
ASSUME RootAssumption ==
  /\ ROOT_ENTRY_COUNT \in Nat /\ ROOT_ENTRY_COUNT <= ENTRIES_PER_SECTOR * ROOT_LBA
  /\ BOOT_ENTRIES \subseteq 0 .. ROOT_ENTRY_COUNT
ASSUME FilesAssumption ==
  FILES \subseteq [cluster : Nat, size : Nat] /\ \A f \in FILES : 2 <= f.cluster /\ f.cluster < 4080
(* A file is where int 13h can name its sectors, by one of 1024 cylinders.  *)
ASSUME DiskAssumption ==
  \A m \in MACHINES, f \in FILES : f.cluster + 31 < 1024 * ((m.maxHead + 1) * m.sectors)
ASSUME MovedAssumption == MOVED \subseteq Nat /\ 0 \in MOVED
ASSUME TriesAssumption == MAX_TRIES \in Nat \ {0}

VARIABLES
  machine, file,
  bootBin,  \* the entry of BOOT.BIN; ROOT_ENTRY_COUNT if there is none
  pc,       \* "params", "read_root", "search", "read_file", "jump", "halt",
            \* "divide_error"
  al,       \* the number of sectors the read is of
  chs,      \* CL, DH and CH: where it is
  try_cnt,  \* failed tries of the read so far
  bx,       \* entries compared
  buffer

disk == <<machine, file, bootBin>>
vars == <<disk, pc, al, chs, try_cnt, bx, buffer>>

(* lbachs: the two high bits of the cylinder are put into CL.               *)
LbaChsNoHighBits(lba) ==
  LET track == lba \div machine.sectors
      heads == machine.maxHead + 1
  IN [cl |-> (lba % machine.sectors) + 1, dh |-> track % heads, ch |-> (track \div heads) % 256]
LbaChs(lba) ==
  LET track == lba \div machine.sectors
      heads == machine.maxHead + 1
      cylinder == track \div heads
  IN [cl |-> (lba % machine.sectors) + 1 + 64 * ((cylinder \div 256) % 4),
      dh |-> track % heads,
      ch |-> cylinder % 256]

(* The disk sector a BIOS finds there.                                      *)
LbaOf(a) ==
  (((a.cl \div 64) * 256 + a.ch) * (machine.maxHead + 1) + a.dh) * machine.sectors + (a.cl % 64) - 1

Init ==
  /\ machine \in MACHINES /\ file \in FILES /\ bootBin \in BOOT_ENTRIES
  /\ pc = "params" /\ al = 0 /\ try_cnt = 0 /\ bx = 0
  /\ chs = [cl |-> 0, dh |-> 0, ch |-> 0]
  /\ buffer = [start |-> 0, length |-> 0]

(* call lbachs; call read.  AX holds the address all the time: its low byte *)
(* is taken for the number of sectors.                                      *)
StartRead(lba, count, at) ==
  /\ chs' = LbaChs(lba)
  /\ al' = count % 256
  /\ try_cnt' = 0
  /\ pc' = at

GetParamsFails ==
  /\ pc = "params"
  /\ pc' = "halt"
  /\ UNCHANGED <<disk, al, chs, try_cnt, bx, buffer>>

GetParamsOk ==
  /\ pc = "params"
  /\ StartRead(ROOT_LBA, ROOT_LBA, "read_root")
  /\ UNCHANGED <<disk, bx, buffer>>

(* read: int 13h, function 2, again and again.                              *)
Reading == pc \in {"read_root", "read_file"}

ReadOk ==
  /\ Reading
  /\ buffer' = IF al = 0 THEN buffer ELSE [start |-> LbaOf(chs), length |-> al]
  /\ bx' = IF pc = "read_root" THEN 0 ELSE bx
  /\ pc' = IF pc = "read_root" THEN "search" ELSE "jump"
  /\ UNCHANGED <<disk, al, chs, try_cnt>>

SetsAL(n) == al' = IF machine.setsAL THEN n ELSE al
MovedBeforeFailure == {p \in MOVED : p < al} \cup {0}

(* What a failing read has moved, the next try moves again.                 *)
ReadFailsForever ==
  /\ Reading
  /\ \E p \in MovedBeforeFailure : SetsAL(p)
  /\ try_cnt' = (try_cnt + 1) % MAX_TRIES
  /\ UNCHANGED <<disk, pc, chs, bx, buffer>>
ReadFails ==
  /\ Reading
  /\ \E p \in MovedBeforeFailure : SetsAL(p)
  /\ IF try_cnt = MAX_TRIES - 1 THEN pc' = "halt" /\ UNCHANGED try_cnt
                                ELSE try_cnt' = try_cnt + 1 /\ UNCHANGED pc
  /\ UNCHANGED <<disk, chs, bx, buffer>>

(* .check_entries compares with what is in the buffer, read or not.         *)
InBuffer(entry) == entry \div ENTRIES_PER_SECTOR < buffer.length
IsBootBin(entry) == entry < ROOT_ENTRY_COUNT /\ entry = bootBin /\ InBuffer(entry)

EntryDiffersLast ==
  /\ pc = "search" /\ bx < ROOT_ENTRY_COUNT - 1 /\ ~IsBootBin(bx)
  /\ bx' = IF bx = ROOT_ENTRY_COUNT - 2 THEN ROOT_ENTRY_COUNT ELSE bx + 1
  /\ UNCHANGED <<disk, pc, al, chs, try_cnt, buffer>>
EntryDiffers ==
  /\ pc = "search" /\ bx < ROOT_ENTRY_COUNT /\ ~IsBootBin(bx)
  /\ bx' = bx + 1
  /\ UNCHANGED <<disk, pc, al, chs, try_cnt, buffer>>

NotFound ==
  /\ pc = "search" /\ bx >= ROOT_ENTRY_COUNT
  /\ pc' = "halt"
  /\ UNCHANGED <<disk, al, chs, try_cnt, bx, buffer>>

(* load_boots2 divides the size of the file by 512 with DH, the head the    *)
(* directory was read from, still in EDX: from head 2 on the quotient is    *)
(* too large and the processor raises a divide error.                       *)
DivideError ==
  /\ pc = "search" /\ IsBootBin(bx) /\ chs.dh >= 2
  /\ pc' = "divide_error"
  /\ UNCHANGED <<disk, al, chs, try_cnt, bx, buffer>>

(* It computes the size of the file in sectors in AX, and loads AX with the *)
(* address of the file.                                                     *)
LoadBoots2Cluster ==
  /\ pc = "search" /\ IsBootBin(bx) /\ chs.dh < 2
  /\ StartRead(file.cluster, file.cluster + 31, "read_file")
  /\ UNCHANGED <<disk, bx, buffer>>
LoadBoots2 ==
  /\ pc = "search" /\ IsBootBin(bx) /\ chs.dh < 2
  /\ StartRead(file.cluster + 31, file.cluster + 31, "read_file")
  /\ UNCHANGED <<disk, bx, buffer>>

Next ==
  \/ GetParamsFails \/ GetParamsOk \/ ReadOk \/ ReadFails
  \/ EntryDiffers \/ NotFound \/ DivideError \/ LoadBoots2

(* The processor goes on until it halts or leaves the boot sector, for      *)
(* BOOT.BIN or for the handler of a divide error.                           *)
Spec == Init /\ [][Next]_vars /\ WF_vars(Next)

(***************************************************************************)
(* Properties.                                                             *)
(***************************************************************************)
Addresses == [cl : 0 .. 255, dh : 0 .. 254, ch : 0 .. 255]

TypeOK ==
  /\ machine \in MACHINES /\ file \in FILES /\ bootBin \in BOOT_ENTRIES
  /\ pc \in {"params", "read_root", "search", "read_file", "jump", "halt", "divide_error"}
  /\ al \in 0 .. 255 /\ try_cnt \in 0 .. MAX_TRIES - 1 /\ bx \in 0 .. ROOT_ENTRY_COUNT
  /\ chs \in Addresses
  /\ buffer \in [start : Nat, length : 0 .. 255]

ReadUndisturbed == try_cnt = 0 \/ ~machine.setsAL
FileLba == file.cluster + 31
FileLoaded == buffer.start = FileLba /\ file.size <= buffer.length

(* The cylinder, head and sector given to the BIOS are the address that was *)
(* meant, on every geometry and up to the last cylinder int 13h can name.   *)
ReadsWhereMeant ==
  Reading => LbaOf(chs) = IF pc = "read_root" THEN ROOT_LBA ELSE FileLba

(* The machine says that there is no BOOT.BIN only if there is none.        *)
SearchIsComplete ==
  pc = "halt" /\ bx = ROOT_ENTRY_COUNT /\ ReadUndisturbed => bootBin = ROOT_ENTRY_COUNT

(* The file is in the buffer when it is jumped to, as long as the number    *)
(* that happens to be read is enough for it.                                *)
RunsBootBin ==
  pc = "jump" /\ ReadUndisturbed /\ FileLba % 256 >= file.size /\ FileLba % 256 # 0 => FileLoaded

(* It leaves the boot sector or halts: a read is given up after MAX_TRIES   *)
(* tries and the search has an end.                                         *)
Ends == <>(pc \in {"jump", "halt", "divide_error"})

(***************************************************************************)
(* What the comments say, and the code does not.                           *)
(***************************************************************************)

(* "Increment the number of sector to grab" (boot.asm:131): as many sectors *)
(* are read as the file has.                                                *)
GrabsWholeFile == pc = "jump" /\ ReadUndisturbed => FileLoaded

(* "IN AL number of sector" (boot.asm:149): a read that succeeds after      *)
(* failed tries has read those sectors.                                     *)
RetryReadsAll == pc = "read_file" => al = FileLba % 256
=============================================================================
