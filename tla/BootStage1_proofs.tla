---------------------------- MODULE BootStage1_proofs ----------------------------
(***************************************************************************)
(* Proofs about the boot sector, for every geometry a BIOS may report and  *)
(* every place BOOT.BIN may have in the directory and on the disk.         *)
(*                                                                         *)
(* The bytes of lbachs name the sector they were made of as long as it is  *)
(* on one of the 1024 cylinders int 13h has (RoundTrip); the rest follows  *)
(* the registers from one call of read to the next.                        *)
(***************************************************************************)
EXTENDS BootStage1, TLAPS

RootIInv == pc = "read_root" => chs = LbaChs(ROOT_LBA) /\ (ReadUndisturbed => al = ROOT_LBA)

(* No entry that was compared is the one of BOOT.BIN.                       *)
SearchIInv ==
  /\ pc \in {"params", "read_root"} => bx = 0
  /\ pc = "search" /\ ReadUndisturbed => buffer.length = ROOT_LBA /\ bx <= bootBin
  /\ pc = "read_file" => bx < ROOT_ENTRY_COUNT

FileIInv ==
  /\ pc = "read_file" => chs = LbaChs(FileLba) /\ (ReadUndisturbed => al = FileLba % 256)
  /\ pc = "jump" /\ ReadUndisturbed /\ FileLba % 256 # 0 =>
       buffer = [start |-> FileLba, length |-> FileLba % 256]

BootIInv == TypeOK /\ RootIInv /\ SearchIInv /\ FileIInv /\ SearchIsComplete

(***************************************************************************)
(* The arithmetic of lbachs.                                               *)
(***************************************************************************)
LEMMA Divided ==
  ASSUME NEW a \in Nat, NEW n \in Nat \ {0}
  PROVE  /\ a \div n \in Nat /\ a % n \in 0 .. n - 1
         /\ a = n * (a \div n) + (a % n)
  OBVIOUS

LEMMA MulIsMonotone ==
  ASSUME NEW a \in Nat, NEW b \in Nat, NEW n \in Nat, a <= b PROVE n * a <= n * b
<1>1. PICK d \in Nat : b = a + d
  <2>1. b - a \in Nat /\ b = a + (b - a)
    OBVIOUS
  <2> QED BY <2>1
<1>2. n * b = n * a + n * d
  BY <1>1
<1>3. n * d \in Nat /\ n * a \in Nat /\ n * b \in Nat
  OBVIOUS
<1> QED BY <1>2, <1>3

LEMMA QuotientIsBelow ==
  ASSUME NEW a \in Nat, NEW n \in Nat \ {0}, NEW m \in Nat, a < m * n PROVE a \div n < m
<1> SUFFICES ASSUME m <= a \div n PROVE FALSE
  BY Divided
<1> DEFINE q == a \div n
<1>1. q \in Nat /\ a >= n * q
  BY Divided
<1>2. n * m <= n * q
  BY <1>1, MulIsMonotone
<1>3. n * m = m * n /\ n * m \in Nat /\ n * q \in Nat
  BY <1>1
<1> HIDE DEF q
<1> QED BY <1>1, <1>2, <1>3

Geometry == machine.sectors \in 1 .. 63 /\ machine.maxHead \in 0 .. 254
OnDisk(lba) == lba \in Nat /\ lba < 1024 * ((machine.maxHead + 1) * machine.sectors)

(* What lbachs makes of a sector is, to a BIOS, that sector: ten bits of    *)
(* its cylinder and six of its sector share CH and CL.                      *)
LEMMA RoundTrip ==
  ASSUME Geometry, NEW lba \in Nat, OnDisk(lba)
  PROVE  /\ LbaOf(LbaChs(lba)) = lba
         /\ LbaChs(lba) \in Addresses
<1> DEFINE S == machine.sectors
           H == machine.maxHead + 1
           track == lba \div S
           sector == lba % S
           cylinder == track \div H
           head == track % H
           cl == sector + 1 + 64 * ((cylinder \div 256) % 4)
           ch == cylinder % 256
<1>1. S \in 1 .. 63 /\ H \in 1 .. 255 /\ lba < 1024 * (H * S)
  BY DEF Geometry, OnDisk
<1>2. LbaChs(lba) = [cl |-> cl, dh |-> head, ch |-> ch]
  BY DEF LbaChs
<1>3. LbaOf([cl |-> cl, dh |-> head, ch |-> ch])
        = (((cl \div 64) * 256 + ch) * H + head) * S + (cl % 64) - 1
  BY DEF LbaOf
<1> HIDE DEF S, H
<1>4. S \in Nat \ {0} /\ H \in Nat \ {0}
  BY <1>1
<1>5. track \in Nat /\ sector \in 0 .. S - 1 /\ lba = S * track + sector
  BY <1>4, Divided
<1>6. track < 1024 * H
  <2>1. 1024 * H \in Nat /\ lba < (1024 * H) * S
    BY <1>1, <1>4
  <2> QED BY <1>4, <2>1, QuotientIsBelow
<1> HIDE DEF track, sector
<1>7. cylinder \in Nat /\ head \in 0 .. H - 1 /\ track = H * cylinder + head
  BY <1>4, <1>5, Divided
<1>8. cylinder < 1024
  BY <1>4, <1>5, <1>6, QuotientIsBelow
<1> HIDE DEF cylinder, head
<1>9. cylinder \in 0 .. 1023 /\ head \in 0 .. 254 /\ sector \in 0 .. 62
  BY <1>1, <1>5, <1>7, <1>8
<1>10. lba = (cylinder * H + head) * S + sector
  <2>1. track = cylinder * H + head /\ lba = track * S + sector
    BY <1>4, <1>5, <1>7, <1>9
  <2> QED BY <2>1, Zenon
<1>11. cl \in 0 .. 255 /\ ch \in 0 .. 255
  BY <1>9
<1>12. (cl \div 64) * 256 + ch = cylinder /\ cl % 64 = sector + 1
  BY <1>9
<1> HIDE DEF cl, ch
<1>13. LbaOf(LbaChs(lba)) = (cylinder * H + head) * S + (sector + 1) - 1
  BY <1>2, <1>3, <1>12, Zenon
<1>14. (cylinder * H + head) * S \in Int
  BY <1>4, <1>9
<1>15. LbaOf(LbaChs(lba)) = lba
  BY <1>9, <1>10, <1>13, <1>14
<1> QED BY <1>2, <1>9, <1>11, <1>15 DEF Addresses

(***************************************************************************)
(* The boot.                                                               *)
(***************************************************************************)
LEMMA MachineTyped == TypeOK => machine \in [sectors : 1 .. 63, maxHead : 0 .. 254, setsAL : BOOLEAN]
<1>1. TypeOK => machine \in MACHINES
  BY DEF TypeOK
<1> QED BY <1>1, MachinesAssumption

LEMMA FileTyped == TypeOK => file \in [cluster : Nat, size : Nat]
<1>1. TypeOK => file \in FILES
  BY DEF TypeOK
<1> QED BY <1>1, FilesAssumption

LEMMA OnThisDisk ==
  ASSUME TypeOK
  PROVE  /\ Geometry /\ OnDisk(ROOT_LBA) /\ OnDisk(FileLba)
         /\ FileLba \in Nat /\ FileLba % 256 \in 0 .. 255
<1>1. Geometry
  BY MachineTyped DEF Geometry
<1>2. FileLba \in Nat
  <2>1. file.cluster \in Nat
    BY FileTyped
  <2> QED BY <2>1 DEF FileLba
<1>3. FileLba % 256 \in 0 .. 255
  BY <1>2
<1>4. OnDisk(FileLba)
  <2>1. machine \in MACHINES /\ file \in FILES
    BY DEF TypeOK
  <2>2. file.cluster + 31 < 1024 * ((machine.maxHead + 1) * machine.sectors)
    BY <2>1, DiskAssumption
  <2> QED BY <1>2, <2>2 DEF FileLba, OnDisk
<1>5. OnDisk(ROOT_LBA)
  <2>1. PICK S \in Nat \ {0}, H \in Nat \ {0} : S = machine.sectors /\ H = machine.maxHead + 1
    <3>1. machine.sectors \in Nat \ {0} /\ machine.maxHead + 1 \in Nat \ {0}
      BY <1>1 DEF Geometry
    <3> QED BY <3>1, Zenon
  <2>2. H * S \in Nat \ {0}
    OBVIOUS
  <2> QED BY <2>1, <2>2 DEF OnDisk, ROOT_LBA
<1> QED BY <1>1, <1>2, <1>3, <1>4, <1>5

LEMMA Numbers ==
  ASSUME TypeOK
  PROVE  /\ ROOT_ENTRY_COUNT \in Nat /\ ROOT_ENTRY_COUNT <= 304 /\ MAX_TRIES \in Nat \ {0}
         /\ bootBin \in 0 .. ROOT_ENTRY_COUNT /\ bx \in 0 .. ROOT_ENTRY_COUNT
         /\ al \in 0 .. 255 /\ try_cnt \in 0 .. MAX_TRIES - 1
<1>1. ROOT_ENTRY_COUNT \in Nat /\ ROOT_ENTRY_COUNT <= 304 /\ MAX_TRIES \in Nat \ {0}
  BY RootAssumption, TriesAssumption DEF ROOT_LBA, ENTRIES_PER_SECTOR
<1>2. bootBin \in BOOT_ENTRIES /\ BOOT_ENTRIES \subseteq 0 .. ROOT_ENTRY_COUNT
  BY RootAssumption DEF TypeOK
<1> QED BY <1>1, <1>2 DEF TypeOK

LEMMA RootAddress ==
  TypeOK => LbaOf(LbaChs(ROOT_LBA)) = ROOT_LBA
            /\ LbaChs(ROOT_LBA) \in Addresses
  BY OnThisDisk, RoundTrip DEF ROOT_LBA

LEMMA FileAddress ==
  TypeOK => LbaOf(LbaChs(FileLba)) = FileLba
            /\ LbaChs(FileLba) \in Addresses
  BY OnThisDisk, RoundTrip

LEMMA BootInit == Init => BootIInv
<1> SUFFICES ASSUME Init PROVE BootIInv
  OBVIOUS
<1>1. TypeOK
  BY RootAssumption, TriesAssumption DEF Init, TypeOK, Addresses
<1>2. RootIInv /\ SearchIInv /\ FileIInv /\ SearchIsComplete
  BY DEF Init, RootIInv, SearchIInv, FileIInv, SearchIsComplete
<1> QED BY <1>1, <1>2 DEF BootIInv

(* A read that is disturbed neither now nor earlier keeps the number in AL. *)
LEMMA FailedTry ==
  ASSUME BootIInv, ReadFails
  PROVE  /\ UNCHANGED <<disk, chs, bx, buffer>> /\ al' \in 0 .. 255
         /\ try_cnt' \in 0 .. MAX_TRIES - 1
         /\ \/ pc' = "halt"
            \/ pc' = pc /\ (ReadUndisturbed' => ReadUndisturbed /\ al' = al)
<1>1. PICK p \in MovedBeforeFailure : SetsAL(p)
  BY DEF ReadFails
<1>2. p \in 0 .. 255
  <2>1. al \in 0 .. 255
    BY DEF BootIInv, TypeOK
  <2>2. p \in Nat /\ (p < al \/ p = 0)
    BY MovedAssumption DEF MovedBeforeFailure
  <2> QED BY <2>1, <2>2
<1>3. al' \in 0 .. 255 /\ (~machine.setsAL => al' = al)
  BY <1>1, <1>2 DEF SetsAL, BootIInv, TypeOK
<1>4. try_cnt' \in 0 .. MAX_TRIES - 1 /\ (pc' = "halt" \/ (pc' = pc /\ try_cnt' # 0))
  BY Numbers DEF ReadFails, BootIInv
<1> QED BY <1>3, <1>4 DEF ReadFails, ReadUndisturbed, disk

LEMMA BootStep == BootIInv /\ [Next]_vars => BootIInv'
<1> SUFFICES ASSUME BootIInv, [Next]_vars PROVE BootIInv'
  OBVIOUS
<1> TypeOK /\ RootIInv /\ SearchIInv /\ FileIInv /\ SearchIsComplete
  BY DEF BootIInv
<1> SUFFICES TypeOK' /\ RootIInv' /\ SearchIInv' /\ FileIInv' /\ SearchIsComplete'
  BY DEF BootIInv
<1>1. CASE GetParamsFails
  <2>1. pc = "params" /\ pc' = "halt" /\ UNCHANGED <<machine, file, bootBin, al, chs, try_cnt, bx, buffer>>
    BY <1>1 DEF GetParamsFails, disk
  <2>2. TypeOK'
    BY <2>1 DEF TypeOK
  <2> QED
    BY <2>1, <2>2, Numbers DEF RootIInv, SearchIInv, FileIInv, SearchIsComplete
<1>2. CASE GetParamsOk
  <2>1. /\ pc = "params" /\ pc' = "read_root" /\ try_cnt' = 0 /\ al' = 19 /\ chs' = LbaChs(ROOT_LBA)
        /\ UNCHANGED <<machine, file, bootBin, bx, buffer>>
    <3>1. 19 % 256 = 19
      OBVIOUS
    <3> QED BY <1>2, <3>1 DEF GetParamsOk, StartRead, disk, ROOT_LBA
  <2>2. LbaChs(ROOT_LBA)' = LbaChs(ROOT_LBA)
    BY <2>1 DEF LbaChs
  <2>3. TypeOK'
    BY <2>1, RootAddress, Numbers DEF TypeOK
  <2> QED
    BY <2>1, <2>2, <2>3 DEF RootIInv, SearchIInv, FileIInv, SearchIsComplete, ROOT_LBA
<1>3. CASE ReadOk
  <2>1. UNCHANGED <<machine, file, bootBin, al, chs, try_cnt>>
    BY <1>3 DEF ReadOk, disk
  <2>2. ReadUndisturbed' = ReadUndisturbed /\ FileLba' = FileLba
    BY <2>1 DEF ReadUndisturbed, FileLba
  <2>3. al \in 0 .. 255
    BY DEF TypeOK
  <2>4. CASE pc = "read_root"
    <3>1. /\ buffer' = IF al = 0 THEN buffer ELSE [start |-> ROOT_LBA, length |-> al]
          /\ bx' = 0 /\ pc' = "search"
      BY <1>3, <2>4, RootAddress DEF ReadOk, RootIInv
    <3>2. TypeOK'
      BY <2>1, <3>1, Numbers DEF TypeOK, ROOT_LBA
    <3>3. 0 <= bootBin
      BY Numbers
    <3> QED
      BY <2>2, <2>4, <2>1, <3>1, <3>2, <3>3
         DEF RootIInv, SearchIInv, FileIInv, SearchIsComplete, ROOT_LBA
  <2>5. CASE pc = "read_file"
    <3>1. /\ buffer' = IF al = 0 THEN buffer ELSE [start |-> FileLba, length |-> al]
          /\ bx' = bx /\ pc' = "jump"
      BY <1>3, <2>5, FileAddress DEF ReadOk, FileIInv
    <3>2. TypeOK'
      BY <2>1, <2>3, <3>1, OnThisDisk DEF TypeOK
    <3> QED
      BY <2>1, <2>2, <2>5, <3>1, <3>2 DEF RootIInv, SearchIInv, FileIInv, SearchIsComplete
  <2> QED BY <1>3, <2>4, <2>5 DEF ReadOk, Reading
<1>4. CASE ReadFails
  <2>1. /\ UNCHANGED <<machine, file, bootBin, chs, bx, buffer>> /\ al' \in 0 .. 255
        /\ try_cnt' \in 0 .. MAX_TRIES - 1 /\ pc \in {"read_root", "read_file"}
        /\ \/ pc' = "halt"
           \/ pc' = pc /\ (ReadUndisturbed' => ReadUndisturbed /\ al' = al)
    BY <1>4, FailedTry DEF ReadFails, Reading, disk
  <2>2. LbaChs(ROOT_LBA)' = LbaChs(ROOT_LBA) /\ LbaChs(FileLba)' = LbaChs(FileLba) /\ FileLba' = FileLba
    BY <2>1 DEF LbaChs, FileLba, ROOT_LBA
  <2>3. TypeOK'
    BY <2>1 DEF TypeOK
  <2>4. ASSUME pc = "read_root", bx = ROOT_ENTRY_COUNT PROVE bootBin = ROOT_ENTRY_COUNT
    <3>1. bx = 0
      BY <2>4 DEF SearchIInv
    <3> QED BY <2>4, <3>1, Numbers
  <2>5. pc = "read_file" => bx # ROOT_ENTRY_COUNT
    <3>1. pc = "read_file" => bx < ROOT_ENTRY_COUNT
      BY DEF SearchIInv
    <3> QED BY <3>1, Numbers
  <2>6. CASE pc' = "halt"
    BY <2>1, <2>3, <2>4, <2>5, <2>6 DEF RootIInv, SearchIInv, FileIInv, SearchIsComplete
  <2>7. CASE pc' = pc /\ (ReadUndisturbed' => ReadUndisturbed /\ al' = al)
    BY <2>1, <2>2, <2>3, <2>7 DEF RootIInv, SearchIInv, FileIInv, SearchIsComplete
  <2> QED BY <2>1, <2>6, <2>7
<1>5. CASE EntryDiffers
  <2>1. /\ bx' = bx + 1 /\ bx < ROOT_ENTRY_COUNT /\ pc = "search" /\ ~IsBootBin(bx)
        /\ UNCHANGED <<machine, file, bootBin, pc, al, chs, try_cnt, buffer>>
    BY <1>5 DEF EntryDiffers, disk
  <2>2. /\ bx \in Nat /\ bootBin \in Nat /\ bootBin <= ROOT_ENTRY_COUNT
        /\ ROOT_ENTRY_COUNT \in Nat /\ ROOT_ENTRY_COUNT <= 304
    BY Numbers
  <2>3. ReadUndisturbed => bx # bootBin
    <3>1. bx \div 16 < 19
      BY <2>1, <2>2
    <3> QED
      BY <2>1, <3>1 DEF IsBootBin, InBuffer, SearchIInv, ROOT_LBA, ENTRIES_PER_SECTOR
  <2>4. ReadUndisturbed' = ReadUndisturbed
    BY <2>1 DEF ReadUndisturbed
  <2>5. TypeOK'
    BY <2>1, <2>2 DEF TypeOK
  <2>6. SearchIInv'
    BY <2>1, <2>2, <2>3, <2>4 DEF SearchIInv
  <2> QED BY <2>1, <2>5, <2>6 DEF RootIInv, FileIInv, SearchIsComplete
<1>6. CASE NotFound
  <2>1. /\ pc = "search" /\ pc' = "halt" /\ bx >= ROOT_ENTRY_COUNT
        /\ UNCHANGED <<machine, file, bootBin, al, chs, try_cnt, bx, buffer>>
    BY <1>6 DEF NotFound, disk
  <2>2. bootBin \in 0 .. ROOT_ENTRY_COUNT /\ ROOT_ENTRY_COUNT \in Nat
    BY Numbers
  <2>3. TypeOK'
    BY <2>1 DEF TypeOK
  <2>4. SearchIsComplete'
    BY <2>1, <2>2 DEF SearchIInv, SearchIsComplete, ReadUndisturbed
  <2> QED BY <2>1, <2>3, <2>4 DEF RootIInv, SearchIInv, FileIInv
<1>7. CASE DivideError
  <2>1. pc' = "divide_error" /\ UNCHANGED <<machine, file, bootBin, al, chs, try_cnt, bx, buffer>>
    BY <1>7 DEF DivideError, disk
  <2>2. TypeOK'
    BY <2>1 DEF TypeOK
  <2> QED BY <2>1, <2>2 DEF RootIInv, SearchIInv, FileIInv, SearchIsComplete
<1>8. CASE LoadBoots2
  <2>1. /\ pc' = "read_file" /\ try_cnt' = 0 /\ al' = FileLba % 256 /\ chs' = LbaChs(FileLba)
        /\ UNCHANGED <<machine, file, bootBin, bx, buffer>> /\ bx < ROOT_ENTRY_COUNT
    BY <1>8 DEF LoadBoots2, StartRead, IsBootBin, FileLba, disk
  <2>2. LbaChs(FileLba)' = LbaChs(FileLba) /\ FileLba' = FileLba
    BY <2>1 DEF LbaChs, FileLba
  <2>3. TypeOK'
    BY <2>1, FileAddress, OnThisDisk, Numbers DEF TypeOK
  <2> QED BY <2>1, <2>2, <2>3 DEF RootIInv, SearchIInv, FileIInv, SearchIsComplete
<1>9. CASE UNCHANGED vars
  <2>1. UNCHANGED <<machine, file, bootBin, pc, al, chs, try_cnt, bx, buffer>>
    BY <1>9 DEF vars, disk
  <2>2. TypeOK'
    BY <2>1 DEF TypeOK
  <2>3. RootIInv' /\ FileIInv'
    BY <2>1 DEF RootIInv, FileIInv, ReadUndisturbed, FileLba, LbaChs
  <2> QED BY <2>1, <2>2, <2>3 DEF SearchIInv, SearchIsComplete, ReadUndisturbed
<1> QED BY <1>1, <1>2, <1>3, <1>4, <1>5, <1>6, <1>7, <1>8, <1>9 DEF Next

(* What the registers hold at each instruction follows from what the disk   *)
(* is, in every behaviour of the boot sector.                               *)
THEOREM BootInvariant == Spec => []BootIInv
  BY BootInit, BootStep, PTL DEF Spec

(* The registers keep to their widths, and the search stays in the          *)
(* directory.                                                               *)
THEOREM BootTyped == Spec => []TypeOK
  BY BootInvariant, PTL DEF BootIInv

(* Every read begins at the sector that was meant, on every geometry.       *)
THEOREM ReadsAreMeant == Spec => []ReadsWhereMeant
<1>1. BootIInv => ReadsWhereMeant
  BY RootAddress, FileAddress DEF BootIInv, RootIInv, FileIInv, ReadsWhereMeant, Reading
<1> QED BY <1>1, BootInvariant, PTL

(* That there is no BOOT.BIN is said only if there is none, in directories  *)
(* up to what is read of them, as long as no failed read changed AL.        *)
THEOREM NoEntryIsMissed == Spec => []SearchIsComplete
  BY BootInvariant, PTL DEF BootIInv

(* BOOT.BIN is in the buffer when it is jumped to, if the number that is    *)
(* read of it is enough.                                                    *)
THEOREM BootBinRuns == Spec => []RunsBootBin
<1>1. BootIInv => RunsBootBin
  BY OnThisDisk, FilesAssumption DEF BootIInv, FileIInv, TypeOK, RunsBootBin, FileLoaded
<1> QED BY <1>1, BootInvariant, PTL
=============================================================================
