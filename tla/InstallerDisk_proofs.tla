-------------------------- MODULE InstallerDisk_proofs --------------------------
(***************************************************************************)
(* Proofs about disk_read and the switches of mode it makes, for every     *)
(* size of a page and of the page tables, every depth of the stack, every  *)
(* set of requests and every way a read of the BIOS may fail.              *)
(***************************************************************************)
EXTENDS InstallerDisk, TLAPS

(***************************************************************************)
(* disk_read.  The packet never asks for more than the call did, and no    *)
(* attempt moves more than the packet asks for: so a read that real mode   *)
(* does itself writes nothing else, and the last attempt, if it succeeds,  *)
(* moves all that the packet asks for.  A read of less than a page copies  *)
(* what that attempt moved, and the copy is long enough.                   *)
(***************************************************************************)

(* What ReadsAreExact says of a call that is over.                          *)
Exact ==
  req.direct =>
    \A k \in Dest :
      IF k < left THEN Right(k) ELSE dest[k] = UNTOUCHED \/ (k < req.count /\ Right(k))
ShortRight ==
  ~req.direct /\ req.count < BUFFER_PG_SIZE => \A k \in 0 .. req.count - 1 : k < left => Right(k)

ReadDone == tries = RETURNED /\ result = 0

TypeIInv ==
  /\ req \in [count : Nat, lba : Nat, direct : BOOLEAN]
  /\ req.count <= DEST_SIZE
  /\ pc \in {"idle", "direct", "page", "last", "param"}
  /\ page \in Nat /\ tries \in 0 .. RETURNED /\ left \in Nat
  /\ buffer \in [0 .. BUFFER_ROOM - 1 -> Int] /\ dest \in [Dest -> Int]

PlaceIInv ==
  /\ pc = "direct" => req.direct
  /\ pc \in {"page", "last"} => ~req.direct
  /\ pc = "page" => req.count >= BUFFER_PG_SIZE
  /\ pc = "last" /\ req.count < BUFFER_PG_SIZE => page = 0

PacketIsSmaller == Asked /\ tries > 0 => left <= Wanted

NothingIsWrong ==
  pc = "direct" =>
    \A k \in Dest : dest[k] = UNTOUCHED \/ (k < req.count /\ Right(k))

DirectIsRead == pc = "direct" /\ ReadDone => \A k \in Dest : k < left => Right(k)

BufferIsRead ==
  pc = "last" /\ req.count < BUFFER_PG_SIZE /\ ReadDone =>
    \A k \in 0 .. req.count - 1 : k < left => buffer[k] = req.lba + k

OverIsRight == pc \in {"idle", "param"} /\ status = 0 => Exact /\ ShortRight

ReadIInv ==
  /\ TypeIInv /\ PlaceIInv /\ PacketIsSmaller /\ NothingIsWrong
  /\ DirectIsRead /\ BufferIsRead /\ OverIsRight

LEMMA ReadInit == Init => ReadIInv
<1> SUFFICES ASSUME Init PROVE ReadIInv
  OBVIOUS
<1> USE PageAssumption, DestAssumption
<1>1. TypeIInv
  BY DEF Init, TypeIInv, RETURNED, STALE, UNTOUCHED
<1>2. PlaceIInv /\ PacketIsSmaller /\ NothingIsWrong /\ DirectIsRead /\ BufferIsRead
  BY DEF Init, PlaceIInv, PacketIsSmaller, NothingIsWrong, DirectIsRead, BufferIsRead
<1>3. OverIsRight
  BY DEF Init, OverIsRight, Exact, ShortRight
<1> QED BY <1>1, <1>2, <1>3 DEF ReadIInv

LEMMA FromIsInt == TypeIInv => From \in Int
  BY PageAssumption DEF TypeIInv, From

LEMMA WantedIsNat == TypeIInv /\ Asked => Wanted \in Nat
  BY PageAssumption DEF TypeIInv, Wanted, Asked, LastPageCount

LEMMA CallsStep == ReadIInv /\ Calls => ReadIInv'
<1> SUFFICES ASSUME ReadIInv, Calls PROVE ReadIInv'
  OBVIOUS
<1>1. CASE CallGetParam
  BY <1>1 DEF CallGetParam, memory, ReadIInv, TypeIInv, PlaceIInv, PacketIsSmaller, NothingIsWrong,
     DirectIsRead, BufferIsRead, OverIsRight, Asked, Exact, ShortRight, Right, RETURNED
<1>2. ASSUME NEW r \in REQUESTS, NEW direct \in BOOLEAN, Call(r, direct)
      PROVE  ReadIInv'
  <2>1. /\ req' = [count |-> r.count, lba |-> r.lba, direct |-> direct]
        /\ tries' = 0 /\ dest' = [k \in Dest |-> UNTOUCHED] /\ page' = 0
        /\ pc' = IF direct THEN "direct"
                 ELSE IF r.count >= BUFFER_PG_SIZE THEN "page" ELSE "last"
        /\ UNCHANGED <<left, buffer>>
    BY <1>2 DEF Call, Requested
  <2>2. r.count \in Nat /\ r.lba \in Nat
    BY RequestAssumption
  <2>3. r.count <= DEST_SIZE
    <3>1. r.count + BUFFER_PG_SIZE * BUFFER_PG_SIZE <= DEST_SIZE /\ DEST_SIZE \in Nat
      BY DestAssumption
    <3>2. BUFFER_PG_SIZE * BUFFER_PG_SIZE \in Nat
      BY PageAssumption
    <3> QED BY <2>2, <3>1, <3>2
  <2>4. TypeIInv'
    BY <2>1, <2>2, <2>3 DEF ReadIInv, TypeIInv, RETURNED, UNTOUCHED
  <2>5. /\ PlaceIInv' /\ PacketIsSmaller' /\ NothingIsWrong'
        /\ DirectIsRead' /\ BufferIsRead' /\ OverIsRight'
    BY <2>1, <2>2, PageAssumption
       DEF PlaceIInv, PacketIsSmaller, NothingIsWrong, DirectIsRead, BufferIsRead, OverIsRight,
       ReadDone, RETURNED
  <2> QED BY <2>4, <2>5 DEF ReadIInv
<1> QED BY <1>1, <1>2 DEF Calls

(* A read of n sectors, in either memory, leaves all of the invariant but   *)
(* what is said of a read that is over; and reads what it was asked for.    *)
LEMMA ReadMoves ==
  ASSUME ReadIInv, Asked, NEW n \in Nat, n <= Wanted, Read(n)
  PROVE  /\ buffer' \in [0 .. BUFFER_ROOM - 1 -> Int] /\ dest' \in [Dest -> Int]
         /\ pc = "direct" =>
              \A k \in Dest : dest'[k] = IF k < n THEN req.lba + k ELSE dest[k]
         /\ pc = "last" /\ req.count < BUFFER_PG_SIZE =>
              \A k \in 0 .. BUFFER_ROOM - 1 : k < n => buffer'[k] = req.lba + k
<1> TypeIInv /\ From \in Int
  BY FromIsInt DEF ReadIInv
<1>1. CASE pc = "direct"
  <2>1. dest' = Transfer(dest, n) /\ buffer' = buffer /\ From = req.lba
    BY <1>1 DEF Read, From
  <2>2. dest \in [Dest -> Int] /\ Dest \subseteq Int
    BY DestAssumption DEF TypeIInv, Dest
  <2> QED BY <1>1, <2>1, <2>2 DEF Transfer, TypeIInv
<1>2. CASE pc # "direct"
  <2>1. buffer' = Transfer(buffer, n) /\ dest' = dest
    BY <1>2 DEF Read
  <2>2. buffer \in [0 .. BUFFER_ROOM - 1 -> Int] /\ 0 .. BUFFER_ROOM - 1 \subseteq Int
    BY PageAssumption DEF TypeIInv
  <2>3. pc = "last" /\ req.count < BUFFER_PG_SIZE => From = req.lba
    BY PageAssumption DEF From, ReadIInv, PlaceIInv, TypeIInv
  <2>4. /\ buffer' \in [0 .. BUFFER_ROOM - 1 -> Int]
        /\ \A k \in 0 .. BUFFER_ROOM - 1 : buffer'[k] = IF k < n THEN From + k ELSE buffer[k]
    BY <2>1, <2>2 DEF Transfer
  <2> QED BY <1>2, <2>1, <2>3, <2>4 DEF TypeIInv
<1> QED BY <1>1, <1>2

LEMMA SmallRest ==
  ASSUME NEW a \in Nat, NEW b \in Nat, a < b PROVE a % b = a
  OBVIOUS

(* The size of the last part of a read of less than a page is all of it.    *)
LEMMA LastPartOfShort ==
  ASSUME TypeIInv, req.count < BUFFER_PG_SIZE PROVE LastPageCount = req.count
  BY SmallRest, PageAssumption DEF TypeIInv, LastPageCount

(* The reads of the BIOS: n sectors are moved, and the read is over with    *)
(* result r, or is tried again with a packet that asks for no more.         *)
LEMMA ReadStep ==
  ASSUME ReadIInv, Asked, tries > 0, NEW n \in Nat, n <= left, Read(n),
         UNCHANGED <<req, pc, page, status>>, tries' \in 0 .. RETURNED,
         left' \in Nat, left' <= left, ReadDone' => n = left /\ left' = left
  PROVE  ReadIInv'
<1>1. Wanted \in Nat /\ left \in Nat /\ left <= Wanted /\ n <= Wanted
  BY WantedIsNat DEF ReadIInv, PacketIsSmaller, TypeIInv
<1>2. /\ buffer' \in [0 .. BUFFER_ROOM - 1 -> Int] /\ dest' \in [Dest -> Int]
      /\ pc = "direct" =>
           \A k \in Dest : dest'[k] = IF k < n THEN req.lba + k ELSE dest[k]
      /\ pc = "last" /\ req.count < BUFFER_PG_SIZE =>
           \A k \in 0 .. BUFFER_ROOM - 1 : k < n => buffer'[k] = req.lba + k
  BY <1>1, ReadMoves
<1>3. TypeIInv' /\ PlaceIInv'
  BY <1>2 DEF ReadIInv, TypeIInv, PlaceIInv
<1>4. PacketIsSmaller'
  <2>1. Wanted' = Wanted
    BY DEF Wanted, LastPageCount
  <2> QED
    BY <1>1, <2>1 DEF PacketIsSmaller
<1>5. NothingIsWrong' /\ DirectIsRead'
  <2> SUFFICES ASSUME pc = "direct" PROVE NothingIsWrong' /\ DirectIsRead'
    BY DEF NothingIsWrong, DirectIsRead
  <2>1. Wanted = req.count /\ req.count \in Nat
    BY DEF Wanted, ReadIInv, TypeIInv
  <2>2. Dest \subseteq Int
    BY DestAssumption DEF Dest
  <2>3. \A k \in Dest : dest[k] = UNTOUCHED \/ (k < req.count /\ dest[k] = req.lba + k)
    BY DEF ReadIInv, NothingIsWrong, Right
  <2>4. NothingIsWrong'
    BY <1>1, <1>2, <2>1, <2>2, <2>3 DEF NothingIsWrong, Right
  <2>5. DirectIsRead'
    BY <1>2 DEF DirectIsRead, Right
  <2> QED BY <2>4, <2>5
<1>6. BufferIsRead'
  <2> SUFFICES ASSUME pc = "last", req.count < BUFFER_PG_SIZE, n = left, left' = left
               PROVE  BufferIsRead'
    BY DEF BufferIsRead
  <2>1. Wanted = req.count /\ req.count \in Nat
    BY LastPartOfShort DEF Wanted, ReadIInv, TypeIInv
  <2>2. 0 .. req.count - 1 \subseteq 0 .. BUFFER_ROOM - 1
    BY <2>1, RoomAssumption, PageAssumption
  <2> QED
    BY <1>2, <2>1, <2>2 DEF BufferIsRead
<1>7. OverIsRight'
  BY DEF OverIsRight, Asked
<1> QED BY <1>3, <1>4, <1>5, <1>6, <1>7 DEF ReadIInv

(* An attempt that fails.                                                   *)
LEMMA FailedAttempt ==
  ASSUME ReadIInv, Asked, tries > 0, AttemptFails,
         UNCHANGED <<req, pc, page, status>>, tries' \in 0 .. RETURNED, ~ReadDone'
  PROVE  ReadIInv'
<1>1. PICK p \in MovedBeforeFailure : Read(p) /\ left' \in {left, p}
  BY DEF AttemptFails
<1>2. p \in Nat /\ p <= left /\ left \in Nat
  BY PartialAssumption DEF MovedBeforeFailure, ReadIInv, TypeIInv
<1> QED BY <1>1, <1>2, ReadStep

LEMMA BiosStep == ReadIInv /\ Int13 => ReadIInv'
<1> SUFFICES ASSUME ReadIInv, Int13 PROVE ReadIInv'
  OBVIOUS
<1>1. ASSUME UNCHANGED <<req, pc, page, memory, status>>, tries' \in 0 .. RETURNED, FillPacket,
             ReadDone' => pc = "param"
      PROVE  ReadIInv'
  <2>1. CASE Asked
    <3>1. left' = Wanted /\ Wanted' = Wanted /\ Wanted \in Nat
      BY <1>1, <2>1, WantedIsNat DEF FillPacket, Wanted, LastPageCount, ReadIInv
    <3>2. TypeIInv' /\ PlaceIInv' /\ PacketIsSmaller' /\ OverIsRight'
      BY <1>1, <2>1, <3>1 DEF ReadIInv, TypeIInv, PlaceIInv, PacketIsSmaller, OverIsRight, Asked, memory
    <3>3. NothingIsWrong' /\ DirectIsRead' /\ BufferIsRead'
      BY <1>1, <2>1 DEF ReadIInv, NothingIsWrong, DirectIsRead, BufferIsRead, Asked, Right, memory
    <3> QED BY <3>2, <3>3 DEF ReadIInv
  <2>2. CASE ~Asked
    BY <1>1, <2>2 DEF FillPacket, ReadIInv, TypeIInv, PlaceIInv, PacketIsSmaller, NothingIsWrong,
       DirectIsRead, BufferIsRead, OverIsRight, Exact, ShortRight, Right, memory, Asked
  <2> QED BY <2>1, <2>2
<1>2. CASE ResetOk
  BY <1>1, <1>2 DEF ResetOk, ReadDone, RETURNED
<1>3. CASE ResetFails
  BY <1>1, <1>3 DEF ResetFails, Finish, ReadDone, RETURNED, ERROR, memory
<1>4. CASE ReadOk
  <2>1. left \in Nat
    BY DEF ReadIInv, TypeIInv
  <2> QED
    BY <1>4, <2>1, ReadStep DEF ReadOk, Finish, RETURNED
<1>5. CASE ReadRetried
  BY <1>5, FailedAttempt DEF ReadRetried, RETURNED, ReadDone
<1>6. CASE ReadGivenUp
  BY <1>6, FailedAttempt DEF ReadGivenUp, Finish, RETURNED, ReadDone, ERROR
<1>7. CASE GetParamReturns
  <2>1. FillPacket
    BY <1>7 DEF GetParamReturns, FillPacket, Asked
  <2> QED
    BY <1>1, <1>7, <2>1 DEF GetParamReturns, Finish, RETURNED, memory
<1> QED BY <1>2, <1>3, <1>4, <1>5, <1>6, <1>7 DEF Int13

LEMMA CopiedHasType ==
  ASSUME TypeIInv, NEW size \in Nat
  PROVE  /\ Copied(size) \in [Dest -> Int]
         /\ \A k \in Dest :
              LET b == k - page * BUFFER_PG_SIZE
              IN  b \in 0 .. size - 1 /\ b < BUFFER_ROOM => Copied(size)[k] = buffer[b]
<1>1. \A k \in Dest : k - page * BUFFER_PG_SIZE \in Int
  BY PageAssumption, DestAssumption DEF TypeIInv, Dest
<1>2. \A k \in Dest :
        LET b == k - page * BUFFER_PG_SIZE
        IN  b \in 0 .. size - 1 /\ b < BUFFER_ROOM => buffer[b] \in Int
  BY <1>1, PageAssumption DEF TypeIInv
<1> QED
  BY <1>1, <1>2 DEF Copied, TypeIInv, TEXT

LEMMA GoOnStep == ReadIInv /\ GoOn => ReadIInv'
<1> SUFFICES ASSUME ReadIInv, GoOn PROVE ReadIInv'
  OBVIOUS
<1>1. CASE DirectDone
  <2>1. /\ UNCHANGED <<req, left, buffer, dest, page>> /\ tries' = 0 /\ pc' = "idle"
        /\ pc = "direct" /\ tries = RETURNED /\ status' = result /\ req.direct
    BY <1>1 DEF DirectDone, Back, Return, ReadIInv, PlaceIInv
  <2>2. result = 0 => Exact
    BY <2>1, DestAssumption
       DEF ReadIInv, TypeIInv, NothingIsWrong, DirectIsRead, ReadDone, Exact, Dest
  <2>3. OverIsRight'
    BY <2>1, <2>2 DEF OverIsRight, Exact, ShortRight, Right
  <2> QED
    BY <2>1, <2>3 DEF ReadIInv, TypeIInv, PlaceIInv, PacketIsSmaller, NothingIsWrong, DirectIsRead,
       BufferIsRead, RETURNED
<1>2. CASE PageDone
  <2>1. dest' \in [Dest -> Int]
    BY <1>2, CopiedHasType, PageAssumption DEF PageDone, ReadIInv
  <2>2. /\ UNCHANGED <<req, left, buffer>> /\ tries' = 0 /\ page' = page + 1 /\ pc = "page"
        /\ pc' \in {"page", "last"}
    BY <1>2 DEF PageDone, Back, NextPage
  <2> QED
    BY <2>1, <2>2, PageAssumption DEF ReadIInv, TypeIInv, PlaceIInv, PacketIsSmaller, NothingIsWrong,
       DirectIsRead, BufferIsRead, OverIsRight, ReadDone, RETURNED
<1>3. CASE LastFails
  BY <1>3 DEF LastFails, Back, Return, ReadIInv, TypeIInv, PlaceIInv, PacketIsSmaller, NothingIsWrong,
     DirectIsRead, BufferIsRead, OverIsRight, Exact, ShortRight, Right, ReadDone, RETURNED
<1>4. CASE LastDone
  <2>1. /\ UNCHANGED <<req, left, buffer, page>> /\ tries' = 0 /\ pc = "last" /\ pc' = "idle"
        /\ dest' = Copied(LastCopySize) /\ ReadDone /\ ~req.direct
    BY <1>4 DEF LastDone, Back, Return, ReadDone, ReadIInv, PlaceIInv
  <2>2. LastPageCount \in Nat /\ LastCopySize \in Nat /\ LastPageCount <= LastCopySize
    BY PageAssumption, SMTT(60) DEF LastCopySize, LastPageCount, ReadIInv, TypeIInv
  <2>3. dest' \in [Dest -> Int]
    BY <2>1, <2>2, CopiedHasType DEF ReadIInv
  <2>4. ShortRight'
    <3> SUFFICES ASSUME req.count < BUFFER_PG_SIZE, NEW k \in 0 .. req.count - 1, k < left
                 PROVE  dest'[k] = req.lba + k
      BY <2>1 DEF ShortRight, Right
    <3>1. page = 0 /\ LastPageCount = req.count /\ req.count \in Nat /\ req.count <= DEST_SIZE
      BY <2>1, LastPartOfShort DEF ReadIInv, PlaceIInv, TypeIInv
    <3>2. k \in Dest /\ k \in 0 .. LastCopySize - 1 /\ k < BUFFER_ROOM
      BY <2>2, <3>1, RoomAssumption, PageAssumption, DestAssumption DEF Dest
    <3>3. k - page * BUFFER_PG_SIZE = k
      BY <3>1, <3>2, PageAssumption
    <3>4. Copied(LastCopySize)[k] = buffer[k]
      BY <2>2, <3>2, <3>3, CopiedHasType DEF ReadIInv
    <3> QED
      BY <2>1, <3>4 DEF ReadIInv, BufferIsRead
  <2> QED
    BY <2>1, <2>3, <2>4 DEF ReadIInv, TypeIInv, PlaceIInv, PacketIsSmaller, NothingIsWrong, DirectIsRead,
       BufferIsRead, OverIsRight, Exact, ReadDone, RETURNED
<1>5. CASE GetParamDone
  BY <1>5 DEF GetParamDone, Back, ReadIInv, TypeIInv, PlaceIInv, PacketIsSmaller, NothingIsWrong,
     DirectIsRead, BufferIsRead, OverIsRight, Exact, ShortRight, Right, ReadDone, RETURNED
<1> QED BY <1>1, <1>2, <1>3, <1>4, <1>5 DEF GoOn

LEMMA ReadStepAny == ReadIInv /\ [Next]_vars => ReadIInv'
<1>1. ReadIInv /\ UNCHANGED vars => ReadIInv'
  BY DEF vars, memory, ReadIInv, TypeIInv, PlaceIInv, PacketIsSmaller, NothingIsWrong, DirectIsRead,
     BufferIsRead, OverIsRight, Exact, ShortRight, Right, ReadDone, Asked, Wanted, LastPageCount
<1> QED BY <1>1, CallsStep, BiosStep, GoOnStep DEF Next

LEMMA ReadIInvImplies == ReadIInv => ReadsAreExact
  BY DEF ReadIInv, OverIsRight, Exact, ShortRight, ReadsAreExact, DirectIsExact, ShortReadIsRight, Succeeded

(* Every read that real mode does itself, and every read of less than a     *)
(* page, that returns 0 has put the sectors its packet asks for where they  *)
(* belong; and a direct one, whatever failed before, no wrong sector        *)
(* anywhere and none past what was asked for.                               *)
THEOREM ReadsExact == Spec => []ReadsAreExact
  BY ReadInit, ReadStepAny, ReadIInvImplies, PTL DEF Spec

(***************************************************************************)
(* The switches of mode.  The switch of the processor is a straight line   *)
(* of instructions, so that the state of the processor is a function of    *)
(* the next one (CpuHere); the stack pointer is in last_esp whenever it is *)
(* not in ESP; and the tables are full once they are loaded.  The three    *)
(* together are inductive.                                                 *)
(***************************************************************************)

Filling == {"fill", "enable"}
OnOwnStack == Filling \cup {"protected"}
Real == {"jump0", "data0", "sti", "real", "protect"}

CpuHere ==
  [PE   |-> at \notin Real,
   PG   |-> at \notin Filling \cup {"code16", "unprotect"} \cup Real,
   INT  |-> at = "real",
   CR3  |-> at # "fill",
   CS   |-> IF at \in {"unprotect", "jump0"} THEN CODE16_SEG
            ELSE IF at \in {"data0", "sti", "real", "protect", "code"} THEN NULL_SEG ELSE CODE_SEG,
   bits |-> IF at \in {"unprotect", "code"} \cup Real THEN 16 ELSE 32,
   data |-> IF at \in {"unpage", "code16", "unprotect", "jump0", "data0"} THEN DATA16_SEG
            ELSE IF at \in {"sti", "real", "protect", "code", "data"} THEN NULL_SEG ELSE DATA_SEG,
   wide |-> IF at \in {"unpage", "code16", "unprotect", "code", "data"} \cup Real THEN 16 ELSE 32,
   ESP  |-> IF at \in OnOwnStack THEN depth ELSE LOW_STACK]

StackIsKept == at \notin OnOwnStack => last_esp = depth

TablesAreRight ==
  /\ kernel_table \in [Entries -> Int] /\ directory_table \in [Entries -> Int]
  /\ \A i \in Entries : kernel_table[i] \in {ABSENT, i} /\ directory_table[i] \in {ABSENT, KERNEL_TABLE}
  /\ \A i \in Entries : directory_table[i] # ABSENT => Full(kernel_table)
  /\ at # "fill" => Full(kernel_table) /\ Full(directory_table)

Places == {"fill", "enable", "protected", "data16", "unpage", "code16", "unprotect", "jump0",
           "data0", "sti", "real", "protect", "code", "data", "stack"}

ModeIInv ==
  /\ cpu = CpuHere
  /\ StackIsKept
  /\ TablesAreRight
  /\ at \in Places /\ last_esp \in Nat /\ depth \in DEPTHS

LEMMA ModesInit == DiskInit => ModeIInv
<1> SUFFICES ASSUME ModeInit PROVE ModeIInv
  BY DEF DiskInit
<1>1. cpu = CpuHere
  BY DEF ModeInit, CpuHere, Filling, OnOwnStack, Real
<1>2. StackIsKept /\ TablesAreRight
  BY DEF ModeInit, StackIsKept, TablesAreRight, OnOwnStack, Filling, ABSENT
<1>3. at \in Places /\ last_esp \in Nat /\ depth \in DEPTHS
  BY DEF ModeInit, Places
<1> QED BY <1>1, <1>2, <1>3 DEF ModeIInv

(* The values of CpuHere.                                                   *)
LEMMA CpuHasType ==
  ASSUME depth \in Nat PROVE
  CpuHere \in [PE : BOOLEAN, PG : BOOLEAN, INT : BOOLEAN, CR3 : BOOLEAN,
               CS : {CODE_SEG, CODE16_SEG, NULL_SEG}, bits : {16, 32},
               data : {DATA_SEG, DATA16_SEG, NULL_SEG}, wide : {16, 32}, ESP : Nat]
  BY DEF CpuHere, LOW_STACK

LEMMA TablesKeep == ModeIInv /\ PagingInit => TablesAreRight'
<1> SUFFICES ASSUME TablesAreRight, PagingInit PROVE TablesAreRight'
  BY DEF ModeIInv
<1>1. CASE FillKernelTable
  <2>1. PICK i \in Entries : kernel_table' = [kernel_table EXCEPT ![i] = i]
    BY <1>1 DEF FillKernelTable
  <2>2. kernel_table' \in [Entries -> Int] /\ \A j \in Entries : kernel_table'[j] \in {ABSENT, j}
    BY <2>1 DEF TablesAreRight, Entries
  <2>3. Full(kernel_table) => Full(kernel_table)'
    BY <2>1, PagingAssumption DEF TablesAreRight, Entries, Full, ABSENT
  <2> QED
    BY <1>1, <2>2, <2>3 DEF FillKernelTable, TablesAreRight, Full
<1>2. CASE FillDirectory
  <2>1. PICK i \in Entries : directory_table' = [directory_table EXCEPT ![i] = KERNEL_TABLE]
    BY <1>2 DEF FillDirectory
  <2>2. /\ directory_table' \in [Entries -> Int]
        /\ \A j \in Entries : directory_table'[j] \in {ABSENT, KERNEL_TABLE}
    BY <2>1, PagingAssumption DEF TablesAreRight, Entries
  <2> QED
    BY <1>2, <2>2 DEF FillDirectory, TablesAreRight, Full
<1>3. CASE LoadPageDirectory
  <2>1. 0 \in Entries
    BY PagingAssumption DEF Entries
  <2>2. Full(kernel_table) /\ Full(directory_table)
    BY <1>3, <2>1 DEF LoadPageDirectory, TablesAreRight, Full
  <2> QED
    BY <1>3, <2>2 DEF LoadPageDirectory, TablesAreRight, tables, Full
<1>4. CASE EnablePaging
  BY <1>4 DEF EnablePaging, TablesAreRight, tables, Full
<1> QED BY <1>1, <1>2, <1>3, <1>4 DEF PagingInit

LEMMA PagingKeeps ==
  ModeIInv /\ PagingInit =>
    cpu' = CpuHere' /\ StackIsKept' /\ at' \in {"fill", "enable", "protected"}
<1> SUFFICES ASSUME ModeIInv, PagingInit
             PROVE cpu' = CpuHere' /\ StackIsKept' /\ at' \in {"fill", "enable", "protected"}
  OBVIOUS
<1> USE DEF CpuHere, StackIsKept, Filling, OnOwnStack, Real
<1>1. CASE FillKernelTable
  BY <1>1 DEF FillKernelTable, ModeIInv
<1>2. CASE FillDirectory
  BY <1>2 DEF FillDirectory, ModeIInv
<1>3. CASE LoadPageDirectory
  BY <1>3, ZenonT(60) DEF LoadPageDirectory, ModeIInv
<1>4. CASE EnablePaging
  BY <1>4, ZenonT(60) DEF EnablePaging, ModeIInv
<1> QED BY <1>1, <1>2, <1>3, <1>4 DEF PagingInit

(* The instructions of the two macros, in their order.                      *)
Macros == SaveStack \/ RealMode \/ DisableInterrupts \/ ProtectedMode

LEMMA SaveStackKeeps ==
  cpu = CpuHere /\ SaveStack => cpu' = CpuHere' /\ last_esp' = depth' /\ at' = "data16"
<1> SUFFICES ASSUME cpu = CpuHere, SaveStack
             PROVE  cpu' = CpuHere' /\ last_esp' = depth' /\ at' = "data16"
  OBVIOUS
<1>1. /\ at = "protected" /\ at' = "data16" /\ depth' = depth
      /\ cpu' = [cpu EXCEPT !.ESP = LOW_STACK] /\ last_esp' = cpu.ESP
  BY DEF SaveStack, Instruction
<1>2. cpu.ESP = depth
  BY <1>1 DEF CpuHere, OnOwnStack
<1> QED
  BY <1>1, <1>2 DEF CpuHere, Filling, OnOwnStack, Real

LEMMA RealModeKeeps ==
  cpu = CpuHere /\ RealMode =>
    cpu' = CpuHere' /\ at \notin OnOwnStack /\ at' \in Places \ Filling
                    /\ UNCHANGED <<last_esp, depth, tables>>
<1> SUFFICES ASSUME cpu = CpuHere, RealMode
             PROVE  /\ cpu' = CpuHere' /\ at \notin OnOwnStack /\ at' \in Places \ Filling
                    /\ UNCHANGED <<last_esp, depth, tables>>
  OBVIOUS
<1> USE Text16Assumption DEF CpuHere, Filling, OnOwnStack, Real, Instruction, Places, GDT, LoadCS, LoadData,
        CODE_SEG, DATA_SEG, CODE16_SEG, DATA16_SEG, NULL_SEG
<1>1. CASE LoadData16
  <2>1. /\ at = "data16" /\ at' = "unpage" /\ UNCHANGED <<last_esp, depth, tables>>
        /\ cpu' = [cpu EXCEPT !.data = DATA16_SEG, !.wide = IF cpu.PE THEN GDT[DATA16_SEG] ELSE cpu.wide]
    BY ONLY <1>1 DEF LoadData16, Instruction, LoadData
  <2>2. cpu.PE
    BY <2>1
  <2>3. GDT[DATA16_SEG] = 16
    BY DEF GDT, CODE_SEG, DATA_SEG, CODE16_SEG, DATA16_SEG
  <2> QED
    BY <2>1, <2>2, <2>3, ZenonT(60)
<1>2. CASE DisablePaging
  BY <1>2, ZenonT(60) DEF DisablePaging
<1>3. CASE JumpToCode16
  BY <1>3, ZenonT(60) DEF JumpToCode16
<1>4. CASE LeaveProtectedMode
  BY <1>4, ZenonT(60) DEF LeaveProtectedMode
<1>5. CASE JumpTo0
  BY <1>5, ZenonT(60) DEF JumpTo0
<1>6. CASE ZeroSegments
  BY <1>6, ZenonT(60) DEF ZeroSegments
<1>7. CASE EnableInterrupts
  BY <1>7 DEF EnableInterrupts
<1> QED BY <1>1, <1>2, <1>3, <1>4, <1>5, <1>6, <1>7 DEF RealMode

LEMMA ProtectedModeKeeps ==
  cpu = CpuHere /\ StackIsKept /\ (DisableInterrupts \/ ProtectedMode) =>
    cpu' = CpuHere' /\ at \notin OnOwnStack /\ at' \in Places \ Filling
                    /\ UNCHANGED <<last_esp, depth, tables>>
<1> SUFFICES ASSUME cpu = CpuHere, StackIsKept, DisableInterrupts \/ ProtectedMode
             PROVE  /\ cpu' = CpuHere' /\ at \notin OnOwnStack /\ at' \in Places \ Filling
                    /\ UNCHANGED <<last_esp, depth, tables>>
  OBVIOUS
<1> USE DEF CpuHere, Filling, OnOwnStack, Real, Instruction, Places, GDT, LoadCS, LoadData,
        CODE_SEG, DATA_SEG, CODE16_SEG, DATA16_SEG, NULL_SEG
<1>1. CASE DisableInterrupts
  BY <1>1 DEF DisableInterrupts
<1>2. CASE EnterProtectedMode
  BY <1>2, ZenonT(60) DEF EnterProtectedMode
<1>3. CASE JumpToCode
  BY <1>3, ZenonT(60) DEF JumpToCode
<1>4. CASE LoadDataSegments
  BY <1>4, ZenonT(60) DEF LoadDataSegments
<1>5. CASE RestoreStack
  BY <1>5 DEF RestoreStack, StackIsKept
<1> QED BY <1>1, <1>2, <1>3, <1>4, <1>5 DEF ProtectedMode

(* C code may call at another depth of its stack.                           *)
LEMMA CallsKeep ==
  cpu = CpuHere /\ CCodeCalls => cpu' = CpuHere' /\ depth' \in DEPTHS /\ at = "protected"
                                 /\ UNCHANGED <<at, tables, last_esp>>
  BY DEF CCodeCalls, CpuHere, OnOwnStack, Filling, Real

(* The type of the mode switch follows from the rest of the invariant.      *)
LEMMA TypeFollows ==
  ModeIInv => ModeTypeOK
<1> SUFFICES ASSUME ModeIInv PROVE ModeTypeOK
  OBVIOUS
<1>1. depth \in Nat
  BY DepthAssumption DEF ModeIInv
<1>2. kernel_table \in [Entries -> Entries \cup {ABSENT}]
  BY DEF TablesAreRight, ModeIInv
<1>3. directory_table \in [Entries -> Entries \cup {ABSENT}]
  BY PagingAssumption DEF TablesAreRight, Entries, ModeIInv
<1> QED
  BY <1>1, <1>2, <1>3, CpuHasType DEF ModeTypeOK, Places, ModeIInv

LEMMA ModesStep == ModeIInv /\ [DiskNext]_allVars => ModeIInv'
<1> SUFFICES ASSUME ModeIInv, [DiskNext]_allVars PROVE ModeIInv'
  OBVIOUS
<1>1. cpu = CpuHere /\ StackIsKept /\ TablesAreRight /\ depth \in DEPTHS /\ last_esp \in Nat /\ depth \in Nat
  BY DepthAssumption DEF ModeIInv
<1>2. /\ at' \in Places /\ last_esp' \in Nat /\ depth' \in DEPTHS
      /\ cpu' = CpuHere' /\ StackIsKept' /\ TablesAreRight'
  <2>1. CASE PagingInit /\ UNCHANGED vars
    <3>1. last_esp' = last_esp /\ depth' = depth
      BY <2>1 DEF PagingInit, FillKernelTable, FillDirectory, LoadPageDirectory, EnablePaging
    <3> QED
      BY <1>1, <2>1, <3>1, TablesKeep, PagingKeeps DEF Places
  <2>2. CASE RealMode /\ UNCHANGED vars
    BY <1>1, <2>2, RealModeKeeps DEF StackIsKept, TablesAreRight, tables, Full, Filling, OnOwnStack
  <2>3. CASE ProtectedMode /\ UNCHANGED vars
    BY <1>1, <2>3, ProtectedModeKeeps DEF StackIsKept, TablesAreRight, tables, Full, Filling, OnOwnStack
  <2>4. CASE EnterRealMode
    <3>1. at = "protected" /\ UNCHANGED <<depth, tables>> /\ SaveStack
      BY <2>4 DEF EnterRealMode, SaveStack, Instruction
    <3> QED
      BY <1>1, <3>1, SaveStackKeeps DEF StackIsKept, TablesAreRight, tables, Full, Places
  <2>5. CASE LeaveRealMode
    <3>1. DisableInterrupts
      BY <2>5 DEF LeaveRealMode
    <3> QED
      BY <1>1, <3>1, ProtectedModeKeeps DEF StackIsKept, TablesAreRight, tables, Full, Filling, OnOwnStack
  <2>6. CASE CCodeCalls
    <3>1. depth' \in Nat
      BY <1>1, <2>6, CallsKeep, DepthAssumption
    <3> QED
      BY <1>1, <2>6, <3>1, CallsKeep
         DEF StackIsKept, TablesAreRight, tables, Full, Filling, OnOwnStack, Places
  <2>7. CASE UNCHANGED modeVars
    BY <1>1, <2>7 DEF modeVars, StackIsKept, TablesAreRight, Full, CpuHere, OnOwnStack, Filling,
       Real, ModeIInv, Places
  <2> QED
    BY <2>1, <2>2, <2>3, <2>4, <2>5, <2>6, <2>7
       DEF DiskNext, DiskStep, Switch, Bios, CCodeGoesOn, allVars
<1> QED
  BY <1>2 DEF ModeIInv

THEOREM ModesInvariant == DiskSpec => []ModeIInv
  BY ModesInit, ModesStep, PTL DEF DiskSpec

(* In every state the variables of the mode switch have their types.        *)
THEOREM ModesTyped == DiskSpec => []ModeTypeOK
  BY ModesInvariant, TypeFollows, PTL

(* An IRQ is only ever taken in real mode, by 16-bit code on the low stack. *)
THEOREM IrqsInRealMode == DiskSpec => []IrqsComeInRealMode
<1>1. ASSUME ModeIInv, at = "real"
      PROVE  cpu = [PE |-> FALSE, PG |-> FALSE, INT |-> TRUE, CR3 |-> TRUE, CS |-> NULL_SEG,
                    bits |-> 16, data |-> NULL_SEG, wide |-> 16, ESP |-> LOW_STACK]
  BY <1>1 DEF ModeIInv, CpuHere, Real, OnOwnStack, Filling
<1>2. ASSUME ModeIInv, at # "real" PROVE cpu.INT = FALSE
  BY <1>2, Zenon DEF ModeIInv, CpuHere
<1>3. ModeIInv => IrqsComeInRealMode
  BY <1>1, <1>2 DEF IrqsComeInRealMode
<1> QED BY <1>3, ModesInvariant, PTL

(* A page of the first table is found where real mode finds it.             *)
LEMMA LowPages ==
  ASSUME TablesAreRight, Full(kernel_table), Full(directory_table), NEW p \in Entries
  PROVE  Walk(0, p) = p
<1>1. 0 \in Entries
  BY PagingAssumption DEF Entries
<1>2. directory_table[0] = KERNEL_TABLE /\ kernel_table[p] = p
  BY <1>1 DEF TablesAreRight, Full
<1> QED
  BY <1>2 DEF Walk

(* The processor is never in an undefined combination of modes, and paging  *)
(* never moves what real mode addresses.                                    *)
THEOREM ModesStayLegal == DiskSpec => []ModesAreLegal
<1>1. ASSUME ModeIInv PROVE ModesAreLegal
  <2>1. cpu.PG => at \notin Real /\ at # "fill"
    BY <1>1 DEF ModeIInv, CpuHere, Real, Filling
  <2>2. at # "fill" => \A p \in Entries : Walk(0, p) = p
    BY <1>1, LowPages DEF ModeIInv, TablesAreRight
  <2>3. cpu.PG => cpu.PE /\ cpu.CR3
    BY <1>1, <2>1 DEF ModeIInv, CpuHere
  <2>4. ~cpu.PE => cpu.bits = 16 /\ cpu.wide = 16
    BY <1>1 DEF ModeIInv, CpuHere, Real
  <2> QED BY <2>1, <2>2, <2>3, <2>4 DEF ModesAreLegal
<1> QED BY <1>1, ModesInvariant, PTL

(* C code goes on after a BIOS call with the stack pointer it called with,  *)
(* in flat 32-bit segments, with paging and without interrupts.             *)
THEOREM StacksComeBack == DiskSpec => []StackComesBack
<1>1. ASSUME ModeIInv, at = "protected"
      PROVE  cpu = [PE |-> TRUE, PG |-> TRUE, INT |-> FALSE, CR3 |-> TRUE, CS |-> CODE_SEG,
                    bits |-> 32, data |-> DATA_SEG, wide |-> 32, ESP |-> depth]
  BY <1>1 DEF ModeIInv, CpuHere, Real, OnOwnStack, Filling
<1>2. ModeIInv => StackComesBack
  BY <1>1 DEF StackComesBack
<1> QED BY <1>2, ModesInvariant, PTL

(* Every step of the two together is a step of disk_read or none.           *)
LEMMA DiskStepReads == [DiskNext]_allVars => [Next]_vars
  BY DEF DiskNext, DiskStep, CCodeCalls, Switch, EnterRealMode, Bios, LeaveRealMode, CCodeGoesOn,
     Next, allVars

(* The reads are exact with the switches between them as well: what holds   *)
(* of disk_read alone holds of it in the two modes.                         *)
THEOREM InstallerReadsExact == DiskSpec => []ReadsAreExact
<1>1. DiskInit => Init
  BY DEF DiskInit
<1> QED
  BY <1>1, DiskStepReads, ReadInit, ReadStepAny, ReadIInvImplies, PTL DEF DiskSpec
=============================================================================
