-------------------------------- MODULE DiskRead --------------------------------
(***************************************************************************)
(* disk_read of the installer (src/installer/src/sys/disk/disk.c) and the  *)
(* real-mode routine disk_read_int13 under it (disk.asm).  A destination   *)
(* that real mode can address is read into directly; any other is read     *)
(* page by page into buffer16 and copied from there.  Memory is counted in *)
(* sectors, and a sector is the number of the disk sector it came from.    *)
(* The BIOS is external: a read moves the sectors the packet asks for, or  *)
(* fails after some of them and may then write their number into the       *)
(* packet, which the next attempt does not fill again.                     *)
(*                                                                         *)
(* As in ChunkList, a definition named for what it gets wrong is a faulty  *)
(* variant of the one after it, there to test the properties.              *)
(***************************************************************************)
EXTENDS Integers

CONSTANTS
  BUFFER_PG_SIZE,  \* __BUFFER_PG_SIZE: sectors of a page, 8 in the code
  LBA_STEP,        \* what lba grows by for a page, 4 in the code
  BUFFER_ROOM,     \* sectors from buffer16 to the text section, 16
  REQUESTS,        \* the (count, lba) pairs disk_read is called with
  DEST_SIZE,       \* bounds the part of the destination that is followed
  PARTIAL          \* the numbers of sectors a failing BIOS read may have moved

ASSUME PageAssumption == {BUFFER_PG_SIZE, LBA_STEP, BUFFER_ROOM} \subseteq Nat \ {0}
ASSUME RoomAssumption == BUFFER_PG_SIZE <= BUFFER_ROOM
ASSUME RequestAssumption == REQUESTS \subseteq [count : Nat, lba : Nat]
(* What a copy can touch at all is followed.                                *)
ASSUME DestAssumption ==
  /\ DEST_SIZE \in Nat
  /\ \A r \in REQUESTS : r.count + BUFFER_PG_SIZE * BUFFER_PG_SIZE <= DEST_SIZE
ASSUME PartialAssumption == PARTIAL \subseteq Nat /\ 0 \in PARTIAL

VARIABLES
  req,     \* the call in progress or just over: count, lba and direct
  pc,      \* "idle", or the part of disk_read that called disk_read_int13:
           \* "direct", "page", "last"; "param" in disk_get_param_int13
  page,    \* pages copied so far, the i of the loop
  tries,   \* where the real-mode routine is: 0 before the reset, then the
           \* read, and RETURNED when it is over
  result,  \* what it returned
  left,    \* dap.count: the sectors its next attempt asks for
  buffer,  \* the sectors from buffer16 on
  dest,    \* the sectors from ptr on
  status   \* what disk_read returned last

memory == <<buffer, dest>>
vars == <<req, pc, page, tries, result, left, memory, status>>

RETURNED == 4

UNTOUCHED == -1   \* what the caller had there
STALE     == -2   \* what the buffer held before the first read
TEXT      == -3   \* the installer's own code

ERROR == 16  \* AL after a failure: the low byte of DATA_SEG, loaded on the
             \* way back to protected mode over the code of the BIOS

Dest == 0 .. DEST_SIZE - 1

Pages == req.count \div BUFFER_PG_SIZE
LastPageCount == req.count % BUFFER_PG_SIZE

Init ==
  /\ req = [count |-> 0, lba |-> 0, direct |-> FALSE]
  /\ pc = "idle" /\ page = 0 /\ tries = 0 /\ result = 0 /\ left = 0 /\ status = 0
  /\ buffer = [k \in 0 .. BUFFER_ROOM - 1 |-> STALE]
  /\ dest = [k \in Dest |-> UNTOUCHED]

Requested(r, direct) ==
  /\ pc = "idle"
  /\ req' = [count |-> r.count, lba |-> r.lba, direct |-> direct]
  /\ tries' = 0
  /\ dest' = [k \in Dest |-> UNTOUCHED]
  /\ pc' = IF direct THEN "direct"
           ELSE IF r.count >= BUFFER_PG_SIZE THEN "page" ELSE "last"
  /\ UNCHANGED <<result, left, buffer, status>>

CallKeepsPage(r, direct) == Requested(r, direct) /\ UNCHANGED page

(* disk_read is called; ptr + count * 512 is below 0xFFF0, or not.          *)
Call(r, direct) == Requested(r, direct) /\ page' = 0

(* disk_create_fat12 asks for the geometry: disk_get_param_int13.           *)
CallGetParam ==
  /\ pc = "idle"
  /\ pc' = "param" /\ tries' = 0
  /\ UNCHANGED <<req, page, result, left, memory, status>>

(* The sectors and the address the pending BIOS read is for.                *)
Wanted == CASE pc = "direct" -> req.count
            [] pc = "page"   -> BUFFER_PG_SIZE
            [] pc = "last"   -> LastPageCount
From == IF pc = "direct" THEN req.lba ELSE req.lba + page * LBA_STEP

(* m with its first n sectors read from the disk                            *)
Transfer(m, n) == [k \in DOMAIN m |-> IF k < n THEN From + k ELSE m[k]]

(* memcpy: size sectors from the buffer to ptr, which the loop has moved    *)
(* forward by a page each time.  Past the room lies the text section.       *)
Copied(size) ==
  [k \in Dest |->
     LET b == k - page * BUFFER_PG_SIZE
     IN  IF b \notin 0 .. size - 1 THEN dest[k]
         ELSE IF b < BUFFER_ROOM THEN buffer[b] ELSE TEXT]

(***************************************************************************)
(* disk_read_int13: fill the packet, reset the controller, then read, at   *)
(* most three times.  Between the attempts only SI, DL and AH are loaded.  *)
(***************************************************************************)
Asked == pc \in {"direct", "page", "last"}
Read(n) ==
  IF pc = "direct" THEN dest' = Transfer(dest, n) /\ UNCHANGED buffer
                   ELSE buffer' = Transfer(buffer, n) /\ UNCHANGED dest

Finish(r) == tries' = RETURNED /\ result' = r /\ UNCHANGED <<req, pc, page, status>>

FillPacket == left' = IF Asked THEN Wanted ELSE left

ResetOk ==
  /\ pc # "idle" /\ tries = 0
  /\ tries' = 1
  /\ FillPacket
  /\ UNCHANGED <<req, pc, page, result, memory, status>>

ResetFails == pc # "idle" /\ tries = 0 /\ FillPacket /\ Finish(ERROR) /\ UNCHANGED memory

ReadOk == Asked /\ tries \in 1 .. 3 /\ Read(left) /\ Finish(0) /\ UNCHANGED left

(* A failing read has moved fewer sectors than it was asked for, and leaves *)
(* the count in the packet as it was or sets it to what it moved.           *)
MovedBeforeFailure == {p \in PARTIAL : p < left} \cup {0}
AttemptFails == \E p \in MovedBeforeFailure : Read(p) /\ left' \in {left, p}

ReadRetriedForever ==
  /\ Asked /\ tries \in 1 .. 2
  /\ tries' = (tries % 2) + 1
  /\ AttemptFails
  /\ UNCHANGED <<req, pc, page, result, status>>

ReadRetried ==
  /\ Asked /\ tries \in 1 .. 2
  /\ tries' = tries + 1
  /\ AttemptFails
  /\ UNCHANGED <<req, pc, page, result, status>>

ReadGivenUpInSilence ==
  /\ Asked /\ tries = 3
  /\ AttemptFails
  /\ Finish(0)

(* read_failure: the mov that saves AL is assembled for 32 bits.  In real   *)
(* mode the end of it is an instruction that adds AL to the byte at BX + SI,*)
(* which is none of the memory followed here.                               *)
ReadGivenUp ==
  /\ Asked /\ tries = 3
  /\ AttemptFails
  /\ Finish(ERROR)

(* disk_get_param_int13: one call after the reset.                          *)
GetParamReturns ==
  /\ pc = "param" /\ tries = 1
  /\ \E r \in {0, ERROR} : Finish(r)
  /\ UNCHANGED <<left, memory>>

Int13 == ResetOk \/ ResetFails \/ ReadOk \/ ReadRetried \/ ReadGivenUp \/ GetParamReturns

(***************************************************************************)
(* What disk_read does when disk_read_int13 has returned.                  *)
(***************************************************************************)
Return(st) == pc' = "idle" /\ status' = st /\ UNCHANGED page

NextPage == /\ page' = page + 1
            /\ pc' = IF page + 1 < Pages THEN "page" ELSE "last"
            /\ UNCHANGED status

Back(place) == pc = place /\ tries = RETURNED /\ tries' = 0 /\ UNCHANGED <<req, result, left, buffer>>

DirectDone == Back("direct") /\ Return(result) /\ UNCHANGED dest

(* The status of a page's read is not looked at: the page is copied as the  *)
(* read left it.                                                            *)
PageDone == Back("page") /\ dest' = Copied(BUFFER_PG_SIZE) /\ NextPage

(* The last copy is of lastPageCount * __BUFFER_SIZE bytes: as many pages   *)
(* as there were sectors to read.                                           *)
LastCopySize == LastPageCount * BUFFER_PG_SIZE

LastFails == Back("last") /\ result # 0 /\ Return(result) /\ UNCHANGED dest

LastDone == Back("last") /\ result = 0 /\ dest' = Copied(LastCopySize) /\ Return(0)

GetParamDone == Back("param") /\ pc' = "idle" /\ UNCHANGED <<page, dest, status>>

GoOn == DirectDone \/ PageDone \/ LastFails \/ LastDone \/ GetParamDone

Calls == CallGetParam \/ \E r \in REQUESTS, direct \in BOOLEAN : Call(r, direct)

Next == Calls \/ Int13 \/ GoOn

(* The processor executes the call, and the BIOS returns from its           *)
(* interrupts; nothing forces a program to read.                            *)
Spec == Init /\ [][Next]_vars /\ WF_vars(Int13 \/ GoOn)

(***************************************************************************)
(* Properties.                                                             *)
(***************************************************************************)
TypeOK ==
  /\ req \in [count : Nat, lba : Nat, direct : BOOLEAN]
  /\ pc \in {"idle", "direct", "page", "last", "param"}
  /\ page \in 0 .. Pages /\ tries \in 0 .. RETURNED
  /\ result \in {0, ERROR} /\ left \in Nat /\ status \in {0, ERROR}
  /\ buffer \in [0 .. BUFFER_ROOM - 1 -> Nat \cup {STALE}]
  /\ dest \in [Dest -> Nat \cup {UNTOUCHED, STALE, TEXT}]

Succeeded == pc = "idle" /\ status = 0
Right(k) == dest[k] = req.lba + k

(* A direct read that returns 0 has put the sectors its packet asks for at  *)
(* ptr, all of them unless a failed attempt has shortened the packet; and   *)
(* whatever the failed attempts moved, nothing past what disk_read was      *)
(* asked for was written, and nothing before that with a wrong sector.      *)
DirectIsExact ==
  Succeeded /\ req.direct =>
    \A k \in Dest :
      IF k < left THEN Right(k) ELSE dest[k] = UNTOUCHED \/ (k < req.count /\ Right(k))

(* So has a read of less than a page, up to what its packet asks for: the   *)
(* retries leave no mixture of attempts in that part of the buffer.         *)
ShortReadIsRight ==
  Succeeded /\ ~req.direct /\ req.count < BUFFER_PG_SIZE =>
    \A k \in 0 .. req.count - 1 : k < left => Right(k)

ReadsAreExact == DirectIsExact /\ ShortReadIsRight

(* Every call returns, after at most three reads for each of its pages.     *)
CallReturns == pc # "idle" ~> pc = "idle"

(***************************************************************************)
(* What the comments say, and the code does not.                           *)
(***************************************************************************)

(* "Try to read or return the int code" (disk.c:103): a direct read that    *)
(* returns 0 has read the sectors it was asked for.                         *)
RetryReadsAll == Succeeded /\ req.direct => \A k \in 0 .. req.count - 1 : Right(k)


(* "Read and copy the last sector/s" (disk.c:123): those, and no more.      *)
OnlyLastSectorsCopied == \A k \in Dest : k >= req.count => dest[k] = UNTOUCHED
=============================================================================
