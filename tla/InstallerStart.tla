----------------------------- MODULE InstallerStart -----------------------------
(***************************************************************************)
(* The clients of Fat12Driver: any program that uses the file interface,   *)
(* or _start of the installer (src/installer/src/start.c), which makes one *)
(* call of each and then tests whether its memory has come back.           *)
(*                                                                         *)
(* What printf does with the file is not followed here.                    *)
(***************************************************************************)
EXTENDS Fat12Driver

CONSTANT HEAP_START   \* the address of the first block of an empty heap

ASSUME HeapStartAssumption == HEAP_START \in BLOCKS

VARIABLES
  step,      \* what _start does next, or "any" for another client
  heapError, \* "Heap error" was printed
  strayFree  \* history: _start freed memory through a pointer that no call
             \* gave it

startVars == <<vars, step, heapError, strayFree>>

StartInit ==
  /\ Init
  /\ step \in {"any", "disk_open"} /\ heapError = FALSE /\ strayFree = FALSE

Moves(from, to) == pc = "idle" /\ step = from /\ step' = to /\ UNCHANGED heapError
Step(from, to) == Moves(from, to) /\ UNCHANGED strayFree

AnyClientCalls == Step("any", "any") /\ Calls
DriverGoesOn == Continue /\ UNCHANGED <<step, heapError, strayFree>>

(* On an empty heap malloc returns the start of it.                         *)
OpenDisk ==
  /\ Step("disk_open", "opened")
  /\ DiskOpenFails \/ DiskOpenNoGeometry \/ DiskOpenOk
  /\ Live' \subseteq {HEAP_START}

(* Without the geometry there is a disk, and an error: it is not closed.    *)
DiskFails ==
  /\ Step("opened", "memory_test")
  /\ result = "null" \/ err # "NO"
  /\ UNCHANGED vars

DiskIsOpen == Step("opened", "file_read") /\ result = "ok" /\ err = "NO" /\ UNCHANGED vars

(* "/test/test/file.txt"                                                    *)
ReadFile ==
  /\ Step("file_read", "read")
  /\ FileRead
  /\ path' = [names |-> MAX_NAMES, slash |-> FALSE]

NoFile == Step("read", "disk_close") /\ result = "null" /\ UNCHANGED vars

FreeFile == Step("read", "disk_close") /\ result = "ok" /\ FileFree

(* The pointer of a read that failed: to the buffer that was freed, or,     *)
(* where nothing has set it, to anything.                                   *)
Pointed == IF err = "INVARG" THEN Live ELSE {}

FreeDanglingFails ==
  /\ Step("read", "disk_close") /\ result = "dangling"
  /\ Enter("free")
  /\ err' = "INVARG"
  /\ UNCHANGED <<heap, pc, path, locals, result, held, badFree>>

(* _start goes on to use the disk, even if that was what it freed.          *)
FreeDanglingFrees ==
  /\ Moves("read", "disk_close") /\ result = "dangling"
  /\ Enter("free")
  /\ strayFree' = TRUE
  /\ \E b \in Pointed : heap' = Without({b})
  /\ UNCHANGED <<err, pc, path, locals, result, held, badFree>>

CloseDisk == Step("disk_close", "memory_test") /\ HeldBlocks \subseteq Live /\ DiskClose

(* disk_close of a disk that was freed through the pointer above.           *)
CloseFreedDisk ==
  /\ Step("disk_close", "memory_test") /\ ~(HeldBlocks \subseteq Live)
  /\ Enter("disk_close")
  /\ err' = "INVARG" /\ held' = {}
  /\ UNCHANGED <<heap, pc, path, locals, result, badFree>>

(* malloc(1) takes the first free byte, and free gives it back.             *)
MemoryTest ==
  /\ step = "memory_test" /\ step' = "loop"
  /\ heapError' = (heap[HEAP_START] # "free")
  /\ UNCHANGED <<vars, strayFree>>

Loop == Step("loop", "loop") /\ UNCHANGED vars

_start ==
  \/ OpenDisk \/ DiskFails \/ DiskIsOpen \/ ReadFile \/ NoFile \/ FreeFile
  \/ FreeDanglingFails \/ FreeDanglingFrees \/ CloseDisk \/ CloseFreedDisk \/ MemoryTest \/ Loop

StartNext == AnyClientCalls \/ DriverGoesOn \/ _start

(* Calls are executed, and so is _start, which is a program; another client *)
(* need not do anything.                                                    *)
StartSpec == StartInit /\ [][StartNext]_startVars /\ WF_startVars(DriverGoesOn) /\ WF_startVars(_start)

StartTypeOK ==
  /\ TypeOK
  /\ step \in {"any", "disk_open", "opened", "file_read", "read", "disk_close", "memory_test", "loop"}
  /\ {heapError, strayFree} \subseteq BOOLEAN

(***************************************************************************)
(* Properties.                                                             *)
(***************************************************************************)

(* What a client holds stays allocated and its own until _start frees       *)
(* memory through a pointer that a failed file_read has left behind.        *)
ResultsStayAllocated == ~strayFree => HeldStaysAllocated

(* "Memory test" (start.c:47-51): whatever fails, _start comes to its test, *)
(* unless the file or a directory on the way to it has a chain without an   *)
(* end; and "Heap error" is printed if and only if something is still       *)
(* allocated, although the test looks at the first byte of the heap only.   *)
MemoryTestTells ==
  step = "disk_open" ~>
    \/ step = "read" /\ pc = "walk"
    \/ step = "loop" /\ (heapError <=> Live # {})
=============================================================================
