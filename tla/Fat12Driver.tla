------------------------------ MODULE Fat12Driver ------------------------------
(***************************************************************************)
(* The file interface of the installer: disk_open and disk_close (src/     *)
(* installer/src/sys/disk/disk.c), dir_open and dir_close (dir.c),         *)
(* file_read (file.c) and the FAT12 driver under them (fs/fat12.c).  What  *)
(* is followed is the memory each call allocates and frees, on every path  *)
(* out of it, and _err, which every part sets and nothing clears.          *)
(*                                                                         *)
(* The allocator is the abstract heap of HeapSpec, with a tag for what a   *)
(* block was allocated for.  A path is the number of its names and whether *)
(* it ends in '/'; what a name is in its directory, which calls of the     *)
(* BIOS fail, and whether a chain of clusters has an end, is chosen freely *)
(* (which chains have one is Fat12ReadEntry's matter).                     *)
(*                                                                         *)
(* As in ChunkList, a definition named for what it gets wrong is a faulty  *)
(* variant of the one after it, there to test the properties.              *)
(***************************************************************************)
EXTENDS Naturals, FiniteSets

CONSTANTS
  BLOCKS,     \* addresses malloc returns
  NULL,
  MAX_NAMES   \* bounds the names of a path

ASSUME NullAssumption == NULL \notin BLOCKS
ASSUME NamesAssumption == MAX_NAMES \in Nat \ {0}

VARIABLES
  err,      \* _err
  heap,     \* what each block is allocated for, or "free"
  pc,       \* "idle", or where the call in progress is
  call,     \* the call in progress or just over
  path,     \* the names it has not looked up yet
  dir, fats, entries,  \* local pointers of the driver
  it,       \* the entry found last: the block it lies in, whether it is a
            \* directory, and whether its bytes are still there
  result,   \* what the call returned: "null", "ok", or a pointer that is
            \* not to an allocated block, "dangling"
  held,     \* the results the caller has not given back
  before,   \* history: heap and _err when the call was made
  badFree,  \* history: the driver freed what is not allocated
  badRead   \* history: the driver read an entry whose bytes were gone

locals == <<dir, fats, entries, it>>
history == <<before, badFree, badRead>>
vars == <<err, heap, pc, call, path, locals, result, held, history>>

Tags == {"disk", "dir", "dirents", "fats", "entries", "file"}
Errors == {"INVARG", "HEAPFULL", "IO", "INTERNAL", "UNKNFS", "NOTFOUND", "NOTADIR"}
Live == {b \in BLOCKS : heap[b] # "free"}
NoEntry == [block |-> NULL, dir |-> FALSE, intact |-> TRUE]

Init ==
  /\ err = "NO" /\ pc = "idle" /\ call = "none" /\ result = "null"
  /\ heap = [b \in BLOCKS |-> "free"]
  /\ path = [names |-> 0, slash |-> FALSE]
  /\ dir = NULL /\ fats = NULL /\ entries = NULL /\ it = NoEntry
  /\ held = {}
  /\ before = [heap |-> heap, err |-> err]
  /\ badFree = FALSE /\ badRead = FALSE

(***************************************************************************)
(* The allocator.  A freed block keeps its bytes until it is allocated     *)
(* again.                                                                  *)
(***************************************************************************)
Allocate(b, tag) ==
  /\ heap[b] = "free"
  /\ heap' = [heap EXCEPT ![b] = tag]
  /\ UNCHANGED badFree

Overwrite(b) == it' = [it EXCEPT !.intact = @ /\ b # it.block]

(* A block is allocated and freed again before the call returns.            *)
Borrow == Live # BLOCKS

Without(S) == [b \in BLOCKS |-> IF b \in S THEN "free" ELSE heap[b]]
Free(S) == /\ heap' = Without(S)
           /\ badFree' = (badFree \/ \E b \in S \cap BLOCKS : heap[b] = "free")

(***************************************************************************)
(* A call begins, goes on, and ends with what it returns.                  *)
(***************************************************************************)
Enter(name) ==
  /\ pc = "idle"
  /\ call' = name
  /\ before' = [heap |-> heap, err |-> err]
  /\ UNCHANGED badRead

Goto(at) == pc' = at /\ UNCHANGED <<call, result, held, before>>

(* The locals end with the call.                                            *)
Return(r) == /\ pc' = "idle" /\ result' = r
             /\ dir' = NULL /\ fats' = NULL /\ entries' = NULL /\ it' = NoEntry

ReturnNull == Return("null") /\ UNCHANGED held

(* The caller keeps a result if no error is set: it is one that checks _err *)
(* as well as the pointer, as _start does after disk_open.                  *)
ReturnNew(kind, blocks) ==
  /\ Return("ok")
  /\ held' = held \cup {[kind |-> kind, blocks |-> blocks]}

HeldOf(kind) == {h \in held : h.kind = kind}

(***************************************************************************)
(* disk_open: disk_create reads the header, and disk_create_fat12 asks for *)
(* the geometry and returns nothing: the disk is returned without it.      *)
(***************************************************************************)
DiskOpenNoMemory ==
  /\ Enter("disk_open")
  /\ err' = "HEAPFULL"
  /\ ReturnNull
  /\ UNCHANGED <<heap, path, badFree>>

DiskOpenFails ==
  /\ Enter("disk_open")
  /\ Borrow
  /\ err' \in {"IO", "INTERNAL", "UNKNFS"}
  /\ ReturnNull
  /\ UNCHANGED <<heap, path, badFree>>

DiskOpenNoGeometry ==
  /\ Enter("disk_open")
  /\ \E b \in BLOCKS : Allocate(b, "disk")
  /\ err' = "INVARG"
  /\ Return("ok")
  /\ UNCHANGED <<path, held>>

DiskOpenOk ==
  /\ Enter("disk_open")
  /\ \E b \in BLOCKS :
       /\ Allocate(b, "disk")
       /\ IF err = "NO" THEN ReturnNew("disk", {b}) ELSE Return("ok") /\ UNCHANGED held
  /\ UNCHANGED <<err, path>>

(* The caller gives a result back; the functions that take one free all of  *)
(* its blocks.                                                              *)
GiveBack(name, kind) ==
  /\ Enter(name)
  /\ \E h \in HeldOf(kind) : Free(h.blocks) /\ held' = held \ {h}
  /\ UNCHANGED <<err, pc, path, locals, result>>

(* A directory refers to its disk: the caller closes it first.              *)
DiskClose == HeldOf("dir") = {} /\ GiveBack("disk_close", "disk")
DirClose  == GiveBack("dir_close", "dir")
FileFree  == GiveBack("free", "file")

(***************************************************************************)
(* file_read and dir_open are called with a disk, and a path or, for       *)
(* dir_open, the root.                                                     *)
(***************************************************************************)
Paths == [names : 0 .. MAX_NAMES, slash : BOOLEAN]

CallOnDisk(name) == Enter(name) /\ HeldOf("disk") # {} /\ path' \in Paths

FileReadRefused ==
  /\ CallOnDisk("file_read")
  /\ err # "NO"
  /\ ReturnNull
  /\ UNCHANGED <<err, heap, badFree>>

FileRead ==
  /\ CallOnDisk("file_read")
  /\ err = "NO"
  /\ pc' = "fats"
  /\ UNCHANGED <<err, heap, locals, result, held, badFree>>

DirOpenNoMemory ==
  /\ CallOnDisk("dir_open")
  /\ err' = "HEAPFULL"
  /\ ReturnNull
  /\ UNCHANGED <<heap, badFree>>

DirOpen ==
  /\ CallOnDisk("dir_open")
  /\ \E b \in BLOCKS : Allocate(b, "dir") /\ dir' = b
  /\ pc' \in {"fats", "root"}
  /\ UNCHANGED <<err, fats, entries, it, result, held>>

IsFileRead == call = "file_read"
ListsRoot == ~IsFileRead /\ fats = NULL

(***************************************************************************)
(* What a call does with an error of the part it called: file_read frees   *)
(* the FATs, and a free of NULL sets _err once more; fat12_read_directory  *)
(* and fat12_dir_open only return.  The part that failed has freed some    *)
(* blocks itself.                                                          *)
(***************************************************************************)
FailWith(e, freed) ==
  /\ ReturnNull
  /\ Free(freed \cup IF IsFileRead THEN {fats} ELSE {})
  /\ err' = IF IsFileRead /\ fats = NULL THEN "INVARG" ELSE e
  /\ UNCHANGED <<call, path, before, badRead>>

(* fat12_read_fats; whether the disk was read is not looked at.             *)
FatsNoMemory == pc = "fats" /\ FailWith("HEAPFULL", {})

FatsRead ==
  /\ pc = "fats" /\ err = "NO"
  /\ \E b \in BLOCKS : Allocate(b, "fats") /\ fats' = b
  /\ Goto("root")
  /\ UNCHANGED <<err, path, dir, entries, it, badRead>>

FatsReadAfterError ==
  /\ pc = "fats" /\ err # "NO"
  /\ \E b \in BLOCKS : Allocate(b, "fats")
  /\ ReturnNull
  /\ UNCHANGED <<err, call, path, before, badRead>>

(* fat12_read_root_directory; an earlier error is taken for its own.        *)
RootNoMemory == pc = "root" /\ FailWith("HEAPFULL", {})

RootReadUnchecked ==
  /\ pc = "root"
  /\ \E b \in BLOCKS : Allocate(b, "entries") /\ entries' = b
  /\ Goto(IF ListsRoot THEN "list" ELSE "lookup")
  /\ UNCHANGED <<err, path, dir, fats, it, badRead>>

RootRead ==
  /\ pc = "root" /\ err = "NO"
  /\ \E b \in BLOCKS : Allocate(b, "entries") /\ entries' = b
  /\ Goto(IF ListsRoot THEN "list" ELSE "lookup")
  /\ UNCHANGED <<err, path, dir, fats, it, badRead>>

RootReadAfterError ==
  /\ pc = "root" /\ err # "NO"
  /\ Borrow
  /\ ReturnNull
  /\ UNCHANGED <<err, heap, call, path, history>>

(***************************************************************************)
(* fat12_get_entry_of_filename: one name at a time.  The entries of the    *)
(* last directory are freed before the entry found in them is used.        *)
(***************************************************************************)
Lookup == pc = "lookup" /\ path.names > 0
MoreNames == path.names > 1 \/ path.slash
Found(isDir) == it' = [block |-> entries, dir |-> isDir, intact |-> TRUE]

(* fat12_filename_tokenize refuses an empty name; the entries stay.         *)
LookupNoName == pc = "lookup" /\ path.names = 0 /\ FailWith("INVARG", {})

LookupNotFound == Lookup /\ FailWith("NOTFOUND", {entries})

LookupNotADirReturns == Lookup /\ MoreNames /\ FailWith("NOTADIR", {})
LookupNotADir == Lookup /\ MoreNames /\ FailWith("NOTADIR", {entries})

LookupDescend ==
  /\ Lookup /\ MoreNames
  /\ Found(TRUE)
  /\ Free({entries})
  /\ path' = [path EXCEPT !.names = @ - 1]
  /\ Goto("subdir")
  /\ UNCHANGED <<err, dir, fats, entries, badRead>>

(* The entry is copied to memory of its own, too late.                      *)
LookupLastCopies ==
  /\ Lookup /\ ~MoreNames
  /\ \E isDir \in BOOLEAN, b \in BLOCKS :
       /\ b = entries \/ heap[b] = "free"
       /\ heap' = [Without({entries}) EXCEPT ![b] = "entries"]
       /\ it' = [block |-> entries, dir |-> isDir, intact |-> b # entries]
  /\ Goto("found")
  /\ UNCHANGED <<err, path, dir, fats, entries, badFree, badRead>>

LookupLast ==
  /\ Lookup /\ ~MoreNames
  /\ \E isDir \in BOOLEAN : Found(isDir)
  /\ Free({entries})
  /\ Goto("found")
  /\ UNCHANGED <<err, path, dir, fats, entries, badRead>>

(* fat12_read_entry gives up: the cluster is not one, there is no memory,   *)
(* or the disk cannot be read and the buffer is freed again.                *)
EntryErrors == {"INVARG", "HEAPFULL"} \cup IF Borrow THEN {"IO"} ELSE {}

(* It counts the clusters before anything else, for ever if the chain of    *)
(* the entry has no end, as one that begins at cluster 0 (fat12.c:305-309). *)
ReadsEntry == pc = "subdir" \/ (pc = "found" /\ it.dir = ~IsFileRead)

WalkHasNoEnd ==
  /\ ReadsEntry
  /\ pc' = "walk"
  /\ badRead' = (badRead \/ ~it.intact)
  /\ UNCHANGED <<err, heap, call, path, locals, result, held, before, badFree>>

WalkGoesOn == pc = "walk" /\ UNCHANGED vars

SubdirFails == pc = "subdir" /\ \E e \in EntryErrors : FailWith(e, {})

SubdirRead ==
  /\ pc = "subdir"
  /\ \E b \in BLOCKS : Allocate(b, "entries") /\ entries' = b /\ Overwrite(b)
  /\ Goto("lookup")
  /\ UNCHANGED <<err, path, dir, fats, badRead>>

(***************************************************************************)
(* The entry is found; its bytes are read where they were.                 *)
(***************************************************************************)
FoundEntry(isDir) ==
  /\ pc = "found" /\ it.dir = isDir
  /\ badRead' = (badRead \/ ~it.intact)
  /\ UNCHANGED <<call, path, before>>

FileReadDirectoryKeepsFats ==
  /\ IsFileRead /\ FoundEntry(TRUE)
  /\ ReturnNull
  /\ UNCHANGED <<err, heap, badFree>>

(* file_read of a directory: NULL, and no error.                            *)
FileReadDirectory ==
  /\ IsFileRead /\ FoundEntry(TRUE)
  /\ Free({fats})
  /\ ReturnNull
  /\ UNCHANGED err

(* The buffer is returned whatever became of it: NULL, freed or never set.  *)
FileReadFails ==
  /\ IsFileRead /\ FoundEntry(FALSE)
  /\ err' \in EntryErrors
  /\ Return(IF err' = "HEAPFULL" THEN "null" ELSE "dangling")
  /\ Free({fats})
  /\ UNCHANGED held

FileReadOkFreesBuffer ==
  /\ IsFileRead /\ FoundEntry(FALSE)
  /\ \E b \in BLOCKS : heap[b] = "free" /\ ReturnNew("file", {b})
  /\ UNCHANGED <<err, heap, badFree>>

FileReadOk ==
  /\ IsFileRead /\ FoundEntry(FALSE)
  /\ \E b \in BLOCKS :
       /\ heap[b] = "free"
       /\ heap' = [Without({fats}) EXCEPT ![b] = "file"]
       /\ ReturnNew("file", {b})
  /\ UNCHANGED <<err, badFree>>

DirOpenNotADir ==
  /\ ~IsFileRead /\ FoundEntry(FALSE)
  /\ err' = "NOTADIR"
  /\ ReturnNull
  /\ UNCHANGED <<heap, badFree>>

DirOpenFails ==
  /\ ~IsFileRead /\ FoundEntry(TRUE)
  /\ err' \in EntryErrors
  /\ Free({fats})
  /\ ReturnNull

DirOpenRead ==
  /\ ~IsFileRead /\ FoundEntry(TRUE)
  /\ \E b \in BLOCKS :
       /\ heap[b] = "free"
       /\ heap' = [Without({fats}) EXCEPT ![b] = "entries"]
       /\ entries' = b
  /\ pc' = "list"
  /\ UNCHANGED <<err, dir, fats, it, result, held, badFree>>

(* fat12_dir_open allocates the list; an empty one is an invalid argument.  *)
ListFails ==
  /\ pc = "list"
  /\ err' \in {"INVARG", "HEAPFULL"}
  /\ ReturnNull
  /\ UNCHANGED <<heap, call, path, history>>

ListRead ==
  /\ pc = "list"
  /\ \E b \in BLOCKS :
       /\ heap[b] = "free"
       /\ heap' = [Without({entries}) EXCEPT ![b] = "dirents"]
       /\ ReturnNew("dir", {dir, b})
  /\ UNCHANGED <<err, call, path, history>>

Calls ==
  \/ DiskOpenNoMemory \/ DiskOpenFails \/ DiskOpenNoGeometry \/ DiskOpenOk \/ DiskClose
  \/ FileReadRefused \/ FileRead \/ DirOpenNoMemory \/ DirOpen \/ DirClose \/ FileFree

Continue ==
  \/ FatsNoMemory \/ FatsRead \/ FatsReadAfterError
  \/ RootNoMemory \/ RootRead \/ RootReadAfterError
  \/ LookupNoName \/ LookupNotFound \/ LookupNotADir \/ LookupDescend \/ LookupLast
  \/ WalkHasNoEnd \/ WalkGoesOn \/ SubdirFails \/ SubdirRead
  \/ FileReadDirectory \/ FileReadFails \/ FileReadOk
  \/ DirOpenNotADir \/ DirOpenFails \/ DirOpenRead \/ ListFails \/ ListRead

Next == Calls \/ Continue

(* A call that was made is executed; nothing forces a program to make one.  *)
Spec == Init /\ [][Next]_vars /\ WF_vars(Continue)

(***************************************************************************)
(* Properties.                                                             *)
(***************************************************************************)
Handles == [kind : {"disk", "dir", "file"}, blocks : SUBSET BLOCKS]
Pointers == BLOCKS \cup {NULL}

TypeOK ==
  /\ err \in Errors \cup {"NO"}
  /\ heap \in [BLOCKS -> Tags \cup {"free"}]
  /\ pc \in {"idle", "fats", "root", "lookup", "subdir", "found", "walk", "list"}
  /\ call \in {"none", "disk_open", "disk_close", "file_read", "dir_open", "dir_close", "free"}
  /\ path \in Paths
  /\ dir \in Pointers /\ fats \in Pointers /\ entries \in Pointers
  /\ it \in [block : Pointers, dir : BOOLEAN, intact : BOOLEAN]
  /\ result \in {"null", "ok", "dangling"}
  /\ held \subseteq Handles
  /\ before \in [heap : [BLOCKS -> Tags \cup {"free"}], err : Errors \cup {"NO"}]
  /\ {badFree, badRead} \subseteq BOOLEAN

HeldBlocks == UNION {h.blocks : h \in held}

(* What a caller holds stays allocated, whatever later calls do and however *)
(* they fail, and no two results share memory.                              *)
HeldStaysAllocated ==
  /\ HeldBlocks \subseteq Live
  /\ \A g, h \in held : g # h => g.blocks \cap h.blocks = {}

(* Until the first error nothing is leaked: between calls what is allocated *)
(* is what the caller holds.                                                *)
NoLeakBeforeError == pc = "idle" /\ err = "NO" => Live = HeldBlocks

(* On every way out of file_read, the errors included, the heap is as it    *)
(* was but for a buffer that is returned; only a path with an empty name,   *)
(* as one that ends in '/', leaves a directory behind.                      *)
FileReadLeavesNoTrace ==
  pc = "idle" /\ call = "file_read" /\ path.names > 0 =>
    \A b \in BLOCKS : heap[b] # before.heap[b] =>
      result = "ok" /\ before.heap[b] = "free" /\ heap[b] = "file"

(* The driver frees only what is allocated, nothing twice, and reads the    *)
(* entry of a path, which lies in memory that was freed (fat12.c:473-474),  *)
(* before that memory is allocated again.                                   *)
MemoryUsedRight == ~badFree /\ ~badRead

(* _err is never cleared: once it is set, no file and no directory is had   *)
(* again, not even one that is there.                                       *)
ErrorIsFinal ==
  pc = "idle" /\ call \in {"file_read", "dir_open"} /\ before.err # "NO" => result = "null"

(***************************************************************************)
(* What the code says of itself, and does not do.                          *)
(***************************************************************************)

(* "not_a_file_error: // Error is already set" (fat12.c:573): a file_read   *)
(* that returns NULL has set an error.                                      *)
NullMeansError == pc = "idle" /\ call = "file_read" /\ result = "null" => err # "NO"

(* "fats_error: // Error is already set" (fat12.c:572): a file_read that    *)
(* found no memory says so.                                                 *)
NoMemoryIsReported == [][FatsNoMemory /\ IsFileRead => err' = "HEAPFULL"]_vars

(* "if (!file)" (start.c:35): a file_read that failed returns NULL.         *)
FailureReturnsNull == pc = "idle" /\ call = "file_read" /\ err # "NO" => result = "null"
=============================================================================
