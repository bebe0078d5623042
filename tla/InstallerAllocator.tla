--------------------------- MODULE InstallerAllocator ---------------------------
(***************************************************************************)
(* The installer's malloc and free (src/installer/src/std/allocator.c).    *)
(* free joins a returned chunk with an adjacent free one and then calls    *)
(* merge_remove_chunk, which calls itself on the joined chunk until it has *)
(* no free neighbour left.  Each of those calls is a step of this module;  *)
(* the program is sequential, so no malloc or free starts before the       *)
(* recursion is over.                                                      *)
(*                                                                         *)
(* As in ChunkList, a definition named for what it gets wrong is a faulty  *)
(* variant of the one after it, there to test the properties.              *)
(***************************************************************************)
EXTENDS ChunkList

CONSTANT MAX_REQUEST  \* bounds the sizes malloc is called with

ASSUME RequestAssumption == MAX_REQUEST \in Nat

VARIABLES
  allocated,  \* the chunks malloc handed out
  freed,      \* the chunks malloc may cut from
  merging,    \* the slot merge_remove_chunk is called on, or -1
  err,        \* the program's _err; nothing ever resets it
  lost        \* history: the bytes that were in neither list after a failure

vars == <<allocated, freed, merging, err, lost>>

ErrType == {"_ERR_NO", "_ERR_INVARG", "_ERR_HEAPFULL", "_ERR_INTERNAL"}
Idle == merging = -1

Init ==
  /\ allocated = InitAllocated
  /\ freed = InitFreed
  /\ merging = -1
  /\ err = "_ERR_NO"
  /\ lost = {}

(* A call that changes nothing but the error code.                          *)
Fail(code) == err' = code /\ UNCHANGED <<allocated, freed, merging, lost>>

(***************************************************************************)
(* malloc: cut the bytes from the first free chunk that is large enough,   *)
(* then record them in the first empty slot of allocated.                  *)
(***************************************************************************)
MallocZero == Idle /\ Fail("_ERR_INVARG")

MallocHeapFull(size) ==
  /\ Idle
  /\ SlotsFitting(freed, size) = {}
  /\ Fail("_ERR_HEAPFULL")

(* remove_chunk_by_size stops at slot i.                                    *)
CutFreed(i, size) ==
  /\ IsFirst(i, SlotsFitting(freed, size))
  /\ freed' = [freed EXCEPT ![i] = CutFrom(@, size)]

MallocOk(size) ==
  /\ Idle
  /\ \E i \in Slot : \E k \in Slot :
       /\ CutFreed(i, size)
       /\ IsFirst(k, EmptySlots(allocated))
       /\ allocated' = [allocated EXCEPT ![k] = [start |-> freed[i].start,
                                                size |-> size]]
  /\ UNCHANGED <<merging, err, lost>>

(* The bytes are already cut when insert_chunk finds no slot for them, and  *)
(* nothing puts them back.                                                  *)
MallocNoSlot(size) ==
  /\ Idle
  /\ EmptySlots(allocated) = {}
  /\ \E i \in Slot :
       /\ CutFreed(i, size)
       /\ lost' = lost \cup Bytes([start |-> freed[i].start, size |-> size])
  /\ err' = "_ERR_INTERNAL"
  /\ UNCHANGED <<allocated, merging>>

(***************************************************************************)
(* free: take the chunk that starts at ptr out of allocated, then join it  *)
(* with an adjacent free chunk or record it in an empty slot of freed.     *)
(***************************************************************************)
FreeInvalid(ptr) ==
  /\ Idle
  /\ ptr = NULL \/ SlotsAt(allocated, ptr) = {}
  /\ Fail("_ERR_INVARG")

(* remove_chunk_by_address stops at slot i.                                 *)
TakeAllocatedLeavesIt(i, ptr) ==
  Idle /\ ptr # NULL /\ IsFirst(i, SlotsAt(allocated, ptr)) /\ UNCHANGED allocated
TakeAllocated(i, ptr) ==
  /\ Idle
  /\ ptr # NULL
  /\ IsFirst(i, SlotsAt(allocated, ptr))
  /\ allocated' = [allocated EXCEPT ![i] = NoChunk]

FreeMergeOnce(ptr) ==
  /\ \E i \in Slot : \E k \in Slot :
       /\ TakeAllocated(i, ptr)
       /\ IsFirst(k, SlotsAdjacent(freed, allocated[i]))
       /\ freed' = [freed EXCEPT ![k] = Join(@, allocated[i])]
  /\ UNCHANGED <<merging, err, lost>>

FreeMerge(ptr) ==
  /\ \E i \in Slot : \E k \in Slot :
       /\ TakeAllocated(i, ptr)
       /\ IsFirst(k, SlotsAdjacent(freed, allocated[i]))
       /\ freed' = [freed EXCEPT ![k] = Join(@, allocated[i])]
       /\ merging' = k
  /\ UNCHANGED <<err, lost>>

FreeInsert(ptr) ==
  /\ \E i \in Slot : \E k \in Slot :
       /\ TakeAllocated(i, ptr)
       /\ SlotsAdjacent(freed, allocated[i]) = {}
       /\ IsFirst(k, EmptySlots(freed))
       /\ freed' = [freed EXCEPT ![k] = allocated[i]]
  /\ UNCHANGED <<merging, err, lost>>

FreeNoSlot(ptr) ==
  /\ \E i \in Slot :
       /\ TakeAllocated(i, ptr)
       /\ SlotsAdjacent(freed, allocated[i]) = {}
       /\ lost' = lost \cup Bytes(allocated[i])
  /\ EmptySlots(freed) = {}
  /\ err' = "_ERR_INTERNAL"
  /\ UNCHANGED <<freed, merging>>

(***************************************************************************)
(* merge_remove_chunk(&list[merging], list): the chunk of slot merging is  *)
(* absorbed by a neighbour, on which the function then calls itself, or    *)
(* there is no neighbour and the whole recursion returns.                  *)
(***************************************************************************)
MergeRemoveChunkOnEmptied ==
  /\ ~Idle
  /\ \E k \in Slot :
       /\ IsFirst(k, SlotsAdjacent(freed, freed[merging]))
       /\ freed' = [freed EXCEPT ![k] = Join(@, freed[merging]),
                                ![merging] = NoChunk]
  /\ UNCHANGED <<allocated, merging, err, lost>>

MergeRemoveChunk ==
  /\ ~Idle
  /\ \E k \in Slot :
       /\ IsFirst(k, SlotsAdjacent(freed, freed[merging]))
       /\ freed' = [freed EXCEPT ![k] = Join(@, freed[merging]),
                                ![merging] = NoChunk]
       /\ merging' = k
  /\ UNCHANGED <<allocated, err, lost>>

MergeReturn ==
  /\ ~Idle
  /\ SlotsAdjacent(freed, freed[merging]) = {}
  /\ merging' = -1
  /\ UNCHANGED <<allocated, freed, err, lost>>

Malloc == \/ MallocZero
          \/ \E size \in 1 .. MAX_REQUEST :
               MallocHeapFull(size) \/ MallocOk(size) \/ MallocNoSlot(size)

Free == \E ptr \in {NULL} \cup Heap :
          \/ FreeInvalid(ptr)
          \/ FreeMerge(ptr)
          \/ FreeInsert(ptr)
          \/ FreeNoSlot(ptr)

Merge == MergeRemoveChunk \/ MergeReturn

Next == Malloc \/ Free \/ Merge

(* free runs to its end once called: the processor executes the recursion.  *)
Spec == Init /\ [][Next]_vars /\ WF_vars(Merge)

(***************************************************************************)
(* Properties.                                                             *)
(***************************************************************************)
TypeOK ==
  /\ allocated \in List
  /\ freed \in List
  /\ merging \in Slot \cup {-1}
  /\ err \in ErrType
  /\ lost \subseteq Heap

(* A slot is empty or holds a non-empty run of bytes of the heap.  (A chunk *)
(* with a size but no address, or the reverse, is what the two-field test   *)
(* of insert_chunk would take for an occupied slot.)                        *)
SlotsWellFormed == WellFormed(allocated) /\ WellFormed(freed)

(* No byte is in two chunks.                                                *)
NoOverlap == Disjoint(allocated) /\ Disjoint(freed) /\ Apart(allocated, freed)

(* Every byte of the heap is in a chunk, unless a failed call dropped it.   *)
EveryByteAccounted == Heap = BytesOf(allocated) \cup BytesOf(freed) \cup lost

(* No byte is in two chunks, and every byte of the heap is in one, unless a *)
(* failed call dropped it: malloc never hands out a byte twice, nor one     *)
(* that it may hand out again.                                              *)
HeapIsPartitioned == SlotsWellFormed /\ NoOverlap /\ EveryByteAccounted

(* Between calls no two free chunks are adjacent: the recursion has merged  *)
(* everything that can be.                                                  *)
Coalesced == Idle => MergedExceptAt(freed, -1)

(* A request fails with _ERR_HEAPFULL only when no run of free bytes is     *)
(* long enough: every run lies in a single free chunk.                      *)
FreeRunsAreChunks ==
  Idle => \A a, b \in Heap :
            a <= b /\ (a .. b) \subseteq BytesOf(freed)
              => \E i \in Slot : (a .. b) \subseteq Bytes(freed[i])

(* "This is this chunk that will be cut and merge to create the entire      *)
(* alloc-free cycle" (allocator.c:162): when everything is freed, and no    *)
(* call lost memory, the heap is the one chunk alloc_init made.             *)
CycleCloses ==
  Idle /\ lost = {} /\ BytesOf(allocated) = {}
    => \E i \in Slot : freed[i] = [start |-> HEAP_START, size |-> HEAP_SIZE]

(* As long as malloc never lost memory, free finds a place for whatever it  *)
(* takes back: there are never more gaps between the blocks than slots to   *)
(* record them.                                                             *)
FreeFindsPlace ==
  Idle /\ lost = {} => \A i \in Slot :
    allocated[i] = NoChunk
      \/ SlotsAdjacent(freed, allocated[i]) # {} \/ EmptySlots(freed) # {}

(* free returns: merge_remove_chunk does not call itself forever.           *)
MergeTerminates == ~Idle ~> Idle

(* The lists implement the abstract heap of live blocks.                    *)
LiveBlocks == ChunksOf(allocated)
AbstractHeap == INSTANCE HeapSpec WITH live <- LiveBlocks
ImplementsHeap == AbstractHeap!Spec
=============================================================================
