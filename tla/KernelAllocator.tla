----------------------------- MODULE KernelAllocator -----------------------------
(***************************************************************************)
(* The kernel's malloc and free (src/kernel/src/libc/allocator.c).  The    *)
(* lists and their scans are the installer's, but merge_chunk joins a      *)
(* returned chunk with one neighbour only, and no call reports why it      *)
(* failed: malloc returns NULL, free returns.                              *)
(*                                                                         *)
(* As in ChunkList, a definition named for what it gets wrong is a faulty  *)
(* variant of the one after it, there to test the properties.              *)
(***************************************************************************)
EXTENDS ChunkList

CONSTANT MAX_REQUEST  \* bounds the sizes malloc is called with

ASSUME RequestAssumption == MAX_REQUEST \in Nat

VARIABLES
  allocated,  \* the chunks malloc handed out
  freed,      \* the chunks malloc may cut from
  lost        \* history: the bytes that were in neither list after a failure

vars == <<allocated, freed, lost>>

Init ==
  /\ allocated = InitAllocated
  /\ freed = InitFreed
  /\ lost = {}

(***************************************************************************)
(* malloc: cut the bytes from the first free chunk that is large enough,   *)
(* then record them in the first empty slot of allocated.                  *)
(***************************************************************************)
MallocFails(size) ==
  /\ size = 0 \/ SlotsFitting(freed, size) = {}
  /\ UNCHANGED vars

(* remove_chunk_by_size stops at slot i.                                    *)
CutFreed(i, size) ==
  /\ size > 0
  /\ IsFirst(i, SlotsFitting(freed, size))
  /\ freed' = [freed EXCEPT ![i] = CutFrom(@, size)]

MallocOk(size) ==
  /\ \E i \in Slot : \E k \in Slot :
       /\ CutFreed(i, size)
       /\ IsFirst(k, EmptySlots(allocated))
       /\ allocated' = [allocated EXCEPT ![k] = [start |-> freed[i].start,
                                                size |-> size]]
  /\ UNCHANGED lost

(* The bytes are already cut when insert_chunk finds no slot for them.      *)
MallocNoSlot(size) ==
  /\ EmptySlots(allocated) = {}
  /\ \E i \in Slot :
       /\ CutFreed(i, size)
       /\ lost' = lost \cup Bytes([start |-> freed[i].start, size |-> size])
  /\ UNCHANGED allocated

(***************************************************************************)
(* free: take the chunk that starts at ptr out of allocated; merge_chunk   *)
(* joins it with the first adjacent free chunk, or inserts it.             *)
(***************************************************************************)
FreeIgnored(ptr) ==
  /\ ptr = NULL \/ SlotsAt(allocated, ptr) = {}
  /\ UNCHANGED vars

(* remove_chunk_by_address stops at slot i.                                 *)
TakeAllocatedLeavesIt(i, ptr) ==
  ptr # NULL /\ IsFirst(i, SlotsAt(allocated, ptr)) /\ UNCHANGED allocated
TakeAllocated(i, ptr) ==
  /\ ptr # NULL
  /\ IsFirst(i, SlotsAt(allocated, ptr))
  /\ allocated' = [allocated EXCEPT ![i] = NoChunk]

FreeMerge(ptr) ==
  /\ \E i \in Slot : \E k \in Slot :
       /\ TakeAllocated(i, ptr)
       /\ IsFirst(k, SlotsAdjacent(freed, allocated[i]))
       /\ freed' = [freed EXCEPT ![k] = Join(@, allocated[i])]
  /\ UNCHANGED lost

FreeInsert(ptr) ==
  /\ \E i \in Slot : \E k \in Slot :
       /\ TakeAllocated(i, ptr)
       /\ SlotsAdjacent(freed, allocated[i]) = {}
       /\ IsFirst(k, EmptySlots(freed))
       /\ freed' = [freed EXCEPT ![k] = allocated[i]]
  /\ UNCHANGED lost

FreeNoSlot(ptr) ==
  /\ EmptySlots(freed) = {}
  /\ \E i \in Slot :
       /\ TakeAllocated(i, ptr)
       /\ SlotsAdjacent(freed, allocated[i]) = {}
       /\ lost' = lost \cup Bytes(allocated[i])
  /\ UNCHANGED freed

Malloc == \E size \in 0 .. MAX_REQUEST :
            MallocFails(size) \/ MallocOk(size) \/ MallocNoSlot(size)

Free == \E ptr \in {NULL} \cup Heap :
          \/ FreeIgnored(ptr)
          \/ FreeMerge(ptr)
          \/ FreeInsert(ptr)
          \/ FreeNoSlot(ptr)

Next == Malloc \/ Free

Spec == Init /\ [][Next]_vars

(***************************************************************************)
(* Properties.                                                             *)
(***************************************************************************)
TypeOK ==
  /\ allocated \in List
  /\ freed \in List
  /\ lost \subseteq Heap

(* A slot is empty or holds a non-empty run of bytes of the heap.           *)
SlotsWellFormed == WellFormed(allocated) /\ WellFormed(freed)

(* No byte is in two chunks.                                                *)
NoOverlap == Disjoint(allocated) /\ Disjoint(freed) /\ Apart(allocated, freed)

(* Every byte of the heap is in a chunk, unless a failed call dropped it.   *)
EveryByteAccounted == Heap = BytesOf(allocated) \cup BytesOf(freed) \cup lost

(* No byte is in two chunks, and every byte of the heap is in one, unless a *)
(* failed call dropped it: malloc never hands out a byte twice, nor one     *)
(* that it may hand out again.                                              *)
HeapIsPartitioned == SlotsWellFormed /\ NoOverlap /\ EveryByteAccounted

(* "This is this chunk that will be cut and merge to create the entire      *)
(* alloc-free cycle" (allocator.c:102): when everything is freed, and no    *)
(* call lost memory, the heap is the one chunk alloc_init made.             *)
CycleCloses ==
  lost = {} /\ BytesOf(allocated) = {}
    => \E i \in Slot : freed[i] = [start |-> HEAP_START, size |-> HEAP_SIZE]

(* The lists implement the abstract heap of live blocks.                    *)
LiveBlocks == ChunksOf(allocated)
AbstractHeap == INSTANCE HeapSpec WITH live <- LiveBlocks
ImplementsHeap == AbstractHeap!Spec
=============================================================================
