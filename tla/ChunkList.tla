------------------------------- MODULE ChunkList -------------------------------
(***************************************************************************)
(* The chunk lists of the two allocators (src/installer/src/std/           *)
(* allocator.c and src/kernel/src/libc/allocator.c).  A list is an array   *)
(* of CHUNK_QTY slots; a slot holds a chunk, a run of bytes given by its   *)
(* first address and its length, or the empty chunk {0, 0}.  Every loop of *)
(* the C code scans the slots upwards and acts on the first one that       *)
(* satisfies a condition: a condition is written here as the set of slots  *)
(* that satisfy it, and IsFirst picks the slot the loop stops at.          *)
(*                                                                         *)
(* A definition whose name ends in what it gets wrong (SlotsFittingOffBy-  *)
(* One) is a faulty variant of the one after it: the properties are tested *)
(* against these, and nothing else uses them.                              *)
(***************************************************************************)
EXTENDS Integers

CONSTANTS
  CHUNK_QTY,   \* slots of a list (0x4000 in the code)
  HEAP_START,  \* the arguments alloc_init is called with by _start
  HEAP_SIZE

(* HEAP_START is a heap address, hence not NULL.  HEAP_START + HEAP_SIZE    *)
(* is below 2^32 in both programs, so that no address computation wraps:    *)
(* addresses are plain naturals here.                                       *)
ASSUME ChunkQtyAssumption == CHUNK_QTY \in Nat \ {0}
ASSUME HeapAssumption == HEAP_START \in Nat \ {0} /\ HEAP_SIZE \in Nat \ {0}

NULL == 0
HEAP_END == HEAP_START + HEAP_SIZE
Heap == HEAP_START .. HEAP_END - 1

Slot  == 0 .. CHUNK_QTY - 1
Chunk == [start : Nat, size : Nat]
List  == [Slot -> Chunk]

NoChunk == [start |-> 0, size |-> 0]

(* The addresses a chunk stands for, and those of a whole list.             *)
Bytes(c) == c.start .. c.start + c.size - 1
BytesOf(list) == UNION {Bytes(list[i]) : i \in Slot}

(* The chunks of a list, whichever slots they are in.                       *)
ChunksOf(list) == {list[i] : i \in Slot} \ {NoChunk}

(* The slot at which an upward scan for a member of S stops.                *)
IsFirst(i, S) == i \in S /\ \A j \in S : i <= j

(* Slots that insert_chunk, remove_chunk_by_size and                        *)
(* remove_chunk_by_address look for.                                        *)
EmptySlots(list) == {i \in Slot : list[i].start = 0 /\ list[i].size = 0}
SlotsFitting(list, size) == {i \in Slot : list[i].size >= size}
SlotsAt(list, ptr) == {i \in Slot : list[i].start = ptr}

(* Slots whose chunk ends where c begins, or begins where c ends: what the  *)
(* merge functions look for.                                                *)
Before(a, b) == a.start + a.size = b.start
SlotsAdjacentBelow(list, c) == {i \in Slot : Before(list[i], c)}
SlotsAdjacent(list, c) == {i \in Slot : Before(list[i], c) \/ Before(c, list[i])}

(* The chunk that adjacent chunks a (in the list) and c are joined into.    *)
Join(a, c) == [start |-> IF Before(a, c) THEN a.start ELSE c.start,
               size  |-> a.size + c.size]

(* What remove_chunk_by_size leaves of a chunk it takes size bytes from.    *)
CutFromStandsStill(c, size) == IF c.size = size THEN NoChunk
                               ELSE [start |-> c.start, size |-> c.size - size]
CutFrom(c, size) == IF c.size = size THEN NoChunk
                    ELSE [start |-> c.start + size, size |-> c.size - size]

(* What is asked of a list: a slot is empty or holds a non-empty run of     *)
(* bytes of the heap, and no byte is in two slots.  Two lists are apart     *)
(* when they share no byte.  Between the slots of a list that no merge is   *)
(* pending for (all of them, when m is -1), no two chunks are adjacent.     *)
WellFormed(list) ==
  \A i \in Slot : list[i] = NoChunk \/ (list[i].size > 0 /\ Bytes(list[i]) \subseteq Heap)
Disjoint(list) == \A i, j \in Slot : i # j => Bytes(list[i]) \cap Bytes(list[j]) = {}
Apart(list1, list2) == \A i, j \in Slot : Bytes(list1[i]) \cap Bytes(list2[j]) = {}
MergedExceptAt(list, m) ==
  \A i, j \in Slot : list[i].size > 0 /\ list[j].size > 0 /\ Before(list[i], list[j])
                        => i = m \/ j = m

(* The two lists as alloc_init leaves them.                                 *)
InitAllocated == [i \in Slot |-> NoChunk]
InitFreed == [i \in Slot |->
                IF i = 0 THEN [start |-> HEAP_START, size |-> HEAP_SIZE]
                ELSE NoChunk]
=============================================================================
