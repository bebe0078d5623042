----------------------- MODULE InstallerAllocator_proofs -----------------------
(***************************************************************************)
(* Theorems about the installer's malloc and free, for any number of       *)
(* slots, any heap and any bound on the requests.                          *)
(*                                                                         *)
(* None of the safety properties is inductive alone: that no byte is in    *)
(* two chunks after a merge rests on the shape of the chunks, and that     *)
(* everything is merged between calls rests on what is still unmerged      *)
(* during one.  Inv is the conjunction that is: while merge_remove_chunk   *)
(* recurses, the only chunk that can have a neighbour is the one of slot   *)
(* merging.                                                                *)
(***************************************************************************)
EXTENDS InstallerAllocator, ChunkList_proofs

Inv ==
  /\ TypeOK
  /\ Sound(allocated, freed)
  /\ EveryByteAccounted
  /\ MergedExceptAt(freed, merging)
  /\ ~Idle => freed[merging].size > 0

(* alloc_init establishes the invariant.                                    *)
LEMMA InitInv == Init => Inv
<1> SUFFICES ASSUME Init PROVE Inv
  OBVIOUS
<1> USE ChunkQtyAssumption, HeapAssumption DEF Init, InitAllocated, InitFreed
<1>1. 0 \in Slot
  BY DEF Slot
<1> DEFINE whole == [start |-> HEAP_START, size |-> HEAP_SIZE]
<1>2. whole \in Chunk /\ whole.size > 0 /\ Bytes(whole) = Heap
  BY DEF Chunk, Bytes, Heap, HEAP_END
<1>3. /\ \A i \in Slot : allocated[i] = NoChunk
      /\ \A i \in Slot : i # 0 => freed[i] = NoChunk
      /\ freed[0] = whole
  BY <1>1
<1>4. allocated \in List /\ freed \in List
  BY <1>2, NoChunkFacts DEF List
<1>5. TypeOK
  BY <1>4 DEF TypeOK, ErrType
<1>6. Sound(allocated, freed)
  <2>1. WellFormed(allocated) /\ WellFormed(freed)
    BY <1>2, <1>3 DEF WellFormed
  <2>2. Disjoint(allocated) /\ Disjoint(freed) /\ Apart(allocated, freed)
    BY <1>3, NoChunkFacts DEF Disjoint, Apart
  <2> QED BY <1>4, <2>1, <2>2 DEF Sound
<1>7. EveryByteAccounted
  <2>1. BytesOf(freed) = Heap
    BY <1>1, <1>2, <1>3, NoChunkFacts DEF BytesOf
  <2>2. BytesOf(allocated) = {}
    BY <1>3, NoChunkFacts DEF BytesOf
  <2> QED BY <2>1, <2>2 DEF EveryByteAccounted
<1>8. MergedExceptAt(freed, merging)
  <2>1. \A i \in Slot : freed[i].size > 0 => i = 0
    BY <1>3 DEF NoChunk
  <2>2. ~Before(freed[0], freed[0])
    BY <1>2, <1>3 DEF Before, Chunk
  <2> QED BY <2>1, <2>2 DEF MergedExceptAt
<1> QED BY <1>5, <1>6, <1>7, <1>8 DEF Inv, Idle

(* A call that fails before it changes a list.                              *)
LEMMA FailInv ==
  ASSUME Inv, NEW code \in ErrType, Fail(code)
  PROVE  Inv'
<1>1. TypeOK'
  BY DEF Inv, TypeOK, Fail
<1> QED BY <1>1 DEF Inv, Fail, EveryByteAccounted, Idle

(* The bytes malloc cuts off, in terms of the invariant.                    *)
LEMMA CutFreedSound ==
  ASSUME Inv, Idle, NEW size \in 1 .. MAX_REQUEST, NEW i \in Slot, CutFreed(i, size),
         NEW piece, piece = [start |-> freed[i].start, size |-> size]
  PROVE  /\ Sound(allocated, freed')
         /\ Outside(piece, allocated) /\ Outside(piece, freed')
         /\ BytesOf(freed) = BytesOf(freed') \cup Bytes(piece)
         /\ MergedExceptAt(freed', -1)
<1>1. size \in Nat /\ size > 0
  BY RequestAssumption
<1>2. i \in SlotsFitting(freed, size)
  BY DEF CutFreed, IsFirst
<1>3. freed' = Put(freed, i, CutFrom(freed[i], size))
  BY DEF CutFreed, Put
<1>4. Sound(allocated, freed) /\ MergedExceptAt(freed, -1)
  BY DEF Inv, Idle
<1>5. MergedExceptAt(freed', -1)
  BY <1>1, <1>2, <1>3, <1>4, CutKeepsMerged
<1> QED BY <1>1, <1>2, <1>3, <1>4, <1>5, CutSound

(* What malloc hands out is recorded in an empty slot of allocated, or lost *)
(* if there is none.                                                        *)
LEMMA MallocOkInv ==
  ASSUME Inv, NEW size \in 1 .. MAX_REQUEST, MallocOk(size)
  PROVE  Inv'
<1>1. PICK i \in Slot, k \in Slot :
        /\ CutFreed(i, size)
        /\ IsFirst(k, EmptySlots(allocated))
        /\ allocated' = [allocated EXCEPT ![k] = [start |-> freed[i].start, size |-> size]]
  BY DEF MallocOk
<1>2. Idle /\ UNCHANGED <<merging, err, lost>>
  BY DEF MallocOk
<1> DEFINE piece == [start |-> freed[i].start, size |-> size]
<1>3. /\ Sound(allocated, freed')
      /\ Outside(piece, allocated) /\ Outside(piece, freed')
      /\ BytesOf(freed) = BytesOf(freed') \cup Bytes(piece)
      /\ MergedExceptAt(freed', -1)
  BY <1>1, <1>2, CutFreedSound
<1>4. allocated[k] = NoChunk
  <2>1. allocated[k].start = 0 /\ allocated[k].size = 0 /\ allocated[k] \in Chunk
    BY <1>1 DEF IsFirst, EmptySlots, Inv, TypeOK, List
  <2> QED BY <2>1 DEF Chunk, NoChunk
<1>5. allocated' = Put(allocated, k, piece)
  BY <1>1 DEF Put
<1> HIDE DEF piece
<1>6. Sound(allocated', freed') /\ BytesOf(allocated') = BytesOf(allocated) \cup Bytes(piece)
  BY <1>3, <1>4, <1>5, InsertSound
<1>7. TypeOK'
  BY <1>2, <1>6 DEF Inv, TypeOK, Sound
<1>8. EveryByteAccounted'
  BY <1>2, <1>3, <1>6 DEF Inv, EveryByteAccounted
<1> QED BY <1>2, <1>3, <1>6, <1>7, <1>8 DEF Inv, Idle

LEMMA MallocNoSlotInv ==
  ASSUME Inv, NEW size \in 1 .. MAX_REQUEST, MallocNoSlot(size)
  PROVE  Inv'
<1>1. PICK i \in Slot :
        /\ CutFreed(i, size)
        /\ lost' = lost \cup Bytes([start |-> freed[i].start, size |-> size])
  BY DEF MallocNoSlot
<1>2. Idle /\ err' = "_ERR_INTERNAL" /\ UNCHANGED <<allocated, merging>>
  BY DEF MallocNoSlot
<1> DEFINE piece == [start |-> freed[i].start, size |-> size]
<1>3. /\ Sound(allocated, freed')
      /\ Outside(piece, allocated)
      /\ BytesOf(freed) = BytesOf(freed') \cup Bytes(piece)
      /\ MergedExceptAt(freed', -1)
  BY <1>1, <1>2, CutFreedSound
<1>4. lost' = lost \cup Bytes(piece)
  BY <1>1
<1> HIDE DEF piece
<1>5. TypeOK'
  BY <1>2, <1>3, <1>4 DEF Inv, TypeOK, Sound, Outside, ErrType
<1>6. EveryByteAccounted'
  BY <1>2, <1>3, <1>4 DEF Inv, EveryByteAccounted
<1> QED BY <1>2, <1>3, <1>5, <1>6 DEF Inv, Idle

(* The chunk free takes back, in terms of the invariant.                    *)
LEMMA TakeAllocatedSound ==
  ASSUME Inv, NEW ptr, NEW i \in Slot, TakeAllocated(i, ptr)
  PROVE  /\ Sound(allocated', freed)
         /\ Outside(allocated[i], allocated') /\ Outside(allocated[i], freed)
         /\ BytesOf(allocated) = BytesOf(allocated') \cup Bytes(allocated[i])
         /\ MergedExceptAt(freed, -1)
<1>1. allocated[i] # NoChunk
  BY DEF TakeAllocated, IsFirst, SlotsAt, NoChunk, NULL
<1>2. allocated' = Put(allocated, i, NoChunk) /\ Idle
  BY DEF TakeAllocated, Put
<1>3. Sound(allocated, freed) /\ MergedExceptAt(freed, -1)
  BY <1>2 DEF Inv, Idle
<1> QED BY <1>1, <1>2, <1>3, TakeSound

(* The three ends of a free: a merge starts, the chunk gets a slot of its   *)
(* own, or it is lost.                                                      *)
LEMMA FreeMergeInv ==
  ASSUME Inv, NEW ptr, FreeMerge(ptr)
  PROVE  Inv'
<1>1. PICK i \in Slot, k \in Slot :
        /\ TakeAllocated(i, ptr)
        /\ IsFirst(k, SlotsAdjacent(freed, allocated[i]))
        /\ freed' = [freed EXCEPT ![k] = Join(@, allocated[i])]
        /\ merging' = k
  BY DEF FreeMerge
<1>2. UNCHANGED <<err, lost>>
  BY DEF FreeMerge
<1> DEFINE c == allocated[i]
<1>3. /\ Sound(allocated', freed)
      /\ Outside(c, allocated') /\ Outside(c, freed)
      /\ BytesOf(allocated) = BytesOf(allocated') \cup Bytes(c)
      /\ MergedExceptAt(freed, -1)
  BY <1>1, TakeAllocatedSound
<1>4. k \in SlotsAdjacent(freed, c) /\ freed' = Put(freed, k, Join(freed[k], c))
  BY <1>1 DEF IsFirst, Put, Inv, TypeOK, List
<1> HIDE DEF c
<1>5. /\ Sound(allocated', freed')
      /\ freed'[k].size > 0
      /\ BytesOf(freed') = BytesOf(freed) \cup Bytes(c)
  BY <1>3, <1>4, JoinSound
<1>6. MergedExceptAt(freed', k)
  BY <1>3, <1>4, ChangeStartsMerge DEF Sound
<1>7. TypeOK'
  BY <1>1, <1>2, <1>5 DEF Inv, TypeOK, Sound
<1>8. EveryByteAccounted'
  BY <1>2, <1>3, <1>5 DEF Inv, EveryByteAccounted
<1> QED BY <1>1, <1>5, <1>6, <1>7, <1>8 DEF Inv

LEMMA FreeInsertInv ==
  ASSUME Inv, NEW ptr, FreeInsert(ptr)
  PROVE  Inv'
<1>1. PICK i \in Slot, k \in Slot :
        /\ TakeAllocated(i, ptr)
        /\ SlotsAdjacent(freed, allocated[i]) = {}
        /\ IsFirst(k, EmptySlots(freed))
        /\ freed' = [freed EXCEPT ![k] = allocated[i]]
  BY DEF FreeInsert
<1>2. Idle /\ UNCHANGED <<merging, err, lost>>
  BY <1>1 DEF FreeInsert, TakeAllocated
<1> DEFINE c == allocated[i]
<1>3. /\ Sound(allocated', freed)
      /\ Outside(c, allocated') /\ Outside(c, freed)
      /\ BytesOf(allocated) = BytesOf(allocated') \cup Bytes(c)
      /\ MergedExceptAt(freed, -1)
  BY <1>1, TakeAllocatedSound
<1>4. SlotsAdjacent(freed, c) = {} /\ freed' = Put(freed, k, c)
  BY <1>1 DEF Put
<1>5. freed[k] = NoChunk
  <2>1. freed[k].start = 0 /\ freed[k].size = 0 /\ freed[k] \in Chunk
    BY <1>1 DEF IsFirst, EmptySlots, Inv, TypeOK, List
  <2> QED BY <2>1 DEF Chunk, NoChunk
<1> HIDE DEF c
<1>6. Sound(freed', allocated') /\ BytesOf(freed') = BytesOf(freed) \cup Bytes(c)
  BY <1>3, <1>4, <1>5, InsertSound, SoundSymmetric
<1>7. Sound(allocated', freed')
  BY <1>6, SoundSymmetric
<1>8. MergedExceptAt(freed', -1)
  BY <1>3, <1>4, InsertKeepsMerged DEF Sound, Outside
<1>9. TypeOK'
  BY <1>2, <1>7 DEF Inv, TypeOK, Sound
<1>10. EveryByteAccounted'
  BY <1>2, <1>3, <1>6 DEF Inv, EveryByteAccounted
<1> QED BY <1>2, <1>7, <1>8, <1>9, <1>10 DEF Inv, Idle

LEMMA FreeNoSlotInv ==
  ASSUME Inv, NEW ptr, FreeNoSlot(ptr)
  PROVE  Inv'
<1>1. PICK i \in Slot :
        TakeAllocated(i, ptr) /\ lost' = lost \cup Bytes(allocated[i])
  BY DEF FreeNoSlot
<1>2. Idle /\ err' = "_ERR_INTERNAL" /\ UNCHANGED <<freed, merging>>
  BY <1>1 DEF FreeNoSlot, TakeAllocated
<1>3. /\ Sound(allocated', freed)
      /\ Outside(allocated[i], freed)
      /\ BytesOf(allocated) = BytesOf(allocated') \cup Bytes(allocated[i])
  BY <1>1, TakeAllocatedSound
<1>4. TypeOK'
  BY <1>1, <1>2, <1>3 DEF Inv, TypeOK, Sound, Outside, ErrType
<1>5. EveryByteAccounted'
  BY <1>1, <1>2, <1>3 DEF Inv, EveryByteAccounted
<1> QED BY <1>2, <1>3, <1>4, <1>5 DEF Inv, Idle

(* One call of merge_remove_chunk: the neighbour k is another slot, since a *)
(* non-empty chunk is not adjacent to itself.                               *)
LEMMA MergeRemoveChunkInv ==
  ASSUME Inv, MergeRemoveChunk
  PROVE  Inv'
<1>1. PICK k \in Slot :
        /\ IsFirst(k, SlotsAdjacent(freed, freed[merging]))
        /\ freed' = [freed EXCEPT ![k] = Join(@, freed[merging]), ![merging] = NoChunk]
        /\ merging' = k
  BY DEF MergeRemoveChunk
<1>2. ~Idle /\ UNCHANGED <<allocated, err, lost>>
  BY DEF MergeRemoveChunk
<1> DEFINE m == merging
           c == freed[m]
           F == Put(freed, m, NoChunk)
<1>3. m \in Slot /\ c \in Chunk /\ c.size > 0
  BY <1>2 DEF Inv, TypeOK, Idle, List
<1>4. c # NoChunk
  BY <1>3 DEF NoChunk
<1>5. k \in SlotsAdjacent(freed, c) /\ k # m
  BY <1>1, <1>3 DEF IsFirst, SlotsAdjacent, Before, Chunk
<1>6. freed \in List
  BY DEF Inv, TypeOK
<1>7. F[k] = freed[k]
  BY <1>5, <1>6 DEF List, Put
<1>8. k \in SlotsAdjacent(F, c)
  BY <1>5, <1>7 DEF SlotsAdjacent
<1>9. freed' = Put(F, k, Join(F[k], c))
  BY <1>1, <1>3, <1>5, <1>6 DEF List, Put
<1>10. Sound(F, allocated) /\ Outside(c, F) /\ Outside(c, allocated)
       /\ BytesOf(freed) = BytesOf(F) \cup Bytes(c)
  <2>1. Sound(freed, allocated)
    BY SoundSymmetric DEF Inv
  <2> QED BY <1>3, <1>4, <2>1, TakeSound
<1>11. MergedExceptAt(F, -1)
  BY <1>3, <1>6, TakeEndsMerge DEF Inv
<1> HIDE DEF m, c, F
<1>12. /\ Sound(allocated, freed')
       /\ freed'[k].size > 0
       /\ BytesOf(freed') = BytesOf(F) \cup Bytes(c)
  BY <1>8, <1>9, <1>10, SoundSymmetric, JoinSound
<1>13. MergedExceptAt(freed', k)
  BY <1>9, <1>10, <1>11, ChangeStartsMerge DEF Sound
<1>14. TypeOK'
  BY <1>1, <1>2, <1>12 DEF Inv, TypeOK, Sound
<1>15. EveryByteAccounted'
  BY <1>2, <1>10, <1>12 DEF Inv, EveryByteAccounted
<1> QED BY <1>1, <1>2, <1>12, <1>13, <1>14, <1>15 DEF Inv

(* The recursion returns when the chunk has no neighbour left.              *)
LEMMA MergeReturnInv ==
  ASSUME Inv, MergeReturn
  PROVE  Inv'
<1>1. /\ merging \in Slot
      /\ SlotsAdjacent(freed, freed[merging]) = {}
      /\ merging' = -1
      /\ UNCHANGED <<allocated, freed, err, lost>>
  BY DEF MergeReturn, Inv, TypeOK, Idle
<1>2. MergedExceptAt(freed, -1)
  BY <1>1 DEF Inv, MergedExceptAt, SlotsAdjacent
<1>3. TypeOK'
  BY <1>1 DEF Inv, TypeOK
<1> QED BY <1>1, <1>2, <1>3 DEF Inv, EveryByteAccounted, Idle

(* Every step preserves the invariant.                                      *)
LEMMA NextInv == Inv /\ [Next]_vars => Inv'
<1> SUFFICES ASSUME Inv, [Next]_vars PROVE Inv'
  OBVIOUS
<1>1. CASE MallocZero
  BY <1>1, FailInv DEF MallocZero, ErrType
<1>2. ASSUME NEW size \in 1 .. MAX_REQUEST, MallocHeapFull(size) PROVE Inv'
  BY <1>2, FailInv DEF MallocHeapFull, ErrType
<1>3. ASSUME NEW size \in 1 .. MAX_REQUEST, MallocOk(size) PROVE Inv'
  BY <1>3, MallocOkInv
<1>4. ASSUME NEW size \in 1 .. MAX_REQUEST, MallocNoSlot(size) PROVE Inv'
  BY <1>4, MallocNoSlotInv
<1>5. ASSUME NEW ptr, FreeInvalid(ptr) PROVE Inv'
  BY <1>5, FailInv DEF FreeInvalid, ErrType
<1>6. ASSUME NEW ptr, FreeMerge(ptr) PROVE Inv'
  BY <1>6, FreeMergeInv
<1>7. ASSUME NEW ptr, FreeInsert(ptr) PROVE Inv'
  BY <1>7, FreeInsertInv
<1>8. ASSUME NEW ptr, FreeNoSlot(ptr) PROVE Inv'
  BY <1>8, FreeNoSlotInv
<1>9. CASE MergeRemoveChunk
  BY <1>9, MergeRemoveChunkInv
<1>10. CASE MergeReturn
  BY <1>10, MergeReturnInv
<1>11. CASE UNCHANGED vars
  BY <1>11 DEF vars, Inv, TypeOK, EveryByteAccounted, Idle
<1> QED BY <1>1, <1>2, <1>3, <1>4, <1>5, <1>6, <1>7, <1>8, <1>9, <1>10, <1>11
        DEF Next, Malloc, Free, Merge

(* The inductive invariant holds in every reachable state.                  *)
THEOREM Invariance == Spec => []Inv
BY InitInv, NextInv, PTL DEF Spec

(* The lists always hold chunks, and what is lost is part of the heap.      *)
THEOREM TypeCorrect == Spec => []TypeOK
<1>1. Inv => TypeOK
  BY DEF Inv
<1> QED BY <1>1, Invariance, PTL

(* malloc never hands out a byte that is in use or outside the heap, and no *)
(* byte of the heap disappears, but for those a call that reported          *)
(* _ERR_INTERNAL dropped.                                                   *)
THEOREM ChunksPartitionHeap == Spec => []HeapIsPartitioned
<1>1. Inv => HeapIsPartitioned
  BY DEF Inv, Sound, HeapIsPartitioned, SlotsWellFormed, NoOverlap
<1> QED BY <1>1, Invariance, PTL

(* Between calls everything that can be merged is: malloc fails for want of *)
(* a run of free bytes, never because a run is in pieces.                   *)
THEOREM FullyMerged == Spec => [](Coalesced /\ FreeRunsAreChunks)
<1>1. Inv => Coalesced
  BY DEF Inv, Coalesced, Idle
<1>2. Inv => FreeRunsAreChunks
  <2> SUFFICES ASSUME Inv, Idle, NEW a \in Heap, NEW b \in Heap, a <= b,
                      (a .. b) \subseteq BytesOf(freed)
               PROVE  \E i \in Slot : (a .. b) \subseteq Bytes(freed[i])
    BY DEF FreeRunsAreChunks
  <2>1. Sound(allocated, freed) /\ MergedExceptAt(freed, -1)
    BY DEF Inv, Idle
  <2> QED BY <2>1, RunInOneChunk
<1> QED BY <1>1, <1>2, Invariance, PTL

(* When every block has been freed the heap is again the single chunk that  *)
(* alloc_init made, in whatever order they were freed.                      *)
THEOREM HeapComesBack == Spec => []CycleCloses
<1>1. Inv => CycleCloses
  <2> SUFFICES ASSUME Inv, Idle, lost = {}, BytesOf(allocated) = {}
               PROVE  \E i \in Slot : freed[i] = [start |-> HEAP_START, size |-> HEAP_SIZE]
    BY DEF CycleCloses
  <2> USE HeapAssumption DEF Heap, HEAP_END
  <2>1. Sound(allocated, freed) /\ MergedExceptAt(freed, -1) /\ BytesOf(freed) = Heap
    BY DEF Inv, Idle, EveryByteAccounted
  <2>2. HEAP_START \in Heap /\ HEAP_END - 1 \in Heap /\ HEAP_START <= HEAP_END - 1
    OBVIOUS
  <2>3. HEAP_START .. (HEAP_END - 1) \subseteq BytesOf(freed)
    BY <2>1
  <2>4. PICK i \in Slot : HEAP_START .. (HEAP_END - 1) \subseteq Bytes(freed[i])
    <3> HIDE DEF Heap, HEAP_END
    <3> QED BY <2>1, <2>2, <2>3, RunInOneChunk
  <2>5. freed[i] \in Chunk
    BY <2>1 DEF Sound, List
  <2>6. Bytes(freed[i]) \subseteq Heap
    BY <2>1 DEF BytesOf
  <2>7. HEAP_START \in Bytes(freed[i]) /\ HEAP_END - 1 \in Bytes(freed[i])
    BY <2>4
  <2>8. freed[i].start \in Heap /\ freed[i].start + freed[i].size - 1 \in Heap
    BY <2>5, <2>6, <2>7, InBytes DEF Chunk
  <2>9. freed[i].start = HEAP_START /\ freed[i].size = HEAP_SIZE
    BY <2>5, <2>7, <2>8, InBytes DEF Chunk
  <2> QED BY <2>5, <2>9 DEF Chunk
<1> QED BY <1>1, Invariance, PTL

(* As long as no call lost memory, free finds a place for whatever block it *)
(* takes back: every free chunk touches a block of its own other than the   *)
(* one given back, so that there are fewer free chunks than slots.          *)
THEOREM FreeHasAPlace == Spec => []FreeFindsPlace
<1>1. Inv => FreeFindsPlace
  <2> SUFFICES ASSUME Inv, Idle, lost = {}, NEW i \in Slot, allocated[i] # NoChunk
               PROVE  SlotsAdjacent(freed, allocated[i]) # {} \/ EmptySlots(freed) # {}
    BY DEF FreeFindsPlace
  <2>1. Sound(allocated, freed) /\ MergedExceptAt(freed, -1)
    BY DEF Inv, Idle
  <2>2. Heap = BytesOf(allocated) \cup BytesOf(freed)
    BY DEF Inv, EveryByteAccounted
  <2> QED BY <2>1, <2>2, SlotIsLeft
<1> QED BY <1>1, Invariance, PTL

(* What the lists do is what HeapSpec promises: malloc adds one block of    *)
(* unused bytes, free retires the one block at its argument, and every      *)
(* other step leaves the live blocks alone.                                 *)
THEOREM ImplementsAbstractHeap == Spec => ImplementsHeap
<1>1. Init => AbstractHeap!Init
  BY DEF Init, InitAllocated, LiveBlocks, ChunksOf, AbstractHeap!Init
<1>2. Inv /\ [Next]_vars => [AbstractHeap!Next]_LiveBlocks
  <2> SUFFICES ASSUME Inv, [Next]_vars PROVE [AbstractHeap!Next]_LiveBlocks
    OBVIOUS
  <2>1. ASSUME NEW size \in 1 .. MAX_REQUEST, MallocOk(size) PROVE AbstractHeap!Malloc
    <3>1. PICK i \in Slot, k \in Slot :
            /\ CutFreed(i, size)
            /\ IsFirst(k, EmptySlots(allocated))
            /\ allocated' = [allocated EXCEPT ![k] = [start |-> freed[i].start, size |-> size]]
      BY <2>1 DEF MallocOk
    <3> DEFINE piece == [start |-> freed[i].start, size |-> size]
    <3>2. Outside(piece, allocated)
      BY <2>1, <3>1, CutFreedSound DEF MallocOk
    <3>3. allocated[k].start = 0 /\ allocated[k].size = 0
      BY <3>1 DEF IsFirst, EmptySlots
    <3>4. allocated[k] = NoChunk /\ allocated' = Put(allocated, k, piece)
      BY <3>1, <3>3 DEF Inv, TypeOK, List, Chunk, NoChunk, Put
    <3>5. piece.size = size /\ piece.start = freed[i].start /\ size \in Nat
      BY RequestAssumption
    <3> HIDE DEF piece
    <3>6. LiveBlocks' = LiveBlocks \cup {piece}
      BY <3>2, <3>4, InsertAddsChunk DEF LiveBlocks, Inv, TypeOK
    <3> DEFINE end == piece.start + size - 1
    <3>7. /\ piece.start \in Heap /\ end \in Heap /\ piece.start <= end
          /\ Bytes(piece) = piece.start .. end
          /\ piece = [start |-> piece.start, size |-> end - piece.start + 1]
      BY <3>2, <3>5 DEF Outside, Bytes, Chunk
    <3>8. \A b \in LiveBlocks : AbstractHeap!Span(b) \cap (piece.start .. end) = {}
      BY <3>2, <3>7 DEF LiveBlocks, ChunksOf, Outside, AbstractHeap!Span, Bytes
    <3> QED BY <3>6, <3>7, <3>8 DEF AbstractHeap!Malloc
  <2>2. ASSUME NEW ptr, NEW i \in Slot, TakeAllocated(i, ptr) PROVE AbstractHeap!Free
    <3>1. allocated[i] # NoChunk /\ allocated' = Put(allocated, i, NoChunk)
      BY <2>2 DEF TakeAllocated, IsFirst, SlotsAt, NoChunk, NULL, Put
    <3>2. allocated[i] \in LiveBlocks /\ LiveBlocks' = LiveBlocks \ {allocated[i]}
      BY <3>1, TakeRemovesChunk DEF LiveBlocks, Inv
    <3> QED BY <3>2 DEF AbstractHeap!Free
  <2>3. ASSUME UNCHANGED allocated PROVE UNCHANGED LiveBlocks
    BY <2>3 DEF LiveBlocks, ChunksOf
  <2>4. CASE Malloc
    BY <2>1, <2>3, <2>4
       DEF Malloc, MallocZero, MallocHeapFull, MallocNoSlot, Fail, AbstractHeap!Next
  <2>5. CASE Free
    BY <2>2, <2>3, <2>5
       DEF Free, FreeInvalid, FreeMerge, FreeInsert, FreeNoSlot, Fail, AbstractHeap!Next
  <2>6. CASE Merge \/ UNCHANGED vars
    BY <2>3, <2>6 DEF Merge, MergeRemoveChunk, MergeReturn, vars
  <2> QED BY <2>4, <2>5, <2>6 DEF Next
<1> QED BY <1>1, <1>2, Invariance, PTL DEF Spec, ImplementsHeap, AbstractHeap!Spec
=============================================================================
