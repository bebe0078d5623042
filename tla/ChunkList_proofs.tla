---------------------------- MODULE ChunkList_proofs ----------------------------
(***************************************************************************)
(* What the list operations of ChunkList preserve, for lists of any length *)
(* and heaps of any size.  Both allocators are built from these, and the   *)
(* proofs about them cite these lemmas.                                    *)
(***************************************************************************)
EXTENDS ChunkList, FiniteSetTheorems, TLAPS

(* A pair of lists a program may meet: the one of the chunks handed out     *)
(* and the one of the chunks to cut from, in either order.                  *)
Sound(A, F) ==
  /\ A \in List /\ F \in List
  /\ WellFormed(A) /\ WellFormed(F)
  /\ Disjoint(A) /\ Disjoint(F) /\ Apart(A, F)

(* A chunk outside a list: a non-empty run of heap bytes none of which is   *)
(* in it.                                                                   *)
Outside(c, list) ==
  /\ c \in Chunk /\ c.size > 0 /\ Bytes(c) \subseteq Heap
  /\ \A i \in Slot : Bytes(c) \cap Bytes(list[i]) = {}

(* A list with slot i changed, as the lemmas speak of it.                   *)
Put(list, i, c) == [list EXCEPT ![i] = c]

(* Sound does not distinguish the two lists.                                *)
LEMMA SoundSymmetric ==
  ASSUME NEW A, NEW F, Sound(A, F)
  PROVE  Sound(F, A)
BY DEF Sound, Apart

(* Bytes as a condition on addresses, and the empty chunk's.                *)
LEMMA InBytes ==
  ASSUME NEW c \in Chunk
  PROVE  \A x : x \in Bytes(c) <=> x \in Int /\ c.start <= x /\ x < c.start + c.size
BY DEF Bytes, Chunk

LEMMA NoChunkFacts == NoChunk \in Chunk /\ Bytes(NoChunk) = {}
BY DEF NoChunk, Chunk, Bytes

(* Cutting size bytes from the front of a chunk splits it.                  *)
LEMMA CutSplits ==
  ASSUME NEW c \in Chunk, NEW size \in Nat, size > 0, c.size >= size,
         NEW piece, piece = [start |-> c.start, size |-> size]
  PROVE  /\ piece \in Chunk /\ CutFrom(c, size) \in Chunk
         /\ Bytes(piece) \cap Bytes(CutFrom(c, size)) = {}
         /\ Bytes(c) = Bytes(piece) \cup Bytes(CutFrom(c, size))
         /\ CutFrom(c, size) = NoChunk \/ CutFrom(c, size).size > 0
<1>1. piece \in Chunk /\ CutFrom(c, size) \in Chunk
  BY DEF CutFrom, Chunk, NoChunk
<1>2. CASE c.size = size
  <2>1. CutFrom(c, size) = NoChunk
    BY <1>2 DEF CutFrom
  <2>2. piece = c
    BY <1>2 DEF Chunk
  <2> QED BY <1>1, <2>1, <2>2, NoChunkFacts
<1>3. CASE c.size # size
  <2>1. CutFrom(c, size) = [start |-> c.start + size, size |-> c.size - size]
    BY <1>3 DEF CutFrom
  <2>2. c.start \in Nat /\ c.size \in Nat
    BY DEF Chunk
  <2> QED BY <1>1, <1>3, <2>1, <2>2, InBytes
<1> QED BY <1>2, <1>3

(* Two adjacent chunks are joined into a chunk of exactly their bytes.      *)
LEMMA JoinUnites ==
  ASSUME NEW a \in Chunk, NEW c \in Chunk, Before(a, c) \/ Before(c, a)
  PROVE  /\ Join(a, c) \in Chunk
         /\ Join(a, c).size = a.size + c.size
         /\ Bytes(Join(a, c)) = Bytes(a) \cup Bytes(c)
<1>1. a.start \in Nat /\ a.size \in Nat /\ c.start \in Nat /\ c.size \in Nat
  BY DEF Chunk
<1>2. Join(a, c) \in Chunk /\ Join(a, c).size = a.size + c.size
  BY <1>1 DEF Join, Chunk
<1>3. Join(a, c).start = IF Before(a, c) THEN a.start ELSE c.start
  BY DEF Join
<1> QED BY <1>1, <1>2, <1>3, InBytes DEF Before

(* remove_chunk_by_address, and the half of merge_remove_chunk that empties *)
(* the absorbed slot: the chunk taken out is outside both lists.            *)
LEMMA TakeSound ==
  ASSUME NEW A, NEW F, Sound(A, F), NEW i \in Slot, A[i] # NoChunk,
         NEW A2, A2 = Put(A, i, NoChunk)
  PROVE  /\ Sound(A2, F)
         /\ Outside(A[i], A2) /\ Outside(A[i], F)
         /\ BytesOf(A) = BytesOf(A2) \cup Bytes(A[i])
<1> USE DEF Sound
<1>1. /\ A2 \in List
      /\ A2[i] = NoChunk
      /\ \A j \in Slot : j # i => A2[j] = A[j]
  BY NoChunkFacts DEF List, Put
<1>2. A[i] \in Chunk /\ A[i].size > 0 /\ Bytes(A[i]) \subseteq Heap
  BY DEF WellFormed, List
<1>3. WellFormed(A2)
  BY <1>1 DEF WellFormed
<1>4. Disjoint(A2) /\ Apart(A2, F)
  BY <1>1, NoChunkFacts DEF Disjoint, Apart
<1>5. Outside(A[i], A2) /\ Outside(A[i], F)
  BY <1>1, <1>2, NoChunkFacts DEF Outside, Disjoint, Apart
<1>6. BytesOf(A) = BytesOf(A2) \cup Bytes(A[i])
  BY <1>1, NoChunkFacts DEF BytesOf
<1> QED BY <1>1, <1>3, <1>4, <1>5, <1>6

(* insert_chunk of a chunk that is outside both lists.                      *)
LEMMA InsertSound ==
  ASSUME NEW A, NEW F, Sound(A, F), NEW c, Outside(c, A), Outside(c, F),
         NEW k \in Slot, A[k] = NoChunk,
         NEW A2, A2 = Put(A, k, c)
  PROVE  /\ Sound(A2, F)
         /\ BytesOf(A2) = BytesOf(A) \cup Bytes(c)
<1> USE DEF Sound, Outside
<1>1. /\ A2 \in List
      /\ A2[k] = c
      /\ \A j \in Slot : j # k => A2[j] = A[j]
  BY DEF List, Put
<1>2. WellFormed(A2)
  BY <1>1 DEF WellFormed
<1>3. Disjoint(A2) /\ Apart(A2, F)
  BY <1>1 DEF Disjoint, Apart
<1>4. BytesOf(A2) = BytesOf(A) \cup Bytes(c)
  BY <1>1, NoChunkFacts DEF BytesOf
<1> QED BY <1>1, <1>2, <1>3, <1>4

(* The merge of a chunk outside both lists with an adjacent one of F.       *)
LEMMA JoinSound ==
  ASSUME NEW A, NEW F, Sound(A, F), NEW c, Outside(c, A), Outside(c, F),
         NEW k \in SlotsAdjacent(F, c),
         NEW F2, F2 = Put(F, k, Join(F[k], c))
  PROVE  /\ Sound(A, F2)
         /\ F2[k].size > 0
         /\ BytesOf(F2) = BytesOf(F) \cup Bytes(c)
<1> USE DEF Sound, Outside
<1>1. k \in Slot /\ (Before(F[k], c) \/ Before(c, F[k])) /\ F[k] \in Chunk
  BY DEF SlotsAdjacent, List
<1>2. /\ Join(F[k], c) \in Chunk
      /\ Join(F[k], c).size = F[k].size + c.size
      /\ Bytes(Join(F[k], c)) = Bytes(F[k]) \cup Bytes(c)
  BY <1>1, JoinUnites
<1>3. /\ F2 \in List
      /\ F2[k] = Join(F[k], c)
      /\ \A j \in Slot : j # k => F2[j] = F[j]
  BY <1>1, <1>2 DEF List, Put
<1>4. F2[k].size > 0
  BY <1>1, <1>2, <1>3 DEF Chunk
<1>5. Bytes(F[k]) \subseteq Heap
  BY <1>1, NoChunkFacts DEF WellFormed
<1>6. WellFormed(F2)
  BY <1>2, <1>3, <1>4, <1>5 DEF WellFormed
<1>7. Disjoint(F2) /\ Apart(A, F2)
  BY <1>1, <1>2, <1>3 DEF Disjoint, Apart
<1>8. BytesOf(F2) = BytesOf(F) \cup Bytes(c)
  BY <1>1, <1>2, <1>3 DEF BytesOf
<1> QED BY <1>3, <1>4, <1>6, <1>7, <1>8

(* remove_chunk_by_size: the bytes cut off are outside both lists.          *)
LEMMA CutSound ==
  ASSUME NEW A, NEW F, Sound(A, F), NEW size \in Nat, size > 0,
         NEW i \in SlotsFitting(F, size),
         NEW F2, F2 = Put(F, i, CutFrom(F[i], size)),
         NEW piece, piece = [start |-> F[i].start, size |-> size]
  PROVE  /\ Sound(A, F2)
         /\ Outside(piece, A) /\ Outside(piece, F2)
         /\ BytesOf(F) = BytesOf(F2) \cup Bytes(piece)
<1> USE DEF Sound
<1>1. i \in Slot /\ F[i] \in Chunk /\ F[i].size >= size
  BY DEF SlotsFitting, List
<1>2. /\ piece \in Chunk /\ CutFrom(F[i], size) \in Chunk
      /\ Bytes(piece) \cap Bytes(CutFrom(F[i], size)) = {}
      /\ Bytes(F[i]) = Bytes(piece) \cup Bytes(CutFrom(F[i], size))
      /\ CutFrom(F[i], size) = NoChunk \/ CutFrom(F[i], size).size > 0
  BY <1>1, CutSplits
<1>3. /\ F2 \in List
      /\ F2[i] = CutFrom(F[i], size)
      /\ \A j \in Slot : j # i => F2[j] = F[j]
  BY <1>1, <1>2 DEF List, Put
<1>4. Bytes(F[i]) \subseteq Heap
  BY <1>1, NoChunkFacts DEF WellFormed
<1>5. WellFormed(F2)
  BY <1>2, <1>3, <1>4 DEF WellFormed
<1>6. Disjoint(F2) /\ Apart(A, F2)
  BY <1>1, <1>2, <1>3 DEF Disjoint, Apart
<1>7. Outside(piece, A) /\ Outside(piece, F2)
  <2>1. piece.size > 0 /\ Bytes(piece) \subseteq Heap
    BY <1>2, <1>4
  <2>2. \A j \in Slot : Bytes(piece) \cap Bytes(A[j]) = {}
    BY <1>1, <1>2 DEF Apart
  <2>3. \A j \in Slot : Bytes(piece) \cap Bytes(F2[j]) = {}
    BY <1>1, <1>2, <1>3 DEF Disjoint
  <2> QED BY <1>2, <2>1, <2>2, <2>3 DEF Outside
<1>8. BytesOf(F) = BytesOf(F2) \cup Bytes(piece)
  BY <1>1, <1>2, <1>3 DEF BytesOf
<1> QED BY <1>3, <1>5, <1>6, <1>7, <1>8

(* Seen as a set of chunks, a list gains the chunk inserted and loses the   *)
(* one taken, which no other slot can hold as well.                         *)
LEMMA InsertAddsChunk ==
  ASSUME NEW A \in List, NEW k \in Slot, A[k] = NoChunk, NEW c, Outside(c, A)
  PROVE  ChunksOf(Put(A, k, c)) = ChunksOf(A) \cup {c}
BY DEF ChunksOf, Put, List, Outside, NoChunk

LEMMA TakeRemovesChunk ==
  ASSUME NEW A, NEW F, Sound(A, F), NEW i \in Slot, A[i] # NoChunk
  PROVE  /\ A[i] \in ChunksOf(A)
         /\ ChunksOf(Put(A, i, NoChunk)) = ChunksOf(A) \ {A[i]}
<1>1. \A j \in Slot : j # i => A[j] # A[i]
  <2> SUFFICES ASSUME NEW j \in Slot, j # i, A[j] = A[i] PROVE FALSE
    OBVIOUS
  <2>1. A[i] \in Chunk /\ A[i].size > 0
    BY DEF Sound, WellFormed, List
  <2>2. A[i].start \in Bytes(A[i])
    BY <2>1, InBytes DEF Chunk
  <2> QED BY <2>2 DEF Sound, Disjoint
<1> QED BY <1>1 DEF ChunksOf, Put, Sound, List

(* Cutting bytes off the front of a chunk brings no two chunks together.    *)
LEMMA CutKeepsMerged ==
  ASSUME NEW A, NEW F, Sound(A, F), NEW m, MergedExceptAt(F, m),
         NEW size \in Nat, size > 0, NEW i \in SlotsFitting(F, size),
         NEW F2, F2 = Put(F, i, CutFrom(F[i], size))
  PROVE  MergedExceptAt(F2, m)
<1>1. i \in Slot /\ F[i] \in Chunk /\ F[i].size >= size
  BY DEF SlotsFitting, List, Sound
<1>2. /\ F2[i] = CutFrom(F[i], size)
      /\ \A j \in Slot : j # i => F2[j] = F[j]
  BY <1>1 DEF List, Sound, Put
<1>3. SUFFICES ASSUME NEW j \in Slot, NEW k \in Slot, F2[j].size > 0, F2[k].size > 0,
                      Before(F2[j], F2[k])
               PROVE  j = m \/ k = m
  BY DEF MergedExceptAt
<1>4. F[j] \in Chunk /\ F[k] \in Chunk
  BY DEF Sound, List
<1>5. CASE j # i /\ k # i
  BY <1>2, <1>3, <1>5 DEF MergedExceptAt
<1>6. CASE j = i
  <2>1. F[i].size # size /\ F2[i] = [start |-> F[i].start + size, size |-> F[i].size - size]
    BY <1>1, <1>2, <1>3, <1>6 DEF CutFrom, NoChunk
  <2>2. k # i
    BY <1>1, <1>3, <1>6, <2>1 DEF Before, Chunk
  <2>3. Before(F[j], F[k]) /\ F[j].size > 0 /\ F[k].size > 0
    BY <1>1, <1>2, <1>3, <1>6, <2>1, <2>2 DEF Before, Chunk
  <2> QED BY <2>3 DEF MergedExceptAt
<1>7. CASE k = i /\ j # i
  <2>1. F[i].size # size /\ F2[i] = [start |-> F[i].start + size, size |-> F[i].size - size]
    BY <1>1, <1>2, <1>3, <1>7 DEF CutFrom, NoChunk
  <2>2. F[j].size > 0 /\ F[j].start + F[j].size = F[i].start + size
    BY <1>2, <1>3, <1>7, <2>1 DEF Before
  <2>3. F[i].start + size - 1 \in Bytes(F[j]) /\ F[i].start + size - 1 \in Bytes(F[i])
    BY <1>1, <1>4, <2>2 DEF Bytes, Chunk
  <2> QED BY <1>1, <1>7, <2>3 DEF Sound, Disjoint
<1> QED BY <1>5, <1>6, <1>7

(* A chunk inserted because nothing is adjacent to it is merged already.    *)
LEMMA InsertKeepsMerged ==
  ASSUME NEW F \in List, NEW m, MergedExceptAt(F, m),
         NEW c \in Chunk, SlotsAdjacent(F, c) = {},
         NEW k \in Slot, NEW F2, F2 = Put(F, k, c)
  PROVE  MergedExceptAt(F2, m)
<1>1. F2[k] = c /\ \A j \in Slot : j # k => F2[j] = F[j]
  BY DEF List, Put
<1>2. \A j \in Slot : ~Before(F[j], c) /\ ~Before(c, F[j])
  BY DEF SlotsAdjacent
<1>3. c.size > 0 => ~Before(c, c)
  BY DEF Before, Chunk
<1> QED BY <1>1, <1>2, <1>3 DEF MergedExceptAt

(* Emptying the slot a merge is pending for leaves no merge pending, and    *)
(* changing one slot of such a list leaves one pending there at most.       *)
LEMMA TakeEndsMerge ==
  ASSUME NEW F \in List, NEW m \in Slot, MergedExceptAt(F, m)
  PROVE  MergedExceptAt(Put(F, m, NoChunk), -1)
BY DEF MergedExceptAt, List, NoChunk, Put

LEMMA ChangeStartsMerge ==
  ASSUME NEW F \in List, NEW k \in Slot, MergedExceptAt(F, -1), NEW c
  PROVE  MergedExceptAt(Put(F, k, c), k)
<1>1. \A j \in Slot : j # -1
  BY ChunkQtyAssumption DEF Slot
<1> QED BY <1>1 DEF MergedExceptAt, List, Put

(* Once everything is merged, a run of free bytes lies in one chunk: the    *)
(* chunk that holds its first byte cannot end inside the run, as the next   *)
(* byte would be in an adjacent chunk.                                      *)
LEMMA RunInOneChunk ==
  ASSUME NEW A, NEW F, Sound(A, F), MergedExceptAt(F, -1),
         NEW a \in Heap, NEW b \in Heap, a <= b, (a .. b) \subseteq BytesOf(F)
  PROVE  \E i \in Slot : (a .. b) \subseteq Bytes(F[i])
<1> USE DEF Sound
<1>1. a \in Nat /\ b \in Nat
  BY HeapAssumption DEF Heap, HEAP_END
<1>2. PICK i \in Slot : a \in Bytes(F[i])
  BY <1>1 DEF BytesOf
<1>3. F[i] \in Chunk
  BY DEF List
<1> DEFINE e == F[i].start + F[i].size
<1>4. SUFFICES ASSUME e <= b PROVE FALSE
  BY <1>1, <1>2, <1>3, InBytes DEF Chunk
<1>5. e \in a .. b
  BY <1>1, <1>2, <1>3, <1>4, InBytes DEF Chunk
<1>6. PICK j \in Slot : e \in Bytes(F[j])
  BY <1>5 DEF BytesOf
<1>7. F[j] \in Chunk
  BY DEF List
<1>8. e - 1 \in Bytes(F[i]) /\ e \notin Bytes(F[i])
  BY <1>2, <1>3, InBytes DEF Chunk
<1>9. i # j
  BY <1>6, <1>8
<1>10. e - 1 \notin Bytes(F[j])
  BY <1>8, <1>9 DEF Disjoint
<1>11. F[j].start = e
  BY <1>3, <1>6, <1>7, <1>10, InBytes DEF Chunk
<1>12. F[i].size > 0 /\ F[j].size > 0
  BY <1>2, <1>3, <1>6, <1>7, InBytes DEF Chunk
<1>13. i = -1 \/ j = -1
  BY <1>11, <1>12 DEF MergedExceptAt, Before
<1> QED BY <1>13, ChunkQtyAssumption DEF Slot

(***************************************************************************)
(* A list in which all that can be merged is never lacks a slot for a      *)
(* chunk of the other: each of its chunks has next to it a chunk of the    *)
(* other list, on the side of the one that is to be put in, and no two of  *)
(* them the same.                                                          *)
(***************************************************************************)
EndOf(c) == c.start + c.size

(* Chunk c has chunk d at its upper end if it is below b, and at its start  *)
(* if it is above.                                                          *)
NextTo(c, d, b) ==
  \/ EndOf(c) < b.start /\ d.start = EndOf(c)
  \/ EndOf(b) < c.start /\ EndOf(d) = c.start

LEMMA Sides ==
  ASSUME NEW c \in Chunk, NEW d \in Chunk, c.size > 0, d.size > 0, Bytes(c) \cap Bytes(d) = {}
  PROVE  EndOf(c) <= d.start \/ EndOf(d) <= c.start
<1> SUFFICES ASSUME d.start < EndOf(c), c.start < EndOf(d) PROVE FALSE
  BY DEF EndOf, Chunk
<1>1. c.start \in Nat /\ d.start \in Nat /\ c.size \in Nat /\ d.size \in Nat
  BY DEF Chunk
<1>2. CASE c.start <= d.start
  <2>1. d.start \in Bytes(c) /\ d.start \in Bytes(d)
    BY <1>1, <1>2, InBytes DEF EndOf
  <2> QED BY <2>1
<1>3. CASE d.start <= c.start
  <2>1. c.start \in Bytes(c) /\ c.start \in Bytes(d)
    BY <1>1, <1>3, InBytes DEF EndOf
  <2> QED BY <2>1
<1> QED BY <1>1, <1>2, <1>3

(* The byte next to a chunk of F is in a chunk of A that touches it.        *)
LEMMA Neighbour ==
  ASSUME NEW A, NEW F, Sound(A, F), MergedExceptAt(F, -1), Heap = BytesOf(A) \cup BytesOf(F),
         NEW b \in Chunk, b.size > 0, Bytes(b) \subseteq Heap,
         NEW j \in Slot, F[j].size > 0,
         EndOf(F[j]) < b.start \/ EndOf(b) < F[j].start
  PROVE  \E k \in Slot : A[k].size > 0 /\ NextTo(F[j], A[k], b)
<1> USE HeapAssumption DEF Heap, HEAP_END
<1> DEFINE c == F[j]
<1>1. \A m \in Slot : A[m] \in Chunk /\ F[m] \in Chunk
  BY DEF Sound, List
<1>2. /\ c \in Chunk /\ c.start \in Nat /\ c.size \in Nat /\ c.size > 0
      /\ b.start \in Nat /\ b.size \in Nat
  BY <1>1 DEF Chunk
<1>3. c.start \in Heap /\ EndOf(c) - 1 \in Heap /\ b.start \in Heap /\ EndOf(b) - 1 \in Heap
  <2>1. Bytes(c) \subseteq Heap
    BY <1>2 DEF Sound, WellFormed, NoChunk
  <2>2. /\ c.start \in Bytes(c) /\ EndOf(c) - 1 \in Bytes(c)
        /\ b.start \in Bytes(b) /\ EndOf(b) - 1 \in Bytes(b)
    BY <1>2, InBytes DEF EndOf
  <2> QED BY <2>1, <2>2
<1>4. CASE EndOf(c) < b.start
  <2>1. EndOf(c) \in Heap /\ EndOf(c) - 1 \in Bytes(c) /\ EndOf(c) \notin Bytes(c)
    BY <1>2, <1>3, <1>4, InBytes DEF EndOf
  <2>2. \A m \in Slot : EndOf(c) \notin Bytes(F[m])
    <3> SUFFICES ASSUME NEW m \in Slot, EndOf(c) \in Bytes(F[m]) PROVE FALSE
      OBVIOUS
    <3>1. /\ F[m].start \in Nat /\ F[m].size \in Nat
          /\ F[m].start <= EndOf(c) /\ EndOf(c) < F[m].start + F[m].size
      BY <1>1, InBytes DEF Chunk
    <3>2. F[m].start # EndOf(c)
      BY <1>2, <3>1 DEF MergedExceptAt, Before, EndOf, Slot
    <3>3. EndOf(c) - 1 \in Bytes(F[m])
      BY <1>1, <1>2, <3>1, <3>2, InBytes DEF EndOf
    <3>4. m = j
      BY <2>1, <3>3 DEF Sound, Disjoint
    <3> QED BY <2>1, <3>4
  <2>3. PICK k \in Slot : EndOf(c) \in Bytes(A[k])
    BY <2>1, <2>2 DEF BytesOf
  <2>4. /\ A[k].start \in Nat /\ A[k].size \in Nat
        /\ A[k].start <= EndOf(c) /\ EndOf(c) < A[k].start + A[k].size
    BY <1>1, <2>3, InBytes DEF Chunk
  <2>5. A[k].start = EndOf(c)
    <3> SUFFICES ASSUME A[k].start # EndOf(c) PROVE FALSE
      OBVIOUS
    <3>1. EndOf(c) - 1 \in Bytes(A[k])
      BY <1>1, <1>2, <2>4, InBytes DEF EndOf
    <3> QED BY <2>1, <3>1 DEF Sound, Apart
  <2> QED BY <1>2, <1>4, <2>4, <2>5 DEF NextTo, EndOf
<1>5. CASE EndOf(b) < c.start
  <2>1. c.start - 1 \in Heap /\ c.start \in Bytes(c) /\ c.start - 1 \notin Bytes(c)
    BY <1>2, <1>3, <1>5, InBytes DEF EndOf
  <2>2. \A m \in Slot : c.start - 1 \notin Bytes(F[m])
    <3> SUFFICES ASSUME NEW m \in Slot, c.start - 1 \in Bytes(F[m]) PROVE FALSE
      OBVIOUS
    <3>1. /\ F[m].start \in Nat /\ F[m].size \in Nat
          /\ F[m].start <= c.start - 1 /\ c.start - 1 < F[m].start + F[m].size
      BY <1>1, InBytes DEF Chunk
    <3>2. F[m].start + F[m].size # c.start
      BY <1>2, <3>1 DEF MergedExceptAt, Before, Slot
    <3>3. c.start \in Bytes(F[m])
      BY <1>1, <1>2, <3>1, <3>2, InBytes
    <3>4. m = j
      BY <2>1, <3>3 DEF Sound, Disjoint
    <3> QED BY <2>1, <3>4
  <2>3. PICK k \in Slot : c.start - 1 \in Bytes(A[k])
    BY <2>1, <2>2 DEF BytesOf
  <2>4. /\ A[k].start \in Nat /\ A[k].size \in Nat
        /\ A[k].start <= c.start - 1 /\ c.start - 1 < A[k].start + A[k].size
    BY <1>1, <2>3, InBytes DEF Chunk
  <2>5. EndOf(A[k]) = c.start
    <3> SUFFICES ASSUME EndOf(A[k]) # c.start PROVE FALSE
      OBVIOUS
    <3>1. c.start \in Bytes(A[k])
      BY <1>1, <1>2, <2>4, InBytes DEF EndOf
    <3> QED BY <2>1, <3>1 DEF Sound, Apart
  <2> QED BY <1>2, <1>5, <2>4, <2>5 DEF NextTo, EndOf
<1> QED BY <1>4, <1>5

(* A block that touches no free chunk leaves a slot of the free list empty: *)
(* an allocated block touches each free chunk on the side that faces this   *)
(* one, no two of them the same, and the blocks but this one are fewer than *)
(* the slots.                                                               *)
LEMMA SlotIsLeft ==
  ASSUME NEW A, NEW F, Sound(A, F), MergedExceptAt(F, -1), Heap = BytesOf(A) \cup BytesOf(F),
         NEW i \in Slot, A[i] # NoChunk
  PROVE  SlotsAdjacent(F, A[i]) # {} \/ EmptySlots(F) # {}
<1> SUFFICES ASSUME SlotsAdjacent(F, A[i]) = {}, EmptySlots(F) = {} PROVE FALSE
  OBVIOUS
<1> DEFINE b == A[i]
<1>1. \A m \in Slot : A[m] \in Chunk /\ F[m] \in Chunk
  BY DEF Sound, List
<1>2. b \in Chunk /\ b.size > 0 /\ Bytes(b) \subseteq Heap
  BY <1>1 DEF Sound, WellFormed
<1>3. \A j \in Slot : F[j].size > 0
  BY DEF EmptySlots, Sound, WellFormed, NoChunk
<1>4. ASSUME NEW j \in Slot PROVE EndOf(F[j]) < b.start \/ EndOf(b) < F[j].start
  <2>1. EndOf(F[j]) <= b.start \/ EndOf(b) <= F[j].start
    BY <1>1, <1>2, <1>3, Sides DEF Sound, Apart
  <2>2. EndOf(F[j]) # b.start /\ EndOf(b) # F[j].start
    BY DEF SlotsAdjacent, Before, EndOf
  <2>3. EndOf(F[j]) \in Nat /\ b.start \in Nat /\ EndOf(b) \in Nat /\ F[j].start \in Nat
    BY <1>1, <1>2 DEF Chunk, EndOf
  <2> QED BY <2>1, <2>2, <2>3
<1>5. \A j \in Slot : \E k \in Slot : A[k].size > 0 /\ NextTo(F[j], A[k], b)
  <2> HIDE DEF b
  <2> QED BY <1>2, <1>3, <1>4, Neighbour
<1>6. ASSUME NEW j \in Slot PROVE ~ NextTo(F[j], b, b)
  BY <1>1, <1>2, <1>3 DEF NextTo, EndOf, Chunk
<1>7. ASSUME NEW j \in Slot, NEW m \in Slot, NEW k \in Slot, A[k].size > 0,
             NextTo(F[j], A[k], b), NextTo(F[m], A[k], b)
      PROVE  j = m
  <2>1. /\ A[k].start \in Nat /\ A[k].size \in Nat /\ b.start \in Nat /\ b.size \in Nat
        /\ F[j].start \in Nat /\ F[j].size \in Nat /\ F[m].start \in Nat /\ F[m].size \in Nat
        /\ F[j].size > 0 /\ F[m].size > 0 /\ b.size > 0
    BY <1>1, <1>2, <1>3 DEF Chunk
  <2>2. b.start \notin Bytes(A[k])
    <3>1. k # i
      BY <1>6, <1>7
    <3>2. b.start \in Bytes(b)
      BY <1>1, <2>1, InBytes
    <3> QED BY <3>1, <3>2 DEF Sound, Disjoint
  <2>3. ~(A[k].start < b.start /\ b.start < EndOf(A[k]))
    BY <1>1, <2>1, <2>2, InBytes DEF EndOf
  <2>4. EndOf(F[j]) = EndOf(F[m]) \/ F[j].start = F[m].start
    BY <1>7, <2>1, <2>3 DEF NextTo, EndOf
  <2>5. Bytes(F[j]) \cap Bytes(F[m]) # {}
    <3>1. CASE EndOf(F[j]) = EndOf(F[m])
      <4>1. EndOf(F[j]) - 1 \in Bytes(F[j]) /\ EndOf(F[j]) - 1 \in Bytes(F[m])
        BY <1>1, <2>1, <3>1, InBytes DEF EndOf
      <4> QED BY <4>1
    <3>2. CASE F[j].start = F[m].start
      <4>1. F[j].start \in Bytes(F[j]) /\ F[j].start \in Bytes(F[m])
        BY <1>1, <2>1, <3>2, InBytes
      <4> QED BY <4>1
    <3> QED BY <2>4, <3>1, <3>2
  <2> QED BY <2>5 DEF Sound, Disjoint
<1> DEFINE touching == [j \in Slot |-> CHOOSE k \in Slot : A[k].size > 0 /\ NextTo(F[j], A[k], b)]
           others == Slot \ {i}
<1>8. \A j \in Slot : touching[j] \in Slot /\ A[touching[j]].size > 0 /\ NextTo(F[j], A[touching[j]], b)
  BY <1>5
<1>9. touching \in [Slot -> others]
  BY <1>6, <1>8
<1>10. \A j, m \in Slot : touching[j] = touching[m] => j = m
  BY <1>7, <1>8
<1>11. IsFiniteSet(Slot) /\ Cardinality(Slot) \in Nat
  <2>1. 0 \in Int /\ CHUNK_QTY - 1 \in Int
    BY ChunkQtyAssumption
  <2>2. IsFiniteSet(Slot)
    BY <2>1, FS_Interval DEF Slot
  <2>3. Cardinality(Slot) \in Nat
    BY <2>2, FS_CardinalityType
  <2> QED
    BY <2>2, <2>3
<1>12. IsFiniteSet(others) /\ Cardinality(others) = Cardinality(Slot) - 1
  BY <1>11, FS_RemoveElement
<1>13. Cardinality(others) < Cardinality(Slot)
  BY <1>11, <1>12
<1> HIDE DEF touching, others
<1> QED BY <1>9, <1>10, <1>11, <1>12, <1>13, FS_PigeonHole
=============================================================================
