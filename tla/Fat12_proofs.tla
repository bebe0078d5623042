------------------------------ MODULE Fat12_proofs ------------------------------
(***************************************************************************)
(* What is proved of the FAT12 driver, of the file interface over it and    *)
(* of _start, its client.                                                   *)
(*                                                                          *)
(* Of fat12_read_entry (Fat12ReadEntry), for every disk: where the byte     *)
(* that fat12_next_cluster looks at is enough for each link of a chain,     *)
(* the walk follows it, counts it right, and reads nothing but the file.    *)
(*                                                                          *)
(* Of the file interface (Fat12Driver, InstallerStart), for every heap and  *)
(* every length of a path: the invariant keeps account of the blocks.       *)
(* While a call is in progress some of them are the driver's own, through   *)
(* its pointers; those are allocated and are nobody else's, and until an    *)
(* error is set there are no others than those and the caller's.  It holds  *)
(* for any program that makes calls, Spec, and for _start, StartSpec,       *)
(* which also frees what it should not.                                     *)
(***************************************************************************)
EXTENDS InstallerStart, Fat12ReadEntry, TLAPS

(***************************************************************************)
(* The walk of a chain.                                                     *)
(***************************************************************************)

(* What is looked at of an entry e: the low byte of it, or its low half     *)
(* over a half r of its neighbour.                                          *)
LEMMA EvenLink ==
  ASSUME NEW e \in Nat, e < 128
  PROVE  SignedChar(e % 256) % 4096 = e
<1>1. e % 256 = e
  OBVIOUS
<1>2. SignedChar(e) = e
  BY DEF SignedChar
<1>3. e % 4096 = e
  OBVIOUS
<1> QED BY <1>1, <1>2, <1>3

LEMMA OddLink ==
  ASSUME NEW e \in 0 .. 7, NEW r \in 0 .. 15
  PROVE  (SignedChar((e % 16) * 16 + r) \div 16) % 65536 = e
<1>1. e % 16 = e
  OBVIOUS
<1>2. SignedChar(e * 16 + r) = e * 16 + r
  BY DEF SignedChar
<1>3. (e * 16 + r) \div 16 = e
  OBVIOUS
<1>4. e % 65536 = e
  OBVIOUS
<1> QED BY <1>1, <1>2, <1>3, <1>4

(* The same of the marks, whose bytes are negative as chars.                *)
LEMMA EvenMark ==
  ASSUME NEW e \in Nat, 3968 <= e, e < 4096
  PROVE  SignedChar(e % 256) % 4096 = e
<1>1. e % 256 = e - 3840
  OBVIOUS
<1>2. SignedChar(e - 3840) = e - 4096
  BY DEF SignedChar
<1>3. (e - 4096) % 4096 = e
  OBVIOUS
<1> QED BY <1>1, <1>2, <1>3

LEMMA OddMark ==
  ASSUME NEW e \in Nat, 4088 <= e, e < 4096, NEW r \in 0 .. 15
  PROVE  (SignedChar((e % 16) * 16 + r) \div 16) % 65536 = e + 61440
<1>1. e % 16 = e - 4080
  OBVIOUS
<1>2. SignedChar((e - 4080) * 16 + r) = (e - 4096) * 16 + r
  BY DEF SignedChar
<1>3. ((e - 4096) * 16 + r) \div 16 = e - 4096
  OBVIOUS
<1>4. (e - 4096) % 65536 = e + 61440
  OBVIOUS
<1> QED BY <1>1, <1>2, <1>3, <1>4

(* The bytes two entries are packed in.                                     *)
LEMMA BytesOfEntries ==
  ASSUME NEW e \in Nat, e < 4096, NEW o \in Nat, o < 4096
  PROVE  /\ e % 256 \in Nat /\ e % 256 < 256 /\ e \div 256 \in 0 .. 15
         /\ o \div 16 \in Nat /\ o \div 16 < 256
         /\ (o % 16) * 16 + e \div 256 \in Nat /\ (o % 16) * 16 + e \div 256 < 256
<1>1. e % 256 \in Nat /\ e % 256 < 256 
  OBVIOUS
<1>2. e \div 256 \in 0 .. 15
  OBVIOUS
<1>3. o \div 16 \in Nat /\ o \div 16 < 256
  OBVIOUS
<1>4. o % 16 \in 0 .. 15
  OBVIOUS
<1> QED BY <1>1, <1>2, <1>3, <1>4

(* What is left of a number by the cuts of fat12_next_cluster.              *)
LEMMA NextIsShort ==
  ASSUME NEW value \in Int
  PROVE  /\ value \div 16 \in Int
         /\ value % 65536 \in Nat /\ value % 65536 < 65536
         /\ value % 4096 \in Nat /\ value % 4096 < 4096
<1>1. value % 65536 \in Nat /\ value % 65536 < 65536
  OBVIOUS
<1>2. value % 4096 \in Nat /\ value % 4096 < 4096
  OBVIOUS
<1> QED BY <1>1, <1>2

(* Where the entry of a cluster begins: two of them are in three bytes.     *)
LEMMA OffsetEven ==
  ASSUME NEW c \in Nat, c % 2 = 0
  PROVE  /\ (c + c \div 2) % 3 = 0
         /\ 2 * ((c + c \div 2) \div 3) = c
<1> DEFINE k == c \div 2
<1>1. c = 2 * k /\ k \in Nat
  OBVIOUS
<1> HIDE DEF k
<1>2. c + k = 3 * k
  BY <1>1
<1>3. (3 * k) % 3 = 0 /\ (3 * k) \div 3 = k
  BY <1>1
<1> QED BY <1>1, <1>2, <1>3 DEF k

LEMMA OffsetOdd ==
  ASSUME NEW c \in Nat, c % 2 = 1
  PROVE  /\ (c + c \div 2) % 3 = 1
         /\ 2 * ((c + c \div 2) \div 3) + 1 = c
<1> DEFINE k == c \div 2
<1>1. c = 2 * k + 1 /\ k \in Nat
  OBVIOUS
<1> HIDE DEF k
<1>2. c + k = 3 * k + 1
  BY <1>1
<1>3. (3 * k + 1) % 3 = 1 /\ (3 * k + 1) \div 3 = k
  BY <1>1
<1> QED BY <1>1, <1>2, <1>3 DEF k
(* The entry of a cluster of the chain: the cluster after it, or the mark.  *)
LEMMA EntryInChain ==
  ASSUME chain \in Chains, NEW i \in DOMAIN chain
  PROVE  FatEntry(chain[i]) = IF i = Len(chain) THEN endMark ELSE chain[i + 1]
<1> DEFINE c == chain[i]
<1>1. PICK n \in 0 .. MAX_LENGTH : chain \in [1 .. n -> FILE_CLUSTERS]
  BY DEF Chains
<1>2. c \in FILE_CLUSTERS /\ c # 0 /\ c # 1
  BY <1>1, ClustersAssumption
<1>3. ASSUME NEW j \in DOMAIN chain, chain[j] = c
      PROVE  j = i
  BY <1>3 DEF Chains, IsInjective
<1>4. i = CHOOSE j \in DOMAIN chain : chain[j] = c
  BY <1>3
<1> HIDE DEF c
<1>5. FatEntry(c) = LET j == CHOOSE j \in DOMAIN chain : chain[j] = c
                    IN  IF j = Len(chain) THEN endMark ELSE chain[j + 1]
  <2>1. \E j \in DOMAIN chain : chain[j] = c
    BY DEF c
  <2> QED BY <2>1, <1>2 DEF FatEntry
<1> QED BY <1>4, <1>5 DEF c

(* Every entry has 12 bits.                                                 *)
LEMMA EntriesHaveTwelveBits ==
  ASSUME chain \in Chains, endMark \in END_MARKS, NEW c \in Nat
  PROVE  FatEntry(c) \in Nat /\ FatEntry(c) < 4096
<1>0. \A i \in DOMAIN chain : chain[i] # 0 /\ chain[i] # 1
  BY ClustersAssumption DEF Chains
<1>1. CASE c = 0
  <2>1. FatEntry(c) = 3840 + MEDIA
    BY <1>0, <1>1 DEF FatEntry
  <2> QED BY <2>1, HeaderAssumption
<1>2. CASE c = 1
  <2>1. FatEntry(c) = 4095
    BY <1>0, <1>2 DEF FatEntry
  <2> QED BY <2>1
<1>3. CASE c # 0 /\ c # 1 /\ \E i \in DOMAIN chain : chain[i] = c
  <2>1. PICK n \in 0 .. MAX_LENGTH : chain \in [1 .. n -> FILE_CLUSTERS]
    BY DEF Chains
  <2>2. PICK i \in DOMAIN chain : chain[i] = c
    BY <1>3
  <2>3. n \in Nat /\ Len(chain) = n /\ DOMAIN chain = 1 .. n
    BY <2>1, HeaderAssumption
  <2>4. i # Len(chain) => chain[i + 1] \in FILE_CLUSTERS
    BY <2>1, <2>3
  <2>5. FatEntry(c) \in END_MARKS \cup FILE_CLUSTERS
    BY <2>2, <2>4, EntryInChain
  <2> DEFINE e == FatEntry(c)
  <2> HIDE DEF e
  <2>6. CASE e \in END_MARKS
    <3>1. e \in Nat /\ 4088 <= e /\ e < 4096
      BY <2>6, EndAssumption
    <3> QED BY <3>1 DEF e
  <2>7. CASE e \in FILE_CLUSTERS
    <3>1. e \in Nat /\ 2 <= e /\ e < 4080
      BY <2>7, ClustersAssumption
    <3> QED BY <3>1 DEF e
  <2> QED BY <2>5, <2>6, <2>7 DEF e
<1>4. CASE c # 0 /\ c # 1 /\ ~ \E i \in DOMAIN chain : chain[i] = c
  BY <1>4 DEF FatEntry
<1> QED BY <1>1, <1>2, <1>3, <1>4


(* A byte of the FAT is a byte.                                             *)
LEMMA FatByteIsByte ==
  ASSUME chain \in Chains, endMark \in END_MARKS, NEW offset \in Nat
  PROVE  FatByte(offset) \in Nat /\ FatByte(offset) < 256
<1> DEFINE k == 2 * (offset \div 3)
           l == k + 1
<1>1. k \in Nat /\ l \in Nat
  OBVIOUS
<1>2. FatByte(offset) = CASE offset % 3 = 0 -> FatEntry(k) % 256
                          [] offset % 3 = 1 -> (FatEntry(l) % 16) * 16 + FatEntry(k) \div 256
                          [] offset % 3 = 2 -> FatEntry(l) \div 16
  BY DEF FatByte
<1> HIDE DEF k, l
<1>3. FatEntry(k) \in Nat /\ FatEntry(k) < 4096 /\ FatEntry(l) \in Nat /\ FatEntry(l) < 4096
  BY <1>1, EntriesHaveTwelveBits
<1>4. offset % 3 \in {0, 1, 2}
  OBVIOUS
<1>5. /\ FatEntry(k) % 256 \in Nat /\ FatEntry(k) % 256 < 256
      /\ FatEntry(l) \div 16 \in Nat /\ FatEntry(l) \div 16 < 256
      /\ (FatEntry(l) % 16) * 16 + FatEntry(k) \div 256 \in Nat
      /\ (FatEntry(l) % 16) * 16 + FatEntry(k) \div 256 < 256
  BY <1>3, BytesOfEntries
<1> QED BY <1>2, <1>4, <1>5

(* The byte looked at for an even cluster is the low one of its entry, and  *)
(* that for an odd one has the low half of its entry in its high half.      *)
LEMMA ByteOfEven ==
  ASSUME NEW c \in Nat, InFirstSector(c), c % 2 = 0
  PROVE  FatByte((c + c \div 2) % BYTES_PER_SECTOR) = FatEntry(c) % 256
<1> DEFINE offset == c + c \div 2
<1>1. offset % BYTES_PER_SECTOR = offset
  BY HeaderAssumption DEF InFirstSector
<1>2. offset % 3 = 0 /\ 2 * (offset \div 3) = c
  BY OffsetEven
<1> HIDE DEF offset
<1>3. FatByte(offset) = FatEntry(c) % 256
  BY <1>2 DEF FatByte
<1> QED BY <1>1, <1>3 DEF offset

LEMMA ByteOfOdd ==
  ASSUME chain \in Chains, endMark \in END_MARKS,
         NEW c \in Nat, InFirstSector(c), c % 2 = 1
  PROVE  \E r \in 0 .. 15 :
           FatByte((c + c \div 2) % BYTES_PER_SECTOR) = (FatEntry(c) % 16) * 16 + r
<1> DEFINE offset == c + c \div 2
           b == 2 * (offset \div 3)
<1>1. offset % BYTES_PER_SECTOR = offset
  BY HeaderAssumption DEF InFirstSector
<1>2. offset % 3 = 1 /\ b + 1 = c
  BY OffsetOdd
<1>3. b \in Nat
  OBVIOUS
<1>4. FatByte(offset) = (FatEntry(c) % 16) * 16 + FatEntry(b) \div 256
  <2> HIDE DEF offset
  <2>1. offset % 3 # 0 /\ 2 * (offset \div 3) + 1 = c
    BY <1>2
  <2> QED BY <1>2, <2>1 DEF FatByte
<1> HIDE DEF b
<1>5. FatEntry(b) \in Nat /\ FatEntry(b) < 4096
  BY <1>3, EntriesHaveTwelveBits
<1>6. FatEntry(b) \div 256 \in 0 .. 15
  BY <1>5, BytesOfEntries
<1> HIDE DEF offset
<1> WITNESS FatEntry(b) \div 256 \in 0 .. 15
<1> QED BY <1>1, <1>4 DEF offset

LEMMA EvenOrOdd == \A c \in Nat : c % 2 = 0 \/ c % 2 = 1
OBVIOUS

(* What NextCluster does with the byte.                                     *)
LEMMA NextOfEven ==
  ASSUME NEW c \in Nat, InFirstSector(c), c % 2 = 0
  PROVE  NextCluster(c) = SignedChar(FatEntry(c) % 256) % 4096
BY ByteOfEven DEF NextCluster

LEMMA NextOfOdd ==
  ASSUME chain \in Chains, endMark \in END_MARKS,
         NEW c \in Nat, InFirstSector(c), c % 2 = 1
  PROVE  \E r \in 0 .. 15 :
           NextCluster(c) = (SignedChar((FatEntry(c) % 16) * 16 + r) \div 16) % 65536
<1>1. PICK r \in 0 .. 15 :
        FatByte((c + c \div 2) % BYTES_PER_SECTOR) = (FatEntry(c) % 16) * 16 + r
  BY ByteOfOdd
<1> WITNESS r \in 0 .. 15
<1> QED BY <1>1 DEF NextCluster

(* A link that fits in what is looked at is followed.                       *)
LEMMA LinkIsFollowed ==
  ASSUME chain \in Chains, endMark \in END_MARKS, NEW c \in Nat, InFirstSector(c),
         c % 2 = 0 => FatEntry(c) < 128,
         c % 2 = 1 => FatEntry(c) < 8
  PROVE  NextCluster(c) = FatEntry(c)
<1>1. FatEntry(c) \in Nat /\ FatEntry(c) < 4096
  BY EntriesHaveTwelveBits
<1>2. CASE c % 2 = 0
  <2>1. FatEntry(c) \in Nat /\ FatEntry(c) < 128
    BY <1>1, <1>2
  <2> QED BY <1>2, <2>1, NextOfEven, EvenLink
<1>3. CASE c % 2 = 1
  <2>1. FatEntry(c) \in Nat /\ FatEntry(c) < 8
    BY <1>1, <1>3
  <2>2. PICK r \in 0 .. 15 :
          NextCluster(c) = (SignedChar((FatEntry(c) % 16) * 16 + r) \div 16) % 65536
    BY <1>3, NextOfOdd
  <2> QED BY <2>1, <2>2, OddLink
<1> QED BY <1>2, <1>3, EvenOrOdd

(* So is a mark of the end: its byte is negative as a char.                 *)
LEMMA EndIsFound ==
  ASSUME chain \in Chains, endMark \in END_MARKS, NEW c \in Nat, InFirstSector(c),
         FatEntry(c) = endMark
  PROVE  NextCluster(c) >= END
<1>1. FatEntry(c) \in Nat /\ 4088 <= FatEntry(c) /\ FatEntry(c) < 4096
  BY EndAssumption
<1>2. CASE c % 2 = 0
  <2>1. NextCluster(c) = FatEntry(c)
    BY <1>1, <1>2, NextOfEven, EvenMark
  <2> QED BY <1>1, <2>1 DEF END
<1>3. CASE c % 2 = 1
  <2>1. PICK r \in 0 .. 15 :
          NextCluster(c) = (SignedChar((FatEntry(c) % 16) * 16 + r) \div 16) % 65536
    BY <1>3, NextOfOdd
  <2>2. NextCluster(c) = FatEntry(c) + 61440
    BY <1>1, <2>1, OddMark
  <2> QED BY <1>1, <2>2 DEF END
<1> QED BY <1>2, <1>3, EvenOrOdd

(* The next cluster has 16 bits, wherever the walk has got to.              *)
LEMMA NextClusterTyped ==
  ASSUME chain \in Chains, endMark \in END_MARKS, NEW c \in Nat
  PROVE  NextCluster(c) \in Nat /\ NextCluster(c) < 65536
<1> DEFINE offset == (c + c \div 2) % BYTES_PER_SECTOR
           byte == FatByte(offset)
           value == SignedChar(byte)
           half == value \div 16
<1>1. offset \in Nat
  BY HeaderAssumption
<1> HIDE DEF offset
<1>2. byte \in Nat /\ byte < 256
  BY <1>1, FatByteIsByte
<1> HIDE DEF byte
<1>3. value \in Int
  BY <1>2 DEF SignedChar
<1>4. NextCluster(c) = IF c % 2 = 1 THEN half % 65536 ELSE value % 4096
  BY DEF NextCluster, half, value, byte, offset
<1> HIDE DEF value
<1>5. half \in Int
  BY <1>3, NextIsShort
<1> HIDE DEF half
<1>6. /\ half % 65536 \in Nat /\ half % 65536 < 65536
      /\ value % 4096 \in Nat /\ value % 4096 < 4096
  BY <1>3, <1>5, NextIsShort
<1> QED BY <1>4, <1>6


(* What it is to be a chain.                                                *)
LEMMA ChainShape ==
  ASSUME chain \in Chains
  PROVE  /\ Len(chain) \in Nat /\ Len(chain) <= MAX_LENGTH
         /\ DOMAIN chain = 1 .. Len(chain)
         /\ \A i \in 1 .. Len(chain) :
              chain[i] \in Nat /\ 2 <= chain[i] /\ chain[i] < END
         /\ \A i, j \in 1 .. Len(chain) : chain[i] = chain[j] => i = j
         /\ chain = <<>> <=> Len(chain) = 0
<1>1. PICK n \in 0 .. MAX_LENGTH : chain \in [1 .. n -> FILE_CLUSTERS]
  BY DEF Chains
<1>2. n \in Nat /\ Len(chain) = n /\ DOMAIN chain = 1 .. n
  BY <1>1, HeaderAssumption
<1>3. \A i \in 1 .. n : chain[i] \in Nat /\ 2 <= chain[i] /\ chain[i] < END
  <2> SUFFICES ASSUME NEW i \in 1 .. n
               PROVE  chain[i] \in Nat /\ 2 <= chain[i] /\ chain[i] < END
    OBVIOUS
  <2> DEFINE e == chain[i]
  <2>1. e \in FILE_CLUSTERS
    BY <1>1
  <2> HIDE DEF e
  <2>2. e \in Nat /\ 2 <= e /\ e < 4080
    BY <2>1, ClustersAssumption
  <2> QED BY <2>2 DEF END, e
<1>4. \A i, j \in 1 .. n : chain[i] = chain[j] => i = j
  BY <1>2 DEF Chains, IsInjective
<1>5. chain = <<>> <=> n = 0
  BY <1>1, <1>2
<1>6. n <= MAX_LENGTH
  BY <1>1, HeaderAssumption
<1> QED BY <1>2, <1>3, <1>4, <1>5, <1>6

(* Where the walk stands once it has counted size clusters.                 *)
Followed ==
  \/ size < Len(chain) /\ current = chain[size + 1]
  \/ size = Len(chain) /\ current >= END

(* The inductive invariant of the walk of a short chain.                    *)
WalkIInv ==
  /\ chain \in Chains /\ endMark \in END_MARKS
  /\ stage \in {"size", "alloc", "read", "done"}
  /\ current \in Nat /\ current < 65536
  /\ size \in Nat /\ size < SIZE_MODULUS
  /\ returned \in {"none", "ok", "_ERR_HEAPFULL", "_ERR_IO"}
  /\ ShortChainsFollowed

LEMMA WalkInitial == WalkInit => WalkIInv
<1> SUFFICES ASSUME WalkInit PROVE WalkIInv
  OBVIOUS
<1> USE DEF WalkInit
<1>1. chain \in Chains /\ endMark \in END_MARKS
  OBVIOUS
<1>2. current \in Nat /\ current < 65536
  <2>1. CASE chain = <<>>
    BY <2>1 DEF Start
  <2>2. CASE chain # <<>>
    <3>1. 1 \in 1 .. Len(chain) /\ current = chain[1]
      BY <1>1, <2>2, ChainShape DEF Start
    <3> QED BY <1>1, <3>1, ChainShape DEF END
  <2> QED BY <2>1, <2>2
<1>3. size \in Nat /\ size < SIZE_MODULUS
  BY HeaderAssumption
<1>4. ShortChainsFollowed
  <2> SUFFICES ASSUME chain # <<>> PROVE Followed
    BY DEF ShortChainsFollowed, ShortChain, Followed
  <2>1. Len(chain) \in Nat /\ Len(chain) # 0
    BY <1>1, ChainShape
  <2> QED BY <2>1 DEF Followed, Start
<1> QED BY <1>1, <1>2, <1>3, <1>4 DEF WalkIInv

(* From a cluster of a short chain the walk goes to the next one, or ends.  *)
LEMMA StepAlongChain ==
  ASSUME chain \in Chains, endMark \in END_MARKS, ShortChain,
         NEW i \in 1 .. Len(chain)
  PROVE  IF i = Len(chain) THEN NextCluster(chain[i]) >= END
                           ELSE NextCluster(chain[i]) = chain[i + 1]
<1> DEFINE c == chain[i]
<1>1. /\ Len(chain) \in Nat /\ DOMAIN chain = 1 .. Len(chain)
      /\ c \in Nat
  BY ChainShape
<1>0. i # Len(chain) => c # chain[Len(chain)]
  <2>1. Len(chain) \in 1 .. Len(chain)
    BY <1>1
  <2> QED BY <2>1, ChainShape
<1>2. c \in Range(chain)
  BY <1>1 DEF Range
<1>3. InFirstSector(c)
  BY <1>2 DEF ShortChain
<1>4. FatEntry(c) = IF i = Len(chain) THEN endMark ELSE chain[i + 1]
  BY <1>1, EntryInChain
<1>5. CASE i = Len(chain)
  <2>1. FatEntry(c) = endMark
    BY <1>4, <1>5
  <2> HIDE DEF c
  <2>2. NextCluster(c) >= END
    BY <1>1, <1>3, <2>1, EndIsFound
  <2> QED BY <1>5, <2>2 DEF c
<1>6. CASE i # Len(chain)
  <2>1. IsLink(c)
    BY <1>0, <1>2, <1>6 DEF IsLink, Last, ShortChain
  <2>2. FatEntry(c) < IF c % 2 = 0 THEN 128 ELSE 8
    BY <1>2, <2>1 DEF ShortChain
  <2>3. (c % 2 = 0 => FatEntry(c) < 128) /\ (c % 2 = 1 => FatEntry(c) < 8)
    BY <2>2
  <2>4. FatEntry(c) = chain[i + 1]
    BY <1>4, <1>6
  <2> HIDE DEF c
  <2>5. NextCluster(c) = FatEntry(c)
    BY <1>1, <1>3, <2>3, LinkIsFollowed
  <2> QED BY <1>6, <2>4, <2>5 DEF c
<1> QED BY <1>5, <1>6

(* The disk is not written.                                                 *)
LEMMA ShortStaysShort ==
  ASSUME UNCHANGED <<chain, endMark>>
  PROVE  ShortChain' <=> ShortChain
BY DEF ShortChain, InFirstSector, IsLink, Last, FatEntry, Range

LEMMA WalkStep == WalkIInv /\ [WalkNext]_walkVars => WalkIInv'
<1> SUFFICES ASSUME WalkIInv, [WalkNext]_walkVars PROVE WalkIInv'
  OBVIOUS
<1> USE DEF WalkIInv
<1>0. UNCHANGED <<chain, endMark>>
  BY DEF WalkNext, walkVars, CountCluster, CountDone, AllocFails, AllocOk, ReadFails,
         ReadCluster
<1>1. ShortChain' <=> ShortChain
  BY <1>0, ShortStaysShort
<1>2. NextCluster(current) \in Nat /\ NextCluster(current) < 65536
  BY NextClusterTyped
<1>3. /\ Len(chain) \in Nat /\ Len(chain) < SIZE_MODULUS
      /\ \A i \in 1 .. Len(chain) : chain[i] < END
      /\ chain = <<>> <=> Len(chain) = 0
  BY ChainShape, HeaderAssumption
<1>4. CASE CountCluster
  <2> USE <1>4 DEF CountCluster
  <2>1. size' \in Nat /\ size' < SIZE_MODULUS
    BY HeaderAssumption
  <2>2. ASSUME ShortChain PROVE Followed'
    <3>1. size < Len(chain) /\ current = chain[size + 1]
      <4>1. Followed
        BY <2>2 DEF ShortChainsFollowed, Followed
      <4>2. ~ (current >= END)
        BY DEF END
      <4> QED BY <4>1, <4>2 DEF Followed
    <3>2. size + 1 \in 1 .. Len(chain) /\ size + 1 < SIZE_MODULUS
      BY <1>3, <3>1, HeaderAssumption
    <3>3. size' = size + 1
      BY <3>2, HeaderAssumption
    <3>4. IF size + 1 = Len(chain) THEN current' >= END ELSE current' = chain[size + 1 + 1]
      BY <2>2, <3>1, <3>2, StepAlongChain
    <3>5. CASE size + 1 = Len(chain)
      BY <3>3, <3>4, <3>5 DEF Followed
    <3>6. CASE size + 1 # Len(chain)
      <4>1. size' < Len(chain)
        BY <1>3, <3>1, <3>3, <3>6
      <4> QED BY <3>3, <3>4, <3>6, <4>1 DEF Followed
    <3> QED BY <3>5, <3>6
  <2>3. ShortChainsFollowed'
    BY <1>1, <2>2 DEF ShortChainsFollowed, Followed
  <2> QED BY <1>2, <2>1, <2>3
<1>5. CASE CountDone
  <2> USE <1>5 DEF CountDone
  <2>1. ASSUME ShortChain PROVE size = Len(chain)
    <3>1. Followed
      BY <2>1 DEF ShortChainsFollowed, Followed
    <3>2. ~ (size < Len(chain) /\ current = chain[size + 1])
      BY <1>3 DEF END
    <3> QED BY <3>1, <3>2 DEF Followed
  <2>2. ShortChainsFollowed'
    BY <1>1, <2>1 DEF ShortChainsFollowed
  <2> QED BY <2>2
<1>6. CASE AllocFails
  <2>1. ShortChainsFollowed'
    BY <1>1, <1>6 DEF AllocFails, Finish, ShortChainsFollowed
  <2> QED BY <1>6, <2>1 DEF AllocFails, Finish
<1>7. CASE AllocOk
  <2> USE <1>7 DEF AllocOk
  <2>1. current' \in Nat /\ current' < 65536
    <3>1. CASE chain = <<>>
      BY <3>1 DEF Start
    <3>2. CASE chain # <<>>
      <4>1. 1 \in 1 .. Len(chain) /\ current' = chain[1]
        BY <1>3, <3>2 DEF Start
      <4> QED BY <4>1, ChainShape DEF END
    <3> QED BY <3>1, <3>2
  <2>2. ShortChainsFollowed'
    BY <1>1 DEF ShortChainsFollowed
  <2> QED BY <2>1, <2>2
<1>8. CASE ReadFails
  <2>1. ShortChainsFollowed'
    BY <1>1, <1>8 DEF ReadFails, Finish, ShortChainsFollowed
  <2> QED BY <1>8, <2>1 DEF ReadFails, Finish
<1>9. CASE ReadCluster
  <2>1. ShortChainsFollowed'
    BY <1>1, <1>9 DEF ReadCluster, Finish, ShortChainsFollowed
  <2> QED BY <1>2, <1>9, <2>1 DEF ReadCluster, Finish
<1>10. CASE UNCHANGED walkVars
  <2>1. ShortChainsFollowed'
    BY <1>1, <1>10 DEF walkVars, ShortChainsFollowed
  <2> QED BY <1>10, <2>1 DEF walkVars
<1> QED BY <1>4, <1>5, <1>6, <1>7, <1>8, <1>9, <1>10 DEF WalkNext

(* On a chain whose links fit in the byte that is looked at, the first walk *)
(* of fat12_read_entry is always at the cluster after those it has counted, *)
(* so that the buffer is allocated for as many as the chain has.            *)
THEOREM ShortChainsAreFollowed == WalkSpec => []ShortChainsFollowed
<1>1. WalkIInv => ShortChainsFollowed
  BY DEF WalkIInv
<1> QED BY WalkInitial, WalkStep, <1>1, PTL DEF WalkSpec


(* What the first walk sees when there is no file: the media in the entry of *)
(* cluster 0, and free entries from the third byte on.                      *)
LEMMA FarBytesAreFree ==
  ASSUME chain = <<>>, NEW offset \in Nat, offset >= 3
  PROVE  FatByte(offset) = 0
<1> DEFINE k == 2 * (offset \div 3)
           l == k + 1
<1>1. k \in Nat /\ k >= 2 /\ l \in Nat /\ l >= 2
  OBVIOUS
<1>2. FatByte(offset) = CASE offset % 3 = 0 -> FatEntry(k) % 256
                          [] offset % 3 = 1 -> (FatEntry(l) % 16) * 16 + FatEntry(k) \div 256
                          [] offset % 3 = 2 -> FatEntry(l) \div 16
  BY DEF FatByte
<1> HIDE DEF k, l
<1>3. FatEntry(k) = 0 /\ FatEntry(l) = 0
  BY <1>1 DEF FatEntry
<1>4. offset % 3 \in {0, 1, 2}
  OBVIOUS
<1> QED BY <1>2, <1>3, <1>4

(* The sizes of a sector a FAT may have.                                    *)
SectorSizes == {512, 1024, 2048, 4096}

(* Between them and back goes the walk from cluster 0, and never ends.      *)
LEMMA EmptyWalk ==
  ASSUME MEDIA < 248, BYTES_PER_SECTOR \in SectorSizes, chain = <<>>,
         NEW c \in {0, 3840 + MEDIA}
  PROVE  NextCluster(c) \in {0, 3840 + MEDIA}
<1>1. MEDIA \in Nat /\ 240 <= MEDIA
  BY HeaderAssumption
<1>2. CASE c = 0
  <2>1. InFirstSector(0)
    BY HeaderAssumption DEF InFirstSector
  <2>2. FatEntry(0) = 3840 + MEDIA
    BY DEF FatEntry
  <2>3. NextCluster(0) = SignedChar(FatEntry(0) % 256) % 4096
    BY <2>1, NextOfEven
  <2> DEFINE e == 3840 + MEDIA
  <2>4. e \in Nat /\ 3968 <= e /\ e < 4096
    BY <1>1
  <2> HIDE DEF e
  <2>5. NextCluster(0) = e
    BY <2>2, <2>3, <2>4, EvenMark DEF e
  <2> QED BY <1>2, <2>5 DEF e
<1>3. CASE c = 3840 + MEDIA
  <2> DEFINE offset == (c + c \div 2) % BYTES_PER_SECTOR
  <2>1. offset \in Nat /\ offset >= 3
    <3> DEFINE o == c + c \div 2
    <3>1. o \in Nat /\ 6120 <= o /\ o <= 6130
      BY <1>1, <1>3
    <3> HIDE DEF o
    <3>2. o % 512 >= 3 /\ o % 1024 >= 3 /\ o % 2048 >= 3 /\ o % 4096 >= 3
      BY <3>1
    <3>3. /\ o % 512 \in Nat /\ o % 1024 \in Nat
          /\ o % 2048 \in Nat /\ o % 4096 \in Nat
      BY <3>1
    <3> QED BY <3>2, <3>3 DEF o, SectorSizes
  <2> HIDE DEF offset
  <2>2. FatByte(offset) = 0
    BY <2>1, FarBytesAreFree
  <2>3. NextCluster(c) = 0
    <3>1. SignedChar(0) = 0 /\ (0 \div 16) % 65536 = 0 /\ 0 % 4096 = 0
      BY DEF SignedChar
    <3> QED BY <2>2, <3>1 DEF NextCluster, offset
  <2> QED BY <2>3
<1> QED BY <1>2, <1>3

(* The sectors of a cluster come after the reserved ones.                   *)
LEMMA LbaTyped ==
  ASSUME BYTES_PER_SECTOR \in SectorSizes, NEW c \in Nat, c >= 2
  PROVE  ClusterToLba(c) \in Nat
<1> DEFINE r == ROOT_ENTRIES * 32 + BYTES_PER_SECTOR - 1
           s == r \div BYTES_PER_SECTOR
           t == FAT_COUNT * SECTORS_PER_FAT
           u == (c - 2) * SECTORS_PER_CLUSTER
<1>1. r \in Nat
  BY HeaderAssumption
<1> HIDE DEF r
<1>2. s \in Nat
  BY <1>1 DEF SectorSizes
<1> HIDE DEF s
<1>3. t \in Nat
  BY HeaderAssumption
<1> HIDE DEF t
<1>4. u \in Nat
  BY HeaderAssumption
<1> HIDE DEF u
<1>5. ClusterToLba(c) = u + (RESERVED_SECTORS + t + s)
  BY DEF ClusterToLba, u, t, s, r
<1>6. RESERVED_SECTORS \in Nat
  BY HeaderAssumption
<1> QED BY <1>2, <1>3, <1>4, <1>5, <1>6

(* The walk from cluster 0, of a file without clusters, comes to no end; so *)
(* a sector is read only at the start of a chain that is not empty.         *)
OwnIInv ==
  /\ WalkIInv
  /\ chain = <<>> => stage = "size" /\ current \in {0, 3840 + MEDIA}
  /\ stage # "done" => lbas = <<>>
  /\ stage = "read" => current = Start
  /\ lbas \in Seq(Nat)
  /\ OnlyOwnClustersRead

LEMMA OwnInitial == WalkInit => OwnIInv
BY WalkInitial DEF OwnIInv, WalkInit, Start, OnlyOwnClustersRead, Range

(* The one sector the second walk reads is the first of the file.           *)
LEMMA OneSectorRead ==
  ASSUME BYTES_PER_SECTOR \in SectorSizes, OwnIInv, stage = "read",
         lbas' = Append(lbas, ClusterToLba(current)), UNCHANGED chain
  PROVE  lbas' \in Seq(Nat) /\ OnlyOwnClustersRead'
<1>1. chain \in Chains /\ chain # <<>> /\ lbas = <<>> /\ current = Start
  BY DEF OwnIInv, WalkIInv
<1>2. /\ 1 \in DOMAIN chain /\ current = chain[1]
      /\ current \in Nat /\ current >= 2
  <2>1. 1 \in 1 .. Len(chain)
    BY <1>1, ChainShape
  <2> QED BY <1>1, <2>1, ChainShape DEF Start
<1>3. ClusterToLba(current) \in Nat
  BY <1>2, LbaTyped
<1> DEFINE l == ClusterToLba(current)
<1>4. lbas' = <<l>>
  BY <1>1
<1>5. \A k \in Range(lbas') : k = l
  BY <1>4 DEF Range
<1>6. current \in Range(chain)
  BY <1>2 DEF Range
<1>7. \A k \in Range(lbas') : \E c \in Range(chain) : k = ClusterToLba(c)
  BY <1>5, <1>6
<1>8. Range(lbas') = Range(lbas)' /\ Range(chain)' = Range(chain)
  BY DEF Range
<1>9. OnlyOwnClustersRead'
  BY <1>7, <1>8 DEF OnlyOwnClustersRead, ClusterToLba
<1>10. lbas' \in Seq(Nat)
  BY <1>3, <1>4
<1> QED BY <1>9, <1>10

LEMMA OwnStep ==
  ASSUME MEDIA < 248, BYTES_PER_SECTOR \in SectorSizes
  PROVE  OwnIInv /\ [WalkNext]_walkVars => OwnIInv'
<1> SUFFICES ASSUME OwnIInv, [WalkNext]_walkVars PROVE OwnIInv'
  OBVIOUS
<1> USE DEF OwnIInv
<1>0. WalkIInv'
  BY WalkStep
<1>1. UNCHANGED <<chain, endMark>>
  BY DEF WalkNext, walkVars, CountCluster, CountDone, AllocFails, AllocOk, ReadFails,
         ReadCluster
<1>2. UNCHANGED lbas => OnlyOwnClustersRead'
  BY <1>1 DEF OnlyOwnClustersRead, ClusterToLba, Range
<1>3. CASE CountCluster
  <2>1. chain = <<>> => current' \in {0, 3840 + MEDIA}
    BY <1>3, EmptyWalk DEF CountCluster
  <2> QED BY <1>0, <1>1, <1>2, <1>3, <2>1 DEF CountCluster
<1>4. CASE CountDone
  <2>1. chain # <<>>
    <3>1. 240 <= MEDIA /\ MEDIA \in Nat
      BY HeaderAssumption
    <3> QED BY <1>4, <3>1 DEF CountDone, END
  <2> QED BY <1>0, <1>1, <1>2, <1>4, <2>1 DEF CountDone
<1>5. CASE AllocFails
  BY <1>0, <1>1, <1>2, <1>5 DEF AllocFails, Finish
<1>6. CASE AllocOk
  <2>1. current' = Start'
    BY <1>1, <1>6 DEF AllocOk, Start
  <2> QED BY <1>0, <1>1, <1>2, <1>6, <2>1 DEF AllocOk
<1>7. CASE ReadFails
  <2>1. stage = "read" /\ chain # <<>> /\ stage' = "done"
        /\ lbas' = Append(lbas, ClusterToLba(current))
    BY <1>7 DEF ReadFails, Finish
  <2> QED BY <1>0, <1>1, <2>1, OneSectorRead
<1>8. CASE ReadCluster
  <2>1. stage = "read" /\ chain # <<>> /\ stage' = "done"
        /\ lbas' = Append(lbas, ClusterToLba(current))
    BY <1>8 DEF ReadCluster, Finish
  <2> QED BY <1>0, <1>1, <2>1, OneSectorRead
<1>9. CASE UNCHANGED walkVars
  <2>1. Start' = Start
    BY <1>1 DEF Start
  <2> QED BY <1>0, <1>1, <1>2, <1>9, <2>1 DEF walkVars
<1> QED BY <1>3, <1>4, <1>5, <1>6, <1>7, <1>8, <1>9 DEF WalkNext

(* On a disk with the media of a floppy, as the one that boot.asm describes *)
(* (0xF0), and sectors of a size a FAT may have, fat12_read_entry reads no  *)
(* sector of another file, of the FAT or of the root directory, whatever    *)
(* the links of the chain are.  With a media of 0xF8 or more it does: the   *)
(* walk from cluster 0, of an empty file, then ends.                        *)
THEOREM OnlyTheFileIsRead ==
  ASSUME MEDIA < 248, BYTES_PER_SECTOR \in SectorSizes
  PROVE  WalkSpec => []OnlyOwnClustersRead
<1>1. OwnIInv /\ [WalkNext]_walkVars => OwnIInv'
  BY OwnStep
<1>2. OwnIInv => OnlyOwnClustersRead
  BY DEF OwnIInv
<1> QED BY OwnInitial, <1>1, <1>2, PTL DEF WalkSpec

(* The variables of the walk keep their types: a cluster has 16 bits, the   *)
(* addresses are none below the first sector.                               *)
THEOREM WalkTyped ==
  ASSUME MEDIA < 248, BYTES_PER_SECTOR \in SectorSizes
  PROVE  WalkSpec => []WalkTypeOK
<1>1. OwnIInv /\ [WalkNext]_walkVars => OwnIInv'
  BY OwnStep
<1>2. OwnIInv => WalkTypeOK
  <2> SUFFICES ASSUME OwnIInv PROVE WalkTypeOK
    OBVIOUS
  <2>1. size \in 0 .. SIZE_MODULUS - 1
    BY HeaderAssumption DEF OwnIInv, WalkIInv
  <2>2. /\ current \in Nat /\ current < 65536
        /\ chain \in Chains /\ endMark \in END_MARKS
        /\ stage \in {"size", "alloc", "read", "done"}
        /\ lbas \in Seq(Nat)
        /\ returned \in {"none", "ok", "_ERR_HEAPFULL", "_ERR_IO"}
    BY DEF OwnIInv, WalkIInv
  <2> QED BY <2>1, <2>2 DEF WalkTypeOK
<1> QED BY OwnInitial, <1>1, <1>2, PTL DEF WalkSpec

(***************************************************************************)
(* The file interface.                                                      *)
(***************************************************************************)

USE NullAssumption

(* The blocks the call in progress has still to free or to return.  A       *)
(* pointer keeps its value when its block is freed: fats in "list", entries *)
(* in "subdir", "found" and "walk".                                         *)
Own(b) ==
  /\ b \in BLOCKS
  /\ \/ b = dir
     \/ b = fats /\ pc # "list"
     \/ b = entries /\ pc \in {"lookup", "list"}

(* Which pointers are set where, and what is known of _err.                 *)
PointersFit ==
  /\ pc = "idle" => dir = NULL /\ fats = NULL
  /\ pc = "fats" => fats = NULL
  /\ pc # "idle" => call \in {"file_read", "dir_open"} /\ (dir = NULL <=> IsFileRead)
  /\ pc \in {"lookup", "subdir", "found", "walk"} \/ (pc = "root" /\ IsFileRead) => fats # NULL
  /\ pc \in {"lookup", "list"} => entries # NULL
  /\ pc = "list" => ~IsFileRead

NoErrorYet ==
  /\ pc # "idle" => err = before.err
  /\ pc \in {"lookup", "subdir", "found", "walk", "list"} \/ (pc # "idle" /\ IsFileRead) => err = "NO"

(* The tags keep the blocks of different pointers apart.                    *)
OwnIsAllocated ==
  /\ dir \in BLOCKS => heap[dir] = "dir"
  /\ fats \in BLOCKS /\ pc # "list" => heap[fats] = "fats"
  /\ pc \in {"lookup", "list"} => heap[entries] = "entries"

HeldIsApart ==
  /\ \A h \in held : \A b \in h.blocks : heap[b] # "free" /\ ~Own(b)
  /\ \A g, h \in held : g # h => g.blocks \cap h.blocks = {}

Accounted ==
  err = "NO" => \A b \in BLOCKS : heap[b] # "free" => Own(b) \/ \E h \in held : b \in h.blocks

(* The heap of a file_read differs from the one it was called on by the     *)
(* blocks that are its own.                                                 *)
OnlyOwnIsNew ==
  pc # "idle" /\ IsFileRead =>
    \A b \in BLOCKS : IF Own(b) THEN before.heap[b] = "free" ELSE heap[b] = before.heap[b]

EntryIsIntact == pc \in {"subdir", "found"} => it.intact

DriverIInv ==
  /\ TypeOK /\ PointersFit /\ NoErrorYet /\ OwnIsAllocated
  /\ HeldIsApart /\ Accounted /\ OnlyOwnIsNew /\ EntryIsIntact
  /\ MemoryUsedRight /\ ErrorIsFinal /\ FileReadLeavesNoTrace

LEMMA InitDriver == Init => DriverIInv
<1> SUFFICES ASSUME Init PROVE DriverIInv
  OBVIOUS
<1> USE DEF Init
<1>1. TypeOK
  <2>1. path \in Paths
    BY NamesAssumption DEF Paths
  <2>2. heap \in [BLOCKS -> Tags \cup {"free"}]
    OBVIOUS
  <2>3. before \in [heap : [BLOCKS -> Tags \cup {"free"}], err : Errors \cup {"NO"}]
    BY <2>2
  <2> QED
    BY <2>1, <2>2, <2>3 DEF TypeOK, NoEntry, Pointers
<1>2. PointersFit /\ NoErrorYet /\ EntryIsIntact
  BY DEF PointersFit, NoErrorYet, EntryIsIntact
<1>3. OwnIsAllocated /\ HeldIsApart /\ Accounted /\ OnlyOwnIsNew
  BY DEF OwnIsAllocated, HeldIsApart, Accounted, OnlyOwnIsNew
<1>4. MemoryUsedRight /\ ErrorIsFinal /\ FileReadLeavesNoTrace
  BY DEF MemoryUsedRight, ErrorIsFinal, FileReadLeavesNoTrace
<1> QED
  BY <1>1, <1>2, <1>3, <1>4 DEF DriverIInv

(* Another result is held: its blocks are allocated, and were the driver's  *)
(* own or free.                                                             *)
LEMMA HandlesHoldBlocks == TypeOK => \A h \in held : h.blocks \subseteq BLOCKS
  BY DEF TypeOK, Handles

LEMMA NewIsHeld ==
  ASSUME TypeOK, HeldIsApart, NEW kind \in {"disk", "dir", "file"}, NEW S, S \subseteq BLOCKS, S # {},
         held' = held \cup {[kind |-> kind, blocks |-> S]},
         \A b \in S : (heap[b] = "free" \/ Own(b)) /\ heap'[b] # "free" /\ ~Own(b)',
         \A h \in held : \A b \in h.blocks : heap'[b] # "free" /\ ~Own(b)'
  PROVE  /\ HeldIsApart' /\ held' \subseteq Handles
         /\ \A b \in BLOCKS : (\E h \in held : b \in h.blocks) \/ b \in S => \E h \in held' : b \in h.blocks
<1> DEFINE new == [kind |-> kind, blocks |-> S]
<1>1. new \in Handles /\ new.blocks = S /\ held' = held \cup {new}
  BY DEF Handles
<1>2. \A h \in held : h.blocks \cap S = {}
  BY DEF HeldIsApart, TypeOK, Handles
<1> HIDE DEF new
<1>3. \A g, h \in held' : g # h => g.blocks \cap h.blocks = {}
  BY <1>1, <1>2 DEF HeldIsApart
<1>4. \A h \in held' : \A b \in h.blocks : heap'[b] # "free" /\ ~Own(b)'
  BY <1>1
<1>5. \A b \in BLOCKS : (\E h \in held : b \in h.blocks) \/ b \in S => \E h \in held' : b \in h.blocks
  BY <1>1
<1>6. held' \subseteq Handles
  BY <1>1 DEF TypeOK
<1> QED
  BY <1>3, <1>4, <1>5, <1>6 DEF HeldIsApart

LEMMA DiskOpenOkKeeps == DriverIInv /\ DiskOpenOk => DriverIInv'
<1> SUFFICES ASSUME DriverIInv, DiskOpenOk PROVE DriverIInv'
  OBVIOUS
<1> USE DEF DriverIInv
<1>0. PICK b \in BLOCKS : /\ Allocate(b, "disk")
                          /\ IF err = "NO" THEN ReturnNew("disk", {b}) ELSE Return("ok") /\ UNCHANGED held
  BY DEF DiskOpenOk
<1>1. /\ pc = "idle" /\ pc' = "idle" /\ dir' = NULL /\ fats' = NULL /\ entries' = NULL /\ it' = NoEntry
      /\ call' = "disk_open" /\ err' = err /\ path' = path /\ result' = "ok"
      /\ badFree' = badFree /\ badRead' = badRead
      /\ before' = [heap |-> heap, err |-> err]
      /\ heap[b] = "free" /\ heap' = [heap EXCEPT ![b] = "disk"]
  BY <1>0 DEF DiskOpenOk, Enter, Allocate, ReturnNew, Return
<1>2. /\ HeldIsApart' /\ held' \subseteq Handles /\ Accounted'
  <2>1. CASE err = "NO"
    <3>1. held' = held \cup {[kind |-> "disk", blocks |-> {b}]}
      BY <1>0, <2>1 DEF ReturnNew
    <3>2. \A c \in BLOCKS : heap'[c] = (IF c = b THEN "disk" ELSE heap[c]) /\ ~Own(c)'
      BY <1>1 DEF TypeOK, Own
    <3>3. \A h \in held : \A c \in h.blocks : heap'[c] # "free" /\ ~Own(c)'
      BY <3>2, HandlesHoldBlocks DEF HeldIsApart
    <3>4. /\ HeldIsApart' /\ held' \subseteq Handles
          /\ \A c \in BLOCKS : (\E h \in held : c \in h.blocks) \/ c \in {b} => \E h \in held' : c \in h.blocks
      <4>1. \A c \in {b} : (heap[c] = "free" \/ Own(c)) /\ heap'[c] # "free" /\ ~Own(c)'
        BY <1>1, <3>2
      <4>2. TypeOK /\ HeldIsApart /\ {b} \subseteq BLOCKS /\ {b} # {}
        OBVIOUS
      <4> QED
        BY ONLY <3>1, <3>3, <4>1, <4>2, TypeOK, HeldIsApart, NewIsHeld
    <3>5. \A c \in BLOCKS : ~Own(c)
      BY <1>1 DEF PointersFit, Own
    <3> QED
      BY <1>1, <2>1, <3>4, <3>5 DEF Accounted, TypeOK
  <2>2. CASE err # "NO"
    BY <2>2, <1>0, <1>1 DEF HeldIsApart, Accounted, Own, TypeOK, Handles
  <2> QED
    BY <2>1, <2>2
<1>3. TypeOK'
  BY <1>1, <1>2 DEF TypeOK, NoEntry, Pointers, Tags
<1>4. PointersFit' /\ NoErrorYet' /\ EntryIsIntact' /\ OwnIsAllocated' /\ OnlyOwnIsNew'
  BY <1>1 DEF PointersFit, NoErrorYet, EntryIsIntact, OwnIsAllocated, OnlyOwnIsNew
<1>5. MemoryUsedRight' /\ ErrorIsFinal' /\ FileReadLeavesNoTrace'
  BY <1>1 DEF MemoryUsedRight, ErrorIsFinal, FileReadLeavesNoTrace
<1> QED
  BY <1>2, <1>3, <1>4, <1>5

LEMMA FileReadOkKeeps == DriverIInv /\ FileReadOk => DriverIInv'
<1> SUFFICES ASSUME DriverIInv, FileReadOk PROVE DriverIInv'
  OBVIOUS
<1> USE DEF DriverIInv
<1>1. PICK b \in BLOCKS : /\ heap[b] = "free" /\ heap' = [Without({fats}) EXCEPT ![b] = "file"]
                          /\ ReturnNew("file", {b})
  BY DEF FileReadOk
<1>2. /\ pc = "found" /\ call = "file_read" /\ pc' = "idle" /\ dir' = NULL /\ fats' = NULL /\ entries' = NULL
      /\ it' = NoEntry /\ call' = call /\ err' = err /\ path' = path /\ result' = "ok"
      /\ badFree' = badFree /\ badRead' = (badRead \/ ~it.intact) /\ before' = before
      /\ held' = held \cup {[kind |-> "file", blocks |-> {b}]}
  BY <1>1 DEF FileReadOk, FoundEntry, IsFileRead, ReturnNew, Return
<1>3. \A c \in BLOCKS : heap'[c] = IF c = b THEN "file" ELSE IF c = fats THEN "free" ELSE heap[c]
  BY <1>1 DEF Without
<1>4. /\ dir = NULL /\ fats \in BLOCKS /\ heap[fats] = "fats" /\ Own(fats) /\ fats # b
      /\ err = "NO" /\ before.err = "NO"
  <2>1. dir = NULL /\ fats \in BLOCKS
    BY <1>2 DEF PointersFit, TypeOK, Pointers, IsFileRead
  <2>2. heap[fats] = "fats" /\ Own(fats)
    BY <1>2, <2>1 DEF OwnIsAllocated, Own
  <2>3. err = "NO" /\ before.err = "NO"
    BY <1>2 DEF NoErrorYet
  <2> QED
    BY <1>1, <2>1, <2>2, <2>3
<1>5. /\ HeldIsApart' /\ held' \subseteq Handles
      /\ \A c \in BLOCKS : (\E h \in held : c \in h.blocks) \/ c \in {b} => \E h \in held' : c \in h.blocks
  <2>1. \A h \in held : \A c \in h.blocks : c # fats /\ c # b
    BY <1>1, <1>4 DEF HeldIsApart
  <2>2. \A h \in held : \A c \in h.blocks : heap'[c] # "free" /\ ~Own(c)'
    BY <1>2, <1>3, <2>1, HandlesHoldBlocks DEF HeldIsApart, Own
  <2>3. \A c \in {b} : (heap[c] = "free" \/ Own(c)) /\ heap'[c] # "free" /\ ~Own(c)'
    BY <1>1, <1>2, <1>3 DEF Own
  <2>4. TypeOK /\ HeldIsApart /\ {b} \subseteq BLOCKS /\ {b} # {}
    OBVIOUS
  <2>5. held' = held \cup {[kind |-> "file", blocks |-> {b}]}
    BY <1>2
  <2> QED
    BY ONLY <2>2, <2>3, <2>4, <2>5, NewIsHeld
<1>6. Accounted'
  BY <1>2, <1>3, <1>4, <1>5 DEF Accounted, Own
<1>7. TypeOK'
  <2>1. heap' \in [BLOCKS -> Tags \cup {"free"}]
    BY <1>1 DEF Without, TypeOK, Tags
  <2> QED
    BY <2>1, <1>2, <1>5 DEF TypeOK, NoEntry, Pointers
<1>8. PointersFit' /\ NoErrorYet' /\ EntryIsIntact' /\ OwnIsAllocated' /\ OnlyOwnIsNew'
  BY <1>2 DEF PointersFit, NoErrorYet, EntryIsIntact, OwnIsAllocated, OnlyOwnIsNew
<1>9. FileReadLeavesNoTrace'
  BY <1>1, <1>2, <1>3, <1>4 DEF OnlyOwnIsNew, Own, IsFileRead, FileReadLeavesNoTrace
<1> QED
  BY <1>2, <1>4, <1>5, <1>6, <1>7, <1>8, <1>9 DEF MemoryUsedRight, EntryIsIntact, ErrorIsFinal

LEMMA ListReadKeeps == DriverIInv /\ ListRead => DriverIInv'
<1> SUFFICES ASSUME DriverIInv, ListRead PROVE DriverIInv'
  OBVIOUS
<1> USE DEF DriverIInv
<1>1. PICK b \in BLOCKS : /\ heap[b] = "free" /\ heap' = [Without({entries}) EXCEPT ![b] = "dirents"]
                          /\ ReturnNew("dir", {dir, b})
  BY DEF ListRead
<1>2. /\ pc = "list" /\ pc' = "idle" /\ dir' = NULL /\ fats' = NULL /\ entries' = NULL
      /\ it' = NoEntry /\ call' = call /\ err' = err /\ path' = path /\ result' = "ok"
      /\ badFree' = badFree /\ badRead' = badRead /\ before' = before
      /\ held' = held \cup {[kind |-> "dir", blocks |-> {dir, b}]}
  BY <1>1 DEF ListRead, ReturnNew, Return, history
<1>3. \A c \in BLOCKS : heap'[c] = IF c = b THEN "dirents" ELSE IF c = entries THEN "free" ELSE heap[c]
  BY <1>1 DEF Without
<1>4. /\ dir \in BLOCKS /\ heap[dir] = "dir" /\ Own(dir) /\ entries \in BLOCKS /\ heap[entries] = "entries"
      /\ Own(entries) /\ entries # b /\ dir # b /\ entries # dir /\ err = "NO" /\ before.err = "NO"
      /\ call = "dir_open"
  BY <1>1, <1>2 DEF PointersFit, OwnIsAllocated, Own, TypeOK, Pointers, IsFileRead, NoErrorYet
<1>5. /\ HeldIsApart' /\ held' \subseteq Handles
      /\ \A c \in BLOCKS : (\E h \in held : c \in h.blocks) \/ c \in {dir, b} => \E h \in held' : c \in h.blocks
  <2>1. \A h \in held : \A c \in h.blocks : c # entries /\ c # b
    BY <1>1, <1>4 DEF HeldIsApart
  <2>2. \A h \in held : \A c \in h.blocks : heap'[c] # "free" /\ ~Own(c)'
    BY <1>2, <1>3, <2>1, HandlesHoldBlocks DEF HeldIsApart, Own
  <2>3. \A c \in {dir, b} : (heap[c] = "free" \/ Own(c)) /\ heap'[c] # "free" /\ ~Own(c)'
    BY <1>1, <1>2, <1>3, <1>4 DEF Own
  <2>4. TypeOK /\ HeldIsApart /\ {dir, b} \subseteq BLOCKS /\ {dir, b} # {}
    BY <1>4
  <2>5. held' = held \cup {[kind |-> "dir", blocks |-> {dir, b}]}
    BY <1>2
  <2> QED
    BY ONLY <2>2, <2>3, <2>4, <2>5, NewIsHeld
<1>6. Accounted'
  BY <1>2, <1>3, <1>4, <1>5 DEF Accounted, Own
<1>7. TypeOK'
  <2>1. heap' \in [BLOCKS -> Tags \cup {"free"}]
    BY <1>1 DEF Without, TypeOK, Tags
  <2> QED
    BY <2>1, <1>2, <1>5 DEF TypeOK, NoEntry, Pointers
<1>8. PointersFit' /\ NoErrorYet' /\ EntryIsIntact' /\ OwnIsAllocated' /\ OnlyOwnIsNew'
  BY <1>2 DEF PointersFit, NoErrorYet, EntryIsIntact, OwnIsAllocated, OnlyOwnIsNew
<1> QED
  BY <1>2, <1>4, <1>5, <1>6, <1>7, <1>8 DEF MemoryUsedRight, ErrorIsFinal, FileReadLeavesNoTrace
(***************************************************************************)
(* Every step keeps the invariant: the calls that are made, and what the    *)
(* driver does in each of its places.                                       *)
(***************************************************************************)
OpensDisk == DiskOpenNoMemory \/ DiskOpenFails \/ DiskOpenNoGeometry \/ DiskOpenOk

LEMMA OpensDiskKeeps == DriverIInv /\ OpensDisk => DriverIInv'
<1> SUFFICES ASSUME DriverIInv, OpensDisk PROVE DriverIInv'
  OBVIOUS
<1> USE DEF DriverIInv, TypeOK, PointersFit, NoErrorYet, OwnIsAllocated, HeldIsApart,
        Accounted, OnlyOwnIsNew, EntryIsIntact, MemoryUsedRight, ErrorIsFinal,
        FileReadLeavesNoTrace, Own, Enter, Return, ReturnNull, Allocate, Pointers, Tags,
        Errors, NoEntry, Handles
<1>1. CASE DiskOpenNoMemory
  BY <1>1 DEF DiskOpenNoMemory
<1>2. CASE DiskOpenFails
  BY <1>2 DEF DiskOpenFails
<1>3. CASE DiskOpenNoGeometry
  BY <1>3 DEF DiskOpenNoGeometry
<1>4. CASE DiskOpenOk
  BY ONLY DriverIInv, <1>4, DiskOpenOkKeeps
<1> QED
  BY ONLY OpensDisk, <1>1, <1>2, <1>3, <1>4 DEF OpensDisk

GivesBack == DiskClose \/ DirClose \/ FileFree

LEMMA GivesBackKeeps == DriverIInv /\ GivesBack => DriverIInv'
<1> SUFFICES ASSUME DriverIInv, GivesBack PROVE DriverIInv'
  OBVIOUS
<1> USE DEF DriverIInv, TypeOK, PointersFit, NoErrorYet, OwnIsAllocated, HeldIsApart,
        Accounted, OnlyOwnIsNew, EntryIsIntact, MemoryUsedRight, ErrorIsFinal,
        FileReadLeavesNoTrace, Own, GiveBack, Enter, Free, Without, HeldOf, locals,
        Pointers, Tags, Errors, NoEntry, Handles
<1>1. CASE DiskClose
  BY <1>1 DEF DiskClose
<1>2. CASE DirClose
  BY <1>2 DEF DirClose
<1>3. CASE FileFree
  BY <1>3 DEF FileFree
<1> QED
  BY ONLY GivesBack, <1>1, <1>2, <1>3 DEF GivesBack

CallsDriver == FileReadRefused \/ FileRead \/ DirOpenNoMemory \/ DirOpen

LEMMA CallsDriverKeeps == DriverIInv /\ CallsDriver => DriverIInv'
<1> SUFFICES ASSUME DriverIInv, CallsDriver PROVE DriverIInv'
  OBVIOUS
<1> USE DEF DriverIInv, TypeOK, PointersFit, NoErrorYet, OwnIsAllocated, HeldIsApart,
        Accounted, OnlyOwnIsNew, EntryIsIntact, MemoryUsedRight, ErrorIsFinal,
        FileReadLeavesNoTrace, Own, CallOnDisk, Enter, Return, ReturnNull, Allocate,
        IsFileRead, Handles, locals, Pointers, Tags, Errors, NoEntry
<1>1. CASE FileReadRefused
  BY <1>1 DEF FileReadRefused
<1>2. CASE FileRead
  BY <1>2 DEF FileRead
<1>3. CASE DirOpenNoMemory
  BY <1>3 DEF DirOpenNoMemory
<1>4. CASE DirOpen
  BY <1>4 DEF DirOpen
<1> QED
  BY ONLY CallsDriver, <1>1, <1>2, <1>3, <1>4 DEF CallsDriver

AtFats == FatsNoMemory \/ FatsRead \/ FatsReadAfterError

LEMMA AtFatsKeeps == DriverIInv /\ AtFats => DriverIInv'
<1> SUFFICES ASSUME DriverIInv, AtFats PROVE DriverIInv'
  OBVIOUS
<1> USE DEF DriverIInv, TypeOK, PointersFit, NoErrorYet, OwnIsAllocated, HeldIsApart,
        Accounted, OnlyOwnIsNew, EntryIsIntact, MemoryUsedRight, ErrorIsFinal,
        FileReadLeavesNoTrace, Own, FailWith, Free, Without, Goto, Return, ReturnNull,
        Allocate, IsFileRead, Handles, Pointers, Tags, Errors, NoEntry
<1>1. CASE FatsNoMemory
  BY <1>1 DEF FatsNoMemory
<1>2. CASE FatsRead
  BY <1>2 DEF FatsRead
<1>3. CASE FatsReadAfterError
  BY <1>3 DEF FatsReadAfterError
<1> QED
  BY ONLY AtFats, <1>1, <1>2, <1>3 DEF AtFats

AtRoot == RootNoMemory \/ RootRead \/ RootReadAfterError

LEMMA AtRootKeeps == DriverIInv /\ AtRoot => DriverIInv'
<1> SUFFICES ASSUME DriverIInv, AtRoot PROVE DriverIInv'
  OBVIOUS
<1> USE DEF DriverIInv, TypeOK, PointersFit, NoErrorYet, OwnIsAllocated, HeldIsApart,
        Accounted, OnlyOwnIsNew, EntryIsIntact, MemoryUsedRight, ErrorIsFinal,
        FileReadLeavesNoTrace, Own, FailWith, Free, Without, Goto, Return, ReturnNull,
        Allocate, IsFileRead, ListsRoot, Handles, history, Pointers, Tags, Errors, NoEntry
<1>1. CASE RootNoMemory
  BY <1>1 DEF RootNoMemory
<1>2. CASE RootRead
  BY <1>2 DEF RootRead
<1>3. CASE RootReadAfterError
  BY <1>3 DEF RootReadAfterError
<1> QED
  BY ONLY AtRoot, <1>1, <1>2, <1>3 DEF AtRoot

AtLookup == LookupNoName \/ LookupNotFound \/ LookupNotADir \/ LookupDescend \/ LookupLast

LEMMA AtLookupKeeps == DriverIInv /\ AtLookup => DriverIInv'
<1> SUFFICES ASSUME DriverIInv, AtLookup PROVE DriverIInv'
  OBVIOUS
<1> USE NamesAssumption DEF DriverIInv, TypeOK, PointersFit, NoErrorYet, OwnIsAllocated,
        HeldIsApart, Accounted, OnlyOwnIsNew, EntryIsIntact, MemoryUsedRight, ErrorIsFinal,
        FileReadLeavesNoTrace, Own, FailWith, Free, Without, Goto, Return, ReturnNull,
        IsFileRead, Lookup, MoreNames, Found, Paths, Handles, Pointers, Tags, Errors,
        NoEntry
<1>1. CASE LookupNoName
  BY <1>1 DEF LookupNoName
<1>2. CASE LookupNotFound
  BY <1>2 DEF LookupNotFound
<1>3. CASE LookupNotADir
  BY <1>3 DEF LookupNotADir
<1>4. CASE LookupDescend
  BY <1>4 DEF LookupDescend
<1>5. CASE LookupLast
  BY <1>5 DEF LookupLast
<1> QED
  BY ONLY AtLookup, <1>1, <1>2, <1>3, <1>4, <1>5 DEF AtLookup

AtSubdir == SubdirFails \/ SubdirRead

LEMMA AtSubdirKeeps == DriverIInv /\ AtSubdir => DriverIInv'
<1> SUFFICES ASSUME DriverIInv, AtSubdir PROVE DriverIInv'
  OBVIOUS
<1> USE DEF DriverIInv, TypeOK, PointersFit, NoErrorYet, OwnIsAllocated, HeldIsApart,
        Accounted, OnlyOwnIsNew, EntryIsIntact, MemoryUsedRight, ErrorIsFinal,
        FileReadLeavesNoTrace, Own, FailWith, Free, Without, Goto, Return, ReturnNull,
        Allocate, Overwrite, EntryErrors, IsFileRead, Handles, Pointers, Tags, Errors,
        NoEntry
<1>1. CASE SubdirFails
  BY <1>1 DEF SubdirFails
<1>2. CASE SubdirRead
  BY <1>2 DEF SubdirRead
<1> QED
  BY ONLY AtSubdir, <1>1, <1>2 DEF AtSubdir

AtFound ==
  \/ FileReadDirectory
  \/ FileReadFails
  \/ FileReadOk
  \/ DirOpenNotADir
  \/ DirOpenFails
  \/ DirOpenRead

LEMMA AtFoundKeeps == DriverIInv /\ AtFound => DriverIInv'
<1> SUFFICES ASSUME DriverIInv, AtFound PROVE DriverIInv'
  OBVIOUS
<1> USE DEF DriverIInv, TypeOK, PointersFit, NoErrorYet, OwnIsAllocated, HeldIsApart,
        Accounted, OnlyOwnIsNew, EntryIsIntact, MemoryUsedRight, ErrorIsFinal,
        FileReadLeavesNoTrace, Own, FoundEntry, EntryErrors, Free, Without, Return,
        ReturnNull, IsFileRead, Handles, Pointers, Tags, Errors, NoEntry
<1>1. CASE FileReadDirectory
  BY <1>1 DEF FileReadDirectory
<1>2. CASE FileReadFails
  BY <1>2 DEF FileReadFails
<1>3. CASE FileReadOk
  BY ONLY DriverIInv, <1>3, FileReadOkKeeps
<1>4. CASE DirOpenNotADir
  BY <1>4 DEF DirOpenNotADir
<1>5. CASE DirOpenFails
  BY <1>5 DEF DirOpenFails
<1>6. CASE DirOpenRead
  BY <1>6 DEF DirOpenRead
<1> QED
  BY ONLY AtFound, <1>1, <1>2, <1>3, <1>4, <1>5, <1>6 DEF AtFound

AtWalk == WalkHasNoEnd \/ WalkGoesOn

LEMMA AtWalkKeeps == DriverIInv /\ AtWalk => DriverIInv'
<1> SUFFICES ASSUME DriverIInv, AtWalk PROVE DriverIInv'
  OBVIOUS
<1> USE DEF DriverIInv, TypeOK, PointersFit, NoErrorYet, OwnIsAllocated, HeldIsApart,
        Accounted, OnlyOwnIsNew, EntryIsIntact, MemoryUsedRight, ErrorIsFinal,
        FileReadLeavesNoTrace, Own, IsFileRead, Handles, Pointers, Tags, Errors
<1>1. CASE WalkHasNoEnd
  BY <1>1 DEF WalkHasNoEnd, ReadsEntry, locals
<1>2. CASE WalkGoesOn
  BY <1>2 DEF WalkGoesOn, vars, locals, history
<1> QED
  BY ONLY AtWalk, <1>1, <1>2 DEF AtWalk

AtList == ListFails \/ ListRead

LEMMA AtListKeeps == DriverIInv /\ AtList => DriverIInv'
<1> SUFFICES ASSUME DriverIInv, AtList PROVE DriverIInv'
  OBVIOUS
<1> USE DEF DriverIInv, TypeOK, PointersFit, NoErrorYet, OwnIsAllocated, HeldIsApart,
        Accounted, OnlyOwnIsNew, EntryIsIntact, MemoryUsedRight, ErrorIsFinal,
        FileReadLeavesNoTrace, Own, Return, ReturnNull, IsFileRead, Handles, history,
        Pointers, Tags, Errors, NoEntry
<1>1. CASE ListFails
  BY <1>1 DEF ListFails
<1>2. CASE ListRead
  BY ONLY DriverIInv, <1>2, ListReadKeeps
<1> QED
  BY ONLY AtList, <1>1, <1>2 DEF AtList

LEMMA NextDriver == DriverIInv /\ [Next]_vars => DriverIInv'
<1> SUFFICES ASSUME DriverIInv, [Next]_vars PROVE DriverIInv'
  OBVIOUS
<1>1. CASE Next
  BY <1>1, OpensDiskKeeps, GivesBackKeeps, CallsDriverKeeps, AtFatsKeeps, AtRootKeeps,
     AtLookupKeeps, AtSubdirKeeps, AtFoundKeeps, AtWalkKeeps, AtListKeeps
  DEF Next, Calls, Continue, OpensDisk, GivesBack, CallsDriver, AtFats, AtRoot, AtLookup, AtSubdir,
      AtFound, AtWalk, AtList
<1>2. CASE UNCHANGED vars
  BY <1>2 DEF vars, locals, history, DriverIInv, TypeOK, PointersFit, NoErrorYet,
     OwnIsAllocated, HeldIsApart, Accounted,
     OnlyOwnIsNew, EntryIsIntact, MemoryUsedRight, ErrorIsFinal, FileReadLeavesNoTrace, Own, IsFileRead
<1> QED
  BY <1>1, <1>2

LEMMA DriverInvariant == Spec => []DriverIInv
  BY InitDriver, NextDriver, PTL DEF Spec

(***************************************************************************)
(* The same for _start.  What it does besides calls comes after an error,  *)
(* when nothing is accounted for any more.  When it has freed memory by a  *)
(* pointer it was not given, only its disk is left to be closed.           *)
(***************************************************************************)
Late == {"disk_close", "memory_test", "loop"}

StrayIInv ==
  /\ TypeOK /\ MemoryUsedRight /\ err # "NO"
  /\ pc = "idle" /\ call \notin {"file_read", "dir_open"} /\ step \in Late

ClientIInv == IF strayFree THEN StrayIInv ELSE DriverIInv

LEMMA DanglingFails == DriverIInv /\ (FreeDanglingFails \/ CloseFreedDisk) => DriverIInv'
<1> SUFFICES ASSUME DriverIInv, FreeDanglingFails \/ CloseFreedDisk PROVE DriverIInv'
  OBVIOUS
<1> USE DEF DriverIInv, TypeOK, PointersFit, NoErrorYet, OwnIsAllocated, HeldIsApart,
        Accounted, OnlyOwnIsNew, EntryIsIntact, MemoryUsedRight, ErrorIsFinal,
        FileReadLeavesNoTrace, Own, Moves, Step, Enter, locals,
        Pointers, Tags, Errors, NoEntry, Handles
<1>1. CASE FreeDanglingFails
  BY <1>1 DEF FreeDanglingFails
<1>2. CASE CloseFreedDisk
  BY <1>2 DEF CloseFreedDisk
<1> QED
  BY ONLY FreeDanglingFails \/ CloseFreedDisk, <1>1, <1>2

LEMMA DanglingFrees == DriverIInv /\ FreeDanglingFrees => strayFree' /\ StrayIInv'
<1> SUFFICES ASSUME DriverIInv, FreeDanglingFrees PROVE strayFree' /\ StrayIInv'
  OBVIOUS
<1>1. PICK b \in Pointed : heap' = Without({b})
  BY DEF FreeDanglingFrees
<1>2. err = "INVARG"
  BY <1>1 DEF Pointed
<1>3. TypeOK'
  BY <1>1 DEF FreeDanglingFrees, DriverIInv, TypeOK, Enter, Without, Handles, locals, NoEntry, Pointers,
     Tags, Errors
<1>4. MemoryUsedRight'
  BY DEF FreeDanglingFrees, DriverIInv, MemoryUsedRight, Enter
<1> QED
  BY <1>2, <1>3, <1>4 DEF FreeDanglingFrees, StrayIInv, Enter, Moves, Late

LEMMA StrayKeeps == strayFree /\ StrayIInv /\ [StartNext]_startVars => strayFree' /\ StrayIInv'
<1> SUFFICES ASSUME strayFree, StrayIInv, [StartNext]_startVars PROVE strayFree' /\ StrayIInv'
  OBVIOUS
<1>1. CASE UNCHANGED <<vars, strayFree>> /\ step' \in Late
  BY <1>1 DEF StrayIInv, TypeOK, MemoryUsedRight, vars, locals, history
<1>2. CASE MemoryTest \/ Loop \/ UNCHANGED startVars
  BY <1>1, <1>2 DEF MemoryTest, Loop, Step, Moves, startVars, Late, StrayIInv
<1>3. CASE CloseDisk
  <2>1. PICK h \in held : Free(h.blocks) /\ held' = held \ {h}
    BY <1>3 DEF CloseDisk, DiskClose, GiveBack, HeldOf
  <2>2. \A b \in h.blocks : heap[b] # "free"
    BY <1>3, <2>1 DEF CloseDisk, HeldBlocks, Live
  <2>3. ~badFree'
    BY <2>1, <2>2 DEF Free, StrayIInv, MemoryUsedRight
  <2>4. /\ call' = "disk_close" /\ before' = [heap |-> heap, err |-> err]
        /\ UNCHANGED <<err, pc, path, locals, result, badRead, strayFree>> /\ step' = "memory_test"
    BY <1>3 DEF CloseDisk, DiskClose, GiveBack, Enter, Step, Moves
  <2>5. TypeOK'
    BY <2>1, <2>3, <2>4 DEF StrayIInv, TypeOK, Free, Without, locals
  <2> QED
    BY <2>3, <2>4, <2>5 DEF StrayIInv, MemoryUsedRight, Late
<1>4. CASE CloseFreedDisk
  BY <1>4 DEF CloseFreedDisk, Step, Moves, Enter, StrayIInv, TypeOK, MemoryUsedRight, Errors, locals, Late
<1>5. ASSUME AnyClientCalls \/ DriverGoesOn PROVE FALSE
  BY <1>5 DEF AnyClientCalls, Step, Moves, DriverGoesOn, StrayIInv, Late,
     Continue, FatsNoMemory, FatsRead, FatsReadAfterError, RootNoMemory, RootRead, RootReadAfterError,
     LookupNoName, LookupNotFound, LookupNotADir, LookupDescend, LookupLast, WalkHasNoEnd, WalkGoesOn,
     ReadsEntry, SubdirFails, SubdirRead, Lookup, FileReadDirectory, FileReadFails, FileReadOk,
     DirOpenNotADir, DirOpenFails, DirOpenRead, ListFails, ListRead, FoundEntry
<1>6. ASSUME \/ OpenDisk \/ DiskFails \/ DiskIsOpen \/ ReadFile \/ NoFile \/ FreeFile
             \/ FreeDanglingFails \/ FreeDanglingFrees
      PROVE  FALSE
  BY <1>6 DEF OpenDisk, DiskFails, DiskIsOpen, ReadFile, NoFile, FreeFile, FreeDanglingFails,
     FreeDanglingFrees, Step, Moves, StrayIInv, Late
<1> QED
  BY <1>2, <1>3, <1>4, <1>5, <1>6 DEF StartNext, _start

LEMMA StartKeepsDriver == ClientIInv /\ [StartNext]_startVars => ClientIInv'
<1> SUFFICES ASSUME ~strayFree, DriverIInv, [StartNext]_startVars PROVE ClientIInv'
  BY StrayKeeps DEF ClientIInv
<1>1. CASE (UNCHANGED vars \/ Next) /\ UNCHANGED strayFree
  BY <1>1, NextDriver DEF ClientIInv
<1>2. CASE AnyClientCalls \/ DriverGoesOn \/ OpenDisk \/ ReadFile \/ FreeFile \/ CloseDisk
  BY <1>1, <1>2 DEF AnyClientCalls, DriverGoesOn, OpenDisk, ReadFile, FreeFile, CloseDisk, Step, Next, Calls
<1>3. CASE DiskFails \/ DiskIsOpen \/ NoFile \/ MemoryTest \/ Loop
  BY <1>1, <1>3 DEF DiskFails, DiskIsOpen, NoFile, MemoryTest, Loop, Step
<1>4. CASE FreeDanglingFails \/ CloseFreedDisk
  BY <1>4, DanglingFails DEF FreeDanglingFails, CloseFreedDisk, Step, ClientIInv
<1>5. CASE FreeDanglingFrees
  BY <1>5, DanglingFrees DEF ClientIInv
<1> QED
  BY <1>1, <1>2, <1>3, <1>4, <1>5 DEF StartNext, _start, startVars

LEMMA StartInvariant == StartSpec => []ClientIInv
<1>1. StartInit => ClientIInv
  BY InitDriver DEF StartInit, ClientIInv
<1> QED
  BY <1>1, StartKeepsDriver, PTL DEF StartSpec

(***************************************************************************)
(* The theorems, for any client and for _start.                             *)
(***************************************************************************)

(* The variables of the file interface keep their types.                    *)
THEOREM TypeCorrect == (Spec => []TypeOK) /\ (StartSpec => []TypeOK)
<1>1. DriverIInv => TypeOK
  BY DEF DriverIInv
<1>2. ClientIInv => TypeOK
  BY <1>1 DEF ClientIInv, StrayIInv
<1> QED
  BY <1>1, <1>2, DriverInvariant, StartInvariant, PTL

(* What a caller holds stays allocated whatever the driver does later, and  *)
(* no two results share memory; until, in _start, the caller itself frees   *)
(* memory through a pointer it was not given.                               *)
THEOREM ResultsStay == (Spec => []HeldStaysAllocated) /\ (StartSpec => []ResultsStayAllocated)
<1>1. DriverIInv => HeldStaysAllocated
  BY DEF DriverIInv, TypeOK, Handles, HeldIsApart, HeldStaysAllocated, HeldBlocks, Live
<1>2. ClientIInv => ResultsStayAllocated
  BY <1>1 DEF ClientIInv, ResultsStayAllocated
<1> QED
  BY <1>1, <1>2, DriverInvariant, StartInvariant, PTL

(* A driver that has met no error has leaked nothing.                       *)
THEOREM NothingLeaks == (Spec => []NoLeakBeforeError) /\ (StartSpec => []NoLeakBeforeError)
<1>1. DriverIInv => NoLeakBeforeError
  <2> SUFFICES ASSUME DriverIInv, pc = "idle", err = "NO" PROVE Live = HeldBlocks
    BY DEF NoLeakBeforeError
  <2>1. \A b \in BLOCKS : ~Own(b)
    BY DEF DriverIInv, PointersFit, Own
  <2>2. Live \subseteq HeldBlocks
    BY <2>1 DEF DriverIInv, Accounted, Live, HeldBlocks
  <2>3. HeldBlocks \subseteq Live
    BY DEF DriverIInv, TypeOK, Handles, HeldIsApart, HeldBlocks, Live
  <2> QED
    BY <2>2, <2>3
<1>2. ClientIInv => NoLeakBeforeError
  BY <1>1 DEF ClientIInv, StrayIInv, NoLeakBeforeError
<1> QED
  BY <1>1, <1>2, DriverInvariant, StartInvariant, PTL

(* file_read leaves the heap as it found it but for what it returns, on     *)
(* every way out but that of an empty name.                                 *)
THEOREM FilesLeaveNoTrace == (Spec => []FileReadLeavesNoTrace) /\ (StartSpec => []FileReadLeavesNoTrace)
<1>1. DriverIInv => FileReadLeavesNoTrace
  BY DEF DriverIInv
<1>2. ClientIInv => FileReadLeavesNoTrace
  BY <1>1 DEF ClientIInv, StrayIInv, FileReadLeavesNoTrace
<1> QED
  BY <1>1, <1>2, DriverInvariant, StartInvariant, PTL

(* The driver frees nothing twice, and reads no entry of a block that was   *)
(* allocated again.                                                         *)
THEOREM NoMisuse == (Spec => []MemoryUsedRight) /\ (StartSpec => []MemoryUsedRight)
<1>1. DriverIInv => MemoryUsedRight
  BY DEF DriverIInv
<1>2. ClientIInv => MemoryUsedRight
  BY <1>1 DEF ClientIInv, StrayIInv
<1> QED
  BY <1>1, <1>2, DriverInvariant, StartInvariant, PTL

(* After an error no file and no directory is had.                          *)
THEOREM ErrorsAreFinal == (Spec => []ErrorIsFinal) /\ (StartSpec => []ErrorIsFinal)
<1>1. DriverIInv => ErrorIsFinal
  BY DEF DriverIInv
<1>2. ClientIInv => ErrorIsFinal
  BY <1>1 DEF ClientIInv, StrayIInv, ErrorIsFinal
<1> QED
  BY <1>1, <1>2, DriverInvariant, StartInvariant, PTL

(***************************************************************************)
(* The memory test.  The one block _start holds before it reads the file    *)
(* is its disk, at the start of the heap; what file_read leaves behind is   *)
(* the file, which is freed: in the end that one block may be allocated,    *)
(* and no other, so that to look at it is enough.                           *)
(***************************************************************************)
Disk == [kind |-> "disk", blocks |-> {HEAP_START}]
File(b) == [kind |-> "file", blocks |-> {b}]

OnlyFirst(memory) == \A b \in BLOCKS : memory[b] # "free" <=> b = HEAP_START
NoBlock(memory) == \A b \in BLOCKS : memory[b] = "free"

WhileReading ==
  /\ call = "file_read" /\ path.names > 0 /\ ~path.slash
  /\ OnlyFirst(before.heap)
  /\ pc # "idle" \/ result # "ok" => held = {Disk}
  /\ pc = "idle" /\ result = "ok" => err = "NO" /\ \E b \in BLOCKS : held = {Disk, File(b)}

StartIInv ==
  /\ step \notin {"any", "read"} => pc = "idle"
  /\ step = "disk_open" => err = "NO" /\ held = {} /\ NoBlock(heap)
  /\ step = "opened" => /\ OnlyFirst(heap) \/ NoBlock(heap)
                        /\ result = "ok" /\ err = "NO" => held = {Disk} /\ OnlyFirst(heap)
  /\ step = "file_read" => err = "NO" /\ held = {Disk} /\ OnlyFirst(heap)
  /\ step = "read" => WhileReading
  /\ step = "disk_close" => held = {Disk} /\ (OnlyFirst(heap) \/ NoBlock(heap))
  /\ step = "memory_test" => OnlyFirst(heap) \/ NoBlock(heap)
  /\ step = "loop" => (heapError <=> Live # {})

(* The driver goes on with the call of file_read.                           *)
LEMMA ReadingGoesOn == DriverIInv /\ WhileReading /\ Continue => WhileReading'
<1> SUFFICES ASSUME DriverIInv, WhileReading, Continue PROVE WhileReading'
  OBVIOUS
<1>1. call = "file_read" /\ IsFileRead /\ pc # "list" /\ path \in Paths /\ MAX_NAMES \in Nat
  BY NamesAssumption DEF WhileReading, IsFileRead, DriverIInv, TypeOK, PointersFit
<1>2. UNCHANGED <<call, before>> /\ pc # "idle"
  BY <1>1
  DEF Continue, FatsNoMemory, FatsRead, FatsReadAfterError, RootNoMemory, RootRead, RootReadAfterError,
     LookupNoName, LookupNotFound, LookupNotADir, LookupDescend, LookupLast, WalkHasNoEnd,
     WalkGoesOn, ReadsEntry, vars, locals, history, SubdirFails, SubdirRead, Lookup,
     FileReadDirectory, FileReadFails, FileReadOk, DirOpenNotADir, DirOpenFails, DirOpenRead, ListFails, ListRead,
     FoundEntry, FailWith, Goto
<1>3. held = {Disk}
  BY <1>2 DEF WhileReading
<1>4. path'.names > 0 /\ ~path'.slash
  <2>1. CASE LookupDescend
    <3>1. path' = [path EXCEPT !.names = path.names - 1] /\ path.names > 1
      BY <2>1 DEF LookupDescend, MoreNames, WhileReading
    <3> QED
      BY <1>1, <3>1 DEF Paths, WhileReading
  <2>2. CASE UNCHANGED path
    BY <2>2 DEF WhileReading
  <2> QED
    BY <1>1, <2>1, <2>2
    DEF Continue, FatsNoMemory, FatsRead, FatsReadAfterError, RootNoMemory, RootRead, RootReadAfterError,
        LookupNoName, LookupNotFound, LookupNotADir, LookupLast, WalkHasNoEnd,
     WalkGoesOn, ReadsEntry, vars, locals, history, SubdirFails, SubdirRead,
        FileReadDirectory, FileReadFails, FileReadOk, DirOpenNotADir, DirOpenFails, DirOpenRead,
        ListFails, ListRead, FoundEntry, FailWith
<1>5. CASE FileReadOk
  <2>1. PICK b \in BLOCKS : ReturnNew("file", {b})
    BY <1>5 DEF FileReadOk
  <2>2. err = "NO" /\ err' = err /\ pc' = "idle" /\ result' = "ok" /\ held' = held \cup {File(b)}
    BY <1>1, <1>5, <2>1 DEF FileReadOk, FoundEntry, ReturnNew, Return, File, DriverIInv, NoErrorYet
  <2>3. held' = {Disk, File(b)}
    BY <1>3, <2>2
  <2> QED
    BY <1>2, <1>4, <2>2, <2>3 DEF WhileReading
<1>6. CASE ~FileReadOk
  <2>1. UNCHANGED held /\ (pc' # "idle" \/ result' # "ok")
    BY <1>1, <1>6
    DEF Continue, FatsNoMemory, FatsRead, FatsReadAfterError, RootNoMemory, RootRead, RootReadAfterError,
        LookupNoName, LookupNotFound, LookupNotADir, LookupDescend, LookupLast, WalkHasNoEnd,
     WalkGoesOn, ReadsEntry, vars, locals, history, SubdirFails, SubdirRead,
        FileReadDirectory, FileReadFails, DirOpenNotADir, DirOpenFails, DirOpenRead,
        ListFails, ListRead, FoundEntry, FailWith, Goto, ReturnNull, Return, Lookup
  <2> QED
    BY <1>2, <1>3, <1>4, <2>1 DEF WhileReading
<1> QED
  BY <1>5, <1>6

(* What is allocated when file_read has returned.                           *)
LEMMA ReadingEnds ==
  ASSUME DriverIInv, WhileReading, pc = "idle"
  PROVE  /\ result # "ok" => held = {Disk} /\ OnlyFirst(heap)
         /\ result = "ok" => \E f \in BLOCKS \ {HEAP_START} :
              /\ held = {Disk, File(f)}
              /\ \A b \in BLOCKS : heap[b] # "free" <=> b \in {HEAP_START, f}
<1> USE HeapStartAssumption
<1>1. \A b \in BLOCKS : heap[b] # before.heap[b] =>
        result = "ok" /\ before.heap[b] = "free" /\ heap[b] = "file"
  BY DEF DriverIInv, FileReadLeavesNoTrace, WhileReading
<1>2. CASE result # "ok"
  BY <1>1, <1>2 DEF WhileReading, OnlyFirst
<1>3. CASE result = "ok"
  <2>1. PICK f \in BLOCKS : held = {Disk, File(f)} /\ err = "NO"
    BY <1>3 DEF WhileReading
  <2>2. \A b \in BLOCKS : ~Own(b)
    BY DEF DriverIInv, PointersFit, Own
  <2>3. Disk.blocks = {HEAP_START} /\ File(f).blocks = {f} /\ Disk # File(f)
    BY DEF Disk, File
  <2>4. f # HEAP_START /\ heap[f] # "free" /\ heap[HEAP_START] # "free"
    BY <2>1, <2>3 DEF DriverIInv, HeldIsApart
  <2>5. \A b \in BLOCKS : heap[b] # "free" => b \in {HEAP_START, f}
    BY <2>1, <2>2, <2>3 DEF DriverIInv, Accounted
  <2> QED
    BY <1>3, <2>1, <2>4, <2>5
<1> QED
  BY <1>2, <1>3

LEMMA StartBegins == StartInit => StartIInv
  BY DEF StartInit, Init, StartIInv, NoBlock

LEMMA OpenDiskLeads == DriverIInv /\ StartIInv /\ OpenDisk => StartIInv'
<1> SUFFICES ASSUME DriverIInv, StartIInv, OpenDisk PROVE StartIInv'
  OBVIOUS
<1> USE HeapStartAssumption
<1>1. /\ pc = "idle" /\ err = "NO" /\ held = {} /\ NoBlock(heap)
      /\ step' = "opened" /\ heapError' = heapError
  BY DEF OpenDisk, Moves, Step, StartIInv
<1>2. \A b \in BLOCKS : heap'[b] # "free" => b = HEAP_START
  BY DEF OpenDisk, Live
<1>3. OnlyFirst(heap)' \/ NoBlock(heap)'
  BY <1>2 DEF OnlyFirst, NoBlock
<1>4. pc' = "idle"
  BY DEF OpenDisk, DiskOpenFails, DiskOpenNoGeometry, DiskOpenOk, ReturnNull, ReturnNew, Return
<1>5. ASSUME result' = "ok", err' = "NO" PROVE held' = {Disk} /\ OnlyFirst(heap)'
  <2>1. DiskOpenOk
    BY <1>5 DEF OpenDisk, DiskOpenFails, DiskOpenNoGeometry, ReturnNull, Return
  <2>2. PICK b \in BLOCKS : Allocate(b, "disk") /\ ReturnNew("disk", {b})
    BY <1>1, <2>1 DEF DiskOpenOk
  <2>3. heap'[b] = "disk"
    BY <2>2 DEF Allocate, DriverIInv, TypeOK
  <2>4. b = HEAP_START
    BY <1>2, <2>3
  <2>5. held' = {Disk}
    BY <1>1, <2>2, <2>4 DEF ReturnNew, Disk
  <2>6. OnlyFirst(heap)'
    BY <1>2, <2>3, <2>4 DEF OnlyFirst
  <2> QED
    BY <2>5, <2>6
<1> QED
  BY <1>1, <1>3, <1>4, <1>5 DEF StartIInv

LEMMA ReadFileLeads == DriverIInv /\ StartIInv /\ ReadFile => StartIInv'
<1> SUFFICES ASSUME DriverIInv, StartIInv, ReadFile PROVE StartIInv'
  OBVIOUS
<1>1. /\ held = {Disk} /\ OnlyFirst(heap) /\ step' = "read" /\ UNCHANGED <<held, heapError>>
      /\ call' = "file_read" /\ before'.heap = heap /\ pc' = "fats"
      /\ path' = [names |-> MAX_NAMES, slash |-> FALSE]
  BY DEF ReadFile, Moves, Step, StartIInv, FileRead, CallOnDisk, Enter
<1>2. path'.names > 0 /\ ~path'.slash
  BY <1>1, NamesAssumption
<1> QED
  BY <1>1, <1>2 DEF StartIInv, WhileReading

LEMMA NotStray == ClientIInv /\ step \notin Late => DriverIInv
  BY DEF ClientIInv, StrayIInv

LEMMA GiveBackLeads == ClientIInv /\ StartIInv /\ (FreeFile \/ CloseDisk) => StartIInv'
<1> SUFFICES ASSUME ClientIInv, StartIInv, FreeFile \/ CloseDisk PROVE StartIInv'
  OBVIOUS
<1> USE HeapStartAssumption
<1>1. CASE FreeFile
  <2>1. step = "read" /\ pc = "idle" /\ result = "ok" /\ WhileReading /\ step' = "disk_close"
          /\ UNCHANGED <<pc, heapError>>
    BY <1>1 DEF FreeFile, Moves, Step, StartIInv, FileFree, GiveBack
  <2>2. PICK f \in BLOCKS \ {HEAP_START} :
          /\ held = {Disk, File(f)}
          /\ \A b \in BLOCKS : heap[b] # "free" <=> b \in {HEAP_START, f}
    BY <2>1, NotStray, ReadingEnds DEF Late
  <2>3. PICK h \in held : h.kind = "file" /\ heap' = Without(h.blocks) /\ held' = held \ {h}
    BY <1>1 DEF FreeFile, FileFree, GiveBack, HeldOf, Free
  <2>4. h = File(f) /\ h # Disk /\ h.blocks = {f}
    BY <2>2, <2>3 DEF Disk, File
  <2>5. held' = {Disk} /\ \A b \in BLOCKS : heap'[b] = IF b = f THEN "free" ELSE heap[b]
    BY <2>2, <2>3, <2>4 DEF Without
  <2>6. OnlyFirst(heap)'
    BY <2>2, <2>5 DEF OnlyFirst
  <2> QED
    BY <2>1, <2>5, <2>6 DEF StartIInv
<1>2. CASE CloseDisk
  <2>1. step = "disk_close" /\ pc = "idle" /\ step' = "memory_test" /\ UNCHANGED <<pc, heapError>>
    BY <1>2 DEF CloseDisk, Moves, Step, DiskClose, GiveBack
  <2>2. PICK h \in held : heap' = Without(h.blocks)
    BY <1>2 DEF CloseDisk, DiskClose, GiveBack, HeldOf, Free
  <2>3. held = {Disk} /\ (OnlyFirst(heap) \/ NoBlock(heap))
    BY <2>1 DEF StartIInv
  <2>4. h.blocks = {HEAP_START}
    BY <2>2, <2>3 DEF Disk
  <2>5. NoBlock(heap)'
    BY <2>2, <2>3, <2>4 DEF Without, OnlyFirst, NoBlock
  <2> QED
    BY <2>1, <2>5 DEF StartIInv
<1> QED
  BY <1>1, <1>2

LEMMA OthersLead ==
  ASSUME ClientIInv, StartIInv,
         \/ DiskFails \/ DiskIsOpen \/ NoFile \/ FreeDanglingFails \/ FreeDanglingFrees
         \/ CloseFreedDisk \/ MemoryTest \/ Loop
  PROVE  StartIInv'
<1> USE HeapStartAssumption
<1>1. CASE DiskFails
  BY <1>1 DEF DiskFails, Moves, Step, StartIInv, vars
<1>2. CASE DiskIsOpen
  BY <1>2 DEF DiskIsOpen, Moves, Step, StartIInv, vars
<1>3. CASE NoFile
  <2>1. /\ step = "read" /\ WhileReading /\ pc = "idle" /\ result # "ok"
        /\ step' = "disk_close" /\ UNCHANGED <<vars, heapError>>
    BY <1>3 DEF NoFile, Moves, Step, StartIInv
  <2>2. held = {Disk} /\ OnlyFirst(heap)
    BY <2>1, NotStray, ReadingEnds DEF Late
  <2> QED
    BY <2>1, <2>2 DEF StartIInv, vars
<1>4. CASE FreeDanglingFails \/ FreeDanglingFrees
  <2>1. /\ step = "read" /\ WhileReading /\ pc = "idle" /\ result # "ok"
        /\ step' = "disk_close" /\ UNCHANGED <<pc, heapError>>
    BY <1>4 DEF FreeDanglingFails, FreeDanglingFrees, Moves, Step, StartIInv
  <2>2. held = {Disk} /\ OnlyFirst(heap)
    BY <2>1, NotStray, ReadingEnds DEF Late
  <2>3. CASE FreeDanglingFails
    BY <2>1, <2>2, <2>3 DEF FreeDanglingFails, StartIInv
  <2>4. CASE FreeDanglingFrees
    <3>1. PICK b \in Live : heap' = Without({b}) /\ held' = held
      BY <2>4 DEF FreeDanglingFrees, Pointed
    <3>2. b = HEAP_START
      BY <2>2, <3>1 DEF Live, OnlyFirst
    <3>3. NoBlock(heap)'
      BY <2>2, <3>1, <3>2 DEF Without, OnlyFirst, NoBlock
    <3> QED
      BY <2>1, <2>2, <3>1, <3>3 DEF StartIInv
  <2> QED
    BY <1>4, <2>3, <2>4
<1>5. CASE CloseFreedDisk
  <2>1. step = "disk_close" /\ pc = "idle" /\ step' = "memory_test"
          /\ UNCHANGED <<heap, pc, heapError>>
    BY <1>5 DEF CloseFreedDisk, Moves, Step
  <2>2. OnlyFirst(heap) \/ NoBlock(heap)
    BY <2>1 DEF StartIInv
  <2> QED
    BY <2>1, <2>2 DEF StartIInv, OnlyFirst, NoBlock
<1>6. CASE MemoryTest
  <2>1. step' = "loop" /\ UNCHANGED vars /\ pc = "idle" /\ heapError' = (heap[HEAP_START] # "free")
          /\ (OnlyFirst(heap) \/ NoBlock(heap))
    BY <1>6 DEF MemoryTest, StartIInv
  <2>2. Live' = Live /\ pc' = pc
    BY <2>1 DEF vars, Live
  <2>3. heapError' <=> Live' # {}
    BY <2>1, <2>2 DEF Live, OnlyFirst, NoBlock
  <2> QED
    BY <2>1, <2>2, <2>3 DEF StartIInv
<1>7. CASE Loop
  BY <1>7 DEF Loop, Moves, Step, StartIInv, vars, Live
<1> QED
  BY <1>1, <1>2, <1>3, <1>4, <1>5, <1>6, <1>7

LEMMA StartLeads == ClientIInv /\ StartIInv /\ [StartNext]_startVars => StartIInv'
<1> SUFFICES ASSUME ClientIInv, StartIInv, [StartNext]_startVars PROVE StartIInv'
  OBVIOUS
<1>1. CASE UNCHANGED startVars
  BY <1>1 DEF startVars, vars, locals, history, StartIInv, WhileReading, OnlyFirst, NoBlock, Live
<1>2. CASE AnyClientCalls
  BY <1>2 DEF AnyClientCalls, Moves, Step, StartIInv
<1>3. CASE DriverGoesOn
  <2>1. Continue /\ UNCHANGED <<step, heapError>>
    BY <1>3 DEF DriverGoesOn
  <2>2. pc # "idle"
    BY <2>1 DEF Continue, FatsNoMemory, FatsRead, FatsReadAfterError, RootNoMemory, RootRead, RootReadAfterError,
       LookupNoName, LookupNotFound, LookupNotADir, LookupDescend, LookupLast, WalkHasNoEnd,
     WalkGoesOn, ReadsEntry, SubdirFails, SubdirRead, Lookup,
       FileReadDirectory, FileReadFails, FileReadOk, DirOpenNotADir, DirOpenFails, DirOpenRead, ListFails,
       ListRead, FoundEntry
  <2>3. step \in {"any", "read"}
    BY <2>2 DEF StartIInv
  <2>4. step = "read" => WhileReading'
    BY <2>1, NotStray, ReadingGoesOn DEF StartIInv, Late
  <2> QED
    BY <2>1, <2>3, <2>4 DEF StartIInv
<1>4. CASE OpenDisk \/ ReadFile
  BY <1>4, NotStray, OpenDiskLeads, ReadFileLeads DEF OpenDisk, ReadFile, Moves, Step, Late
<1> QED
  BY <1>1, <1>2, <1>3, <1>4, GiveBackLeads, OthersLead DEF StartNext, _start

(* Where _start has come to its end, "Heap error" was printed if and only   *)
(* if something is still allocated.  That it comes there is checked.        *)
THEOREM MemoryTestIsRight == StartSpec => [](step = "loop" => (heapError <=> Live # {}))
<1>1. StartIInv => (step = "loop" => (heapError <=> Live # {}))
  BY DEF StartIInv
<1>2. StartSpec => []StartIInv
  BY StartBegins, StartLeads, StartInvariant, PTL DEF StartSpec
<1> QED
  BY <1>1, <1>2, PTL
=============================================================================
