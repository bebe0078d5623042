----------------------------- MODULE Fat12ReadEntry -----------------------------
(***************************************************************************)
(* fat12_read_entry of the installer's FAT12 driver (src/installer/src/    *)
(* sys/disk/fs/fat12.c): it walks the chain of a file or a directory once  *)
(* to count its clusters, allocates a buffer, and walks it again to read   *)
(* them.  Both walks follow fat12_next_cluster, whose arithmetic on the    *)
(* bytes of the FAT is modelled as it is.  The disk holds one file: a      *)
(* chain of at most MAX_LENGTH of the clusters FILE_CLUSTERS, or none for  *)
(* an empty file, whose directory entry gives cluster 0.                   *)
(*                                                                         *)
(* As in ChunkList, a definition named for what it gets wrong is a faulty  *)
(* variant of the one after it, there to test the properties.              *)
(***************************************************************************)
EXTENDS Integers, Sequences, Functions

CONSTANTS
  FILE_CLUSTERS,        \* the clusters a chain is made of
  MAX_LENGTH,           \* bounds the length of a chain
  END_MARKS,            \* the entries a chain may end with
  SIZE_MODULUS,         \* a size_t wraps at this count (2^32 in the code)
  MEDIA,                \* bpb_media, the first byte of a FAT
  BYTES_PER_SECTOR,
  SECTORS_PER_CLUSTER,
  RESERVED_SECTORS, FAT_COUNT, SECTORS_PER_FAT, ROOT_ENTRIES

ASSUME ClustersAssumption == FILE_CLUSTERS \subseteq 2 .. 4079
ASSUME EndAssumption == END_MARKS \subseteq 4088 .. 4095
ASSUME HeaderAssumption ==
  /\ MEDIA \in 240 .. 255
  /\ BYTES_PER_SECTOR \in Nat \ {0} /\ SECTORS_PER_CLUSTER \in Nat \ {0}
  /\ SIZE_MODULUS \in Nat /\ SIZE_MODULUS > MAX_LENGTH
  /\ {RESERVED_SECTORS, FAT_COUNT, SECTORS_PER_FAT, ROOT_ENTRIES, MAX_LENGTH} \subseteq Nat

VARIABLES
  chain,     \* the clusters of the file, as the FAT links them
  endMark,   \* the FAT entry of the last one
  stage,     \* "size": first walk, "alloc", "read": second walk, "done"
  current,   \* the cluster a walk is at
  size,      \* clusters counted so far
  lbas,      \* the addresses disk_read was called with
  returned   \* "ok", "_ERR_HEAPFULL" or "_ERR_IO", once done

walkVars == <<chain, endMark, stage, current, size, lbas, returned>>

END == 4088   \* 0xFF8: entries from here on end a chain

(***************************************************************************)
(* The FAT: 12-bit entries, of which two are packed into three bytes.      *)
(***************************************************************************)
FatEntry(c) ==
  CASE c = 0 -> 3840 + MEDIA
    [] c = 1 -> 4095
    [] \E i \in DOMAIN chain : chain[i] = c ->
         LET i == CHOOSE i \in DOMAIN chain : chain[i] = c
         IN  IF i = Len(chain) THEN endMark ELSE chain[i + 1]
    [] OTHER -> 0

FatByte(offset) ==
  LET even == FatEntry(2 * (offset \div 3))
      odd  == FatEntry(2 * (offset \div 3) + 1)
  IN CASE offset % 3 = 0 -> even % 256
       [] offset % 3 = 1 -> (odd % 16) * 16 + even \div 256
       [] offset % 3 = 2 -> odd \div 16

(* A char of the i386 build is signed.                                      *)
SignedChar(byte) == IF byte < 128 THEN byte ELSE byte - 256

(* fat12_next_cluster: one byte of the FAT's first sector, sign-extended;   *)
(* the result is cut to the 16 bits of fat12_cluster.                       *)
NextClusterUnsigned(c) ==
  LET offset == (c + c \div 2) % BYTES_PER_SECTOR
  IN  IF c % 2 = 1 THEN FatByte(offset) \div 16 ELSE FatByte(offset)
NextClusterNoParity(c) ==
  SignedChar(FatByte((c + c \div 2) % BYTES_PER_SECTOR)) % 4096
NextCluster(c) ==
  LET offset == (c + c \div 2) % BYTES_PER_SECTOR
      value  == SignedChar(FatByte(offset))
  IN  IF c % 2 = 1 THEN (value \div 16) % 65536 ELSE value % 4096

(* fat12_cluster_to_lba.                                                    *)
ClusterToLba(c) ==
  LET rootDirSectors  == (ROOT_ENTRIES * 32 + BYTES_PER_SECTOR - 1) \div BYTES_PER_SECTOR
      firstDataSector == RESERVED_SECTORS + FAT_COUNT * SECTORS_PER_FAT + rootDirSectors
  IN  (c - 2) * SECTORS_PER_CLUSTER + firstDataSector

Chains == {c \in UNION {[1 .. n -> FILE_CLUSTERS] : n \in 0 .. MAX_LENGTH} : IsInjective(c)}
Start == IF chain = <<>> THEN 0 ELSE chain[1]

WalkInit ==
  /\ chain \in Chains
  /\ endMark \in END_MARKS
  /\ stage = "size"
  /\ current = Start
  /\ size = 0
  /\ lbas = <<>>
  /\ returned = "none"

(* while (current < 0xFF8) { size++; current = fat12_next_cluster(...); }   *)
CountCluster ==
  /\ stage = "size" /\ current < END
  /\ size' = (size + 1) % SIZE_MODULUS
  /\ current' = NextCluster(current)
  /\ UNCHANGED <<chain, endMark, stage, lbas, returned>>

CountDone ==
  /\ stage = "size" /\ current >= END
  /\ stage' = "alloc"
  /\ UNCHANGED <<chain, endMark, current, size, lbas, returned>>

Finish(outcome) == stage' = "done" /\ returned' = outcome

(* malloc fails, and sets the error; or the second walk begins.             *)
AllocFails ==
  /\ stage = "alloc"
  /\ Finish("_ERR_HEAPFULL")
  /\ UNCHANGED <<chain, endMark, current, size, lbas>>

AllocOk ==
  /\ stage = "alloc"
  /\ stage' = "read"
  /\ current' = Start
  /\ UNCHANGED <<chain, endMark, size, lbas, returned>>

ReadFails ==
  /\ stage = "read"
  /\ lbas' = Append(lbas, ClusterToLba(current))
  /\ Finish("_ERR_IO")
  /\ UNCHANGED <<chain, endMark, current, size>>

(* The loop's body ends with a break: one cluster is read.                  *)
ReadAllClusters ==
  /\ stage = "read"
  /\ lbas' = Append(lbas, ClusterToLba(current))
  /\ current' = NextCluster(current)
  /\ IF NextCluster(current) < END THEN UNCHANGED <<stage, returned>> ELSE Finish("ok")
  /\ UNCHANGED <<chain, endMark, size>>
ReadCluster ==
  /\ stage = "read"
  /\ lbas' = Append(lbas, ClusterToLba(current))
  /\ current' = NextCluster(current)
  /\ Finish("ok")
  /\ UNCHANGED <<chain, endMark, size>>

WalkNext == CountCluster \/ CountDone \/ AllocFails \/ AllocOk \/ ReadFails \/ ReadCluster

(* The processor executes the function: it does not stop before its end.    *)
WalkSpec == WalkInit /\ [][WalkNext]_walkVars /\ WF_walkVars(WalkNext)

(***************************************************************************)
(* Properties.                                                             *)
(***************************************************************************)
WalkTypeOK ==
  /\ chain \in Chains /\ endMark \in END_MARKS
  /\ stage \in {"size", "alloc", "read", "done"}
  /\ current \in Nat /\ current < 65536
  /\ size \in 0 .. SIZE_MODULUS - 1
  /\ lbas \in Seq(Nat)
  /\ returned \in {"none", "ok", "_ERR_HEAPFULL", "_ERR_IO"}

Last == chain[Len(chain)]
IsLink(c) == chain # <<>> /\ c \in Range(chain) \ {Last}
InFirstSector(c) == c + c \div 2 < BYTES_PER_SECTOR

(* The links one byte of the FAT is enough for: up to 127 from an even      *)
(* cluster, whose low byte is read, and up to 7 from an odd one, whose low  *)
(* half-byte is.                                                            *)
ShortChain ==
  /\ chain # <<>>
  /\ \A c \in Range(chain) : InFirstSector(c)
  /\ \A c \in Range(chain) : IsLink(c) => FatEntry(c) < IF c % 2 = 0 THEN 128 ELSE 8

(* On such a chain the walk is always at the cluster after those counted,   *)
(* so that the size is right when the buffer is allocated.                  *)
ShortChainsFollowed ==
  ShortChain =>
    /\ stage = "size" =>
         \/ size < Len(chain) /\ current = chain[size + 1]
         \/ size = Len(chain) /\ current >= END
    /\ stage \in {"alloc", "read"} => size = Len(chain)

(* And the function returns.                                                *)
ShortChainsEnd == ShortChain => <>(stage = "done")

(* No sector of another file, of the FAT or of the root directory is read   *)
(* into the buffer: the wrong turns of the second walk are never used.      *)
OnlyOwnClustersRead ==
  \A l \in Range(lbas) : \E c \in Range(chain) : l = ClusterToLba(c)

(***************************************************************************)
(* What the comments say, and the code does not.                           *)
(***************************************************************************)

(* "Get the next cluster to read according to the FATS ... 0xFFF describe   *)
(* the end" (fat12.c:159-163).                                              *)
NextIsEntry ==
  stage = "size" /\ current \in Range(chain) =>
    \/ NextCluster(current) = FatEntry(current)
    \/ NextCluster(current) >= END /\ FatEntry(current) >= END

(* "Get size in cluster" (fat12.c:304): the first walk comes to an end.     *)
SizeIsFound == <>(stage # "size")

(* "Read a cluster and all it's sub-clusters" (fat12.c:276).                *)
AllClustersRead == returned = "ok" => Len(lbas) = Len(chain)
=============================================================================
