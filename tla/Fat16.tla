------------------------------- MODULE Fat16 -------------------------------
(***************************************************************************)
(* Reading a file in vfs/fat/fat16.cpp: from the position in a file to the *)
(* cluster, the sector and the bytes on the disk.  A file on the disk is   *)
(* its size and the chain of its clusters, which the file allocation table *)
(* holds; the table and the rest of the disk are read as 16-bit words.     *)
(***************************************************************************)
EXTENDS Disk

CONSTANTS
    ReservedSectors,    \* in front of the table
    DataSector,         \* root_directory.ending_sector_pos
    SectorsPerCluster,
    Word32,             \* number of values of a uint32_t
    WordAt,             \* the word on the disk at each address
    Files, Chain, FileSize

ASSUME LayoutAssumption ==
    /\ ReservedSectors \in Nat /\ DataSector \in Nat
    /\ SectorsPerCluster \in Nat \ {0} /\ Word32 \in Nat \ {0}
    /\ 2 * SectorsPerCluster <= DataSector

\* What a host writes: the clusters of a file are on the disk and hold it, and
\* the table has an entry of two bytes for each cluster, which names the next
\* cluster of the file or marks the end with a value from 0xFFF8 on.
ASSUME ChainAssumption ==
    /\ Chain \in [Files -> Seq(Nat \ {0, 1})] /\ FileSize \in [Files -> Nat]
    /\ \A f \in Files : FileSize[f] <= Len(Chain[f]) * (SectorsPerCluster * SectorSize)
    /\ \A f \in Files : \A i \in 1 .. Len(Chain[f]) :
         DataSector + (Chain[f][i] - 1) * SectorsPerCluster <= Sectors

ASSUME TableAssumption ==
    /\ WordAt \in [0 .. (Word32 - 1) -> 0 .. 65535]
    /\ \A f \in Files : \A i \in 1 .. Len(Chain[f]) :
         LET entry == WordAt[ReservedSectors * SectorSize + 2 * Chain[f][i]]
         IN  IF i < Len(Chain[f]) THEN entry = Chain[f][i + 1] ELSE entry >= 65528

ClusterSize == SectorsPerCluster * SectorSize

ClusterToSector(cluster) == DataSector + (cluster - 2) * SectorsPerCluster

\* The first cluster in the directory entry of a file; 0 when it is empty.
FirstCluster(f) == IF Chain[f] = << >> THEN 0 ELSE Chain[f][1]

\* What a read comes to, besides a count of blocks.
EIO     == -1
EINVARG == -2
EUNIMP  == -7
Hangs   == -100    \* no answer: the driver waits

\* The position of a table entry is a product of the position of the table,
\* the cluster and fat16_FAT_ENTRY_SIZE, in a uint32_t.
EntryPosition(cluster) == (ReservedSectors * SectorSize * cluster * 4) % Word32

GetEntry(cluster) ==
    IF NeverReady(EntryPosition(cluster), 2) THEN Hangs
    ELSE WordAt[EntryPosition(cluster)]

\* The entries get_cluster_for_offset takes for the last, for a reserved
\* sector and for a table that is damaged.  They are 12-bit marks.
LastEntries == {4088, 4095}
ReservedEntries == {4080, 4086}
Stops == LastEntries \cup ReservedEntries \cup {0}

\* The cluster reached after each entry that is followed from the first.
Followed(first, count) ==
    LET cluster[k \in 0 .. count] ==
          IF k = 0 THEN first
          ELSE IF cluster[k - 1] < 0 THEN cluster[k - 1]
          ELSE IF GetEntry(cluster[k - 1]) \in Stops THEN EIO
          ELSE GetEntry(cluster[k - 1])
    IN  cluster

ClusterForOffset(first, offset) ==
    Followed(first, offset \div ClusterSize)[offset \div ClusterSize]

\* Mutant of ChunkAt: every chunk begins at the position of the read.
ChunkAtPos(pos, size, j) == pos

\* Byte j of a read of blocks of the given size at a position.  A block is
\* read in chunks of a cluster's size from where it begins, whatever its
\* offset in a cluster: the chunk of byte j begins at ChunkAt.
InChunk(size, j) == (j % size) % ClusterSize

ChunkAt(pos, size, j) == pos + j - InChunk(size, j)

ChunkLength(size, j) ==
    LET left == size - (j % size) + InChunk(size, j)
    IN  IF left > ClusterSize THEN ClusterSize ELSE left

\* The address of byte j on the disk, or why it cannot be read.
ByteAt(first, pos, size, j) ==
    LET cluster == ClusterForOffset(first, ChunkAt(pos, size, j))
        address == ClusterToSector(cluster) * SectorSize
                     + (ChunkAt(pos, size, j) % ClusterSize)
    IN  IF cluster < 0 THEN cluster
        ELSE IF NeverReady(address, ChunkLength(size, j)) THEN Hangs
        ELSE ByteRead(address, InChunk(size, j))

\* fat16::read.  It ends at the first byte that cannot be read.
FileRead(first, pos, size, count) ==
    LET bytes == [j \in 0 .. (size * count - 1) |-> ByteAt(first, pos, size, j)]
        bad   == {j \in DOMAIN bytes : bytes[j] < 0}
    IN  IF bad = {} THEN [status |-> count, bytes |-> bytes]
        ELSE [status |-> bytes[CHOOSE j \in bad : \A k \in bad : j <= k],
              bytes  |-> [j \in {} |-> 0]]

----------------------------------------------------------------------------
(* The bytes of a file, by its chain.                                      *)

FileByte(f, k) == ClusterToSector(Chain[f][k \div ClusterSize + 1]) * SectorSize
                    + (k % ClusterSize)

FileBytes(f, pos, n) == [j \in 0 .. (n - 1) |-> FileByte(f, pos + j)]

\* The reads that are served: blocks in the first cluster of the file, each of
\* which begins at a sector or ends in the sector it begins in.
InFirstCluster(f, pos, size, count) ==
    Chain[f] # << >> /\ pos + size * count <= ClusterSize

EachSectorwise(pos, size, count) ==
    \A b \in 0 .. (count - 1) : Sectorwise(pos + b * size, size)

Served(f, pos, size, count) ==
    InFirstCluster(f, pos, size, count) /\ EachSectorwise(pos, size, count)
=============================================================================
