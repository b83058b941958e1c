---------------------------- MODULE FilesProofs ----------------------------
(***************************************************************************)
(* What disk::read and fat16::read deliver, for every size of a sector and *)
(* a cluster: the reads of a disk that are exact, and the reads of a file. *)
(*                                                                         *)
(* Then the file calls, for every disk, every set of programs and every    *)
(* size of the descriptor table, in every order of the calls.  Every       *)
(* descriptor that is held is 1, entry 0 of the table.                     *)
(***************************************************************************)
EXTENDS Files, TLAPS

----------------------------------------------------------------------------
(* Division.                                                               *)

\* Quotient and remainder of natural numbers, as facts without \div.
LEMMA Divide ==
    ASSUME NEW m \in Nat \ {0}, NEW x \in Nat
    PROVE  /\ x \div m \in Nat /\ x % m \in 0 .. (m - 1)
           /\ x = (x \div m) * m + (x % m)
<1>1. x \div m \in Int /\ x % m \in 0 .. (m - 1) /\ x = (x \div m) * m + (x % m)
  OBVIOUS
<1> DEFINE d == x \div m
           r == x % m
<1>2. d \in Int /\ r \in 0 .. (m - 1) /\ x = d * m + r
  BY <1>1
<1> HIDE DEF d, r
<1>3. d >= 0
  <2> SUFFICES ASSUME d <= -1 PROVE FALSE
    BY <1>2
  <2>1. d * m <= -m
    BY <1>2
  <2> QED
    BY <1>2, <2>1
<1> QED
  BY <1>1, <1>2, <1>3 DEF d, r

\* Quotient and remainder are unique.
LEMMA Unique ==
    ASSUME NEW m \in Nat \ {0}, NEW k \in Nat, NEW r \in 0 .. (m - 1)
    PROVE  (k * m + r) % m = r /\ (k * m + r) \div m = k
<1> DEFINE x == k * m + r
           d == x \div m
           s == x % m
<1>1. x \in Nat
  OBVIOUS
<1>2. d \in Nat /\ s \in 0 .. (m - 1) /\ x = d * m + s
  BY <1>1, Divide
<1> HIDE DEF d, s
<1>3. (k - d) * m = s - r
  BY <1>2
<1>4. k - d < 1
  <2> SUFFICES ASSUME k - d >= 1 PROVE FALSE
    BY <1>2
  <2>1. (k - d) * m >= m
    BY <1>2
  <2> QED
    BY <1>2, <1>3, <2>1
<1>5. k - d > -1
  <2> SUFFICES ASSUME k - d <= -1 PROVE FALSE
    BY <1>2
  <2>1. (k - d) * m <= -m
    BY <1>2
  <2> QED
    BY <1>2, <1>3, <2>1
<1>6. k = d
  BY <1>2, <1>4, <1>5
<1>7. s = r
  BY <1>2, <1>3, <1>6
<1> QED
  BY <1>6, <1>7 DEF d, s

\* A number below the divisor is its own remainder.
LEMMA Small ==
    ASSUME NEW m \in Nat \ {0}, NEW r \in 0 .. (m - 1)
    PROVE  r % m = r /\ r \div m = 0
<1>1. 0 * m + r = r
  OBVIOUS
<1> QED
  BY <1>1, Unique

----------------------------------------------------------------------------
(* Reading a disk.                                                         *)

\* A byte that is read is the right one, or the one a sector before it: when
\* the read began inside a sector and has crossed its end.
LEMMA ByteReadIs ==
    ASSUME NEW address \in Nat, NEW i \in Nat
    PROVE  /\ SectorHeld(address, i) \in Nat
           /\ Crossed(address, i) \in Nat
           /\ ByteRead(address, i) =
                IF address % SectorSize = 0 \/ Crossed(address, i) = 0
                THEN address + i ELSE address + i - SectorSize
           /\ SectorHeld(address, i) * SectorSize <= address + i
<1> DEFINE S == SectorSize
           q == address \div S
           r == address % S
           c == (r + i) \div S
           u == (r + i) % S
<1>1. S \in Nat \ {0}
  BY DiskAssumption
<1>2. q \in Nat /\ r \in 0 .. (S - 1) /\ address = q * S + r
  BY <1>1, Divide
<1>3. c \in Nat /\ u \in 0 .. (S - 1) /\ r + i = c * S + u
  <2>1. r + i \in Nat
    BY <1>1, <1>2
  <2> QED
    BY <1>1, <2>1, Divide
<1>4. Crossed(address, i) = c
  BY DEF Crossed
<1>5. SectorHeld(address, i) = IF r = 0 \/ c = 0 THEN q + c ELSE q + c - 1
  BY <1>4 DEF SectorHeld
<1>6. ByteRead(address, i) = SectorHeld(address, i) * S + ((address + i) % S)
  BY DEF ByteRead
<1> HIDE DEF S, q, r, c, u
<1>7. address + i = (q + c) * S + u
  BY <1>1, <1>2, <1>3
<1>8. (address + i) % S = u
  <2>1. q + c \in Nat
    BY <1>2, <1>3
  <2>2. ((q + c) * S + u) % S = u
    BY <1>1, <1>3, <2>1, Unique
  <2> QED
    BY <1>7, <2>2
<1>9. CASE r = 0 \/ c = 0
  <2>1. SectorHeld(address, i) = q + c
    BY <1>5, <1>9
  <2>2. ByteRead(address, i) = address + i
    BY <1>6, <1>7, <1>8, <2>1
  <2> QED
    BY <1>1, <1>2, <1>3, <1>4, <1>7, <1>9, <2>1, <2>2 DEF r, S
<1>10. CASE ~(r = 0 \/ c = 0)
  <2>1. SectorHeld(address, i) = q + c - 1 /\ c >= 1
    BY <1>3, <1>5, <1>10
  <2>2. (q + c - 1) * S = (q + c) * S - S
    BY <1>1, <1>2, <1>3
  <2>3. ByteRead(address, i) = address + i - S
    <3>1. ByteRead(address, i) = (q + c - 1) * S + u
      BY <1>6, <1>8, <2>1
    <3>2. (q + c) * S \in Int
      BY <1>1, <1>2, <1>3
    <3> QED
      BY <1>1, <1>3, <1>7, <2>2, <3>1, <3>2
  <2> QED
    BY <1>1, <1>2, <1>3, <1>4, <1>7, <1>10, <2>1, <2>2, <2>3 DEF r, S
<1> QED
  BY <1>9, <1>10

\* disk::read delivers the bytes it is asked for exactly when it begins at a
\* sector or ends in the sector it begins in.
THEOREM DiskReadExact ==
    ASSUME NEW address \in Nat, NEW n \in Nat
    PROVE  (\A i \in 0 .. (n - 1) : ByteRead(address, i) = address + i)
             <=> n = 0 \/ Sectorwise(address, n)
<1> DEFINE S == SectorSize
           r == address % S
<1>1. S \in Nat \ {0}
  BY DiskAssumption
<1>2. r \in 0 .. (S - 1)
  BY <1>1, Divide
<1>3. ASSUME Sectorwise(address, n), NEW i \in 0 .. (n - 1)
      PROVE  ByteRead(address, i) = address + i
  <2>1. CASE r = 0
    BY <2>1, ByteReadIs
  <2>2. CASE r + n <= S
    <3>1. r + i \in 0 .. (S - 1)
      BY <1>1, <1>2, <2>2
    <3>2. Crossed(address, i) = 0
      BY <1>1, <3>1, Small DEF Crossed
    <3> QED
      BY <3>2, ByteReadIs
  <2> QED
    BY <1>3, <2>1, <2>2 DEF Sectorwise
<1>4. ASSUME ~Sectorwise(address, n), n # 0
      PROVE  \E i \in 0 .. (n - 1) : ByteRead(address, i) # address + i
  <2>1. r # 0 /\ r + n > S
    BY <1>1, <1>2, <1>4 DEF Sectorwise
  <2>2. S - r \in 0 .. (n - 1)
    BY <1>1, <1>2, <2>1
  <2>3. Crossed(address, S - r) = 1
    <3>1. r + (S - r) = 1 * S + 0
      BY <1>1, <1>2
    <3>2. (1 * S + 0) \div S = 1
      BY <1>1, Unique
    <3> QED
      BY <3>1, <3>2 DEF Crossed
  <2>4. ByteRead(address, S - r) = address + (S - r) - S
    BY <2>1, <2>2, <2>3, ByteReadIs
  <2>5. ByteRead(address, S - r) # address + (S - r)
    BY <1>1, <1>2, <2>4
  <2> QED
    BY <2>2, <2>5
<1>5. n = 0 => \A i \in 0 .. (n - 1) : ByteRead(address, i) = address + i
  OBVIOUS
<1> QED
  BY <1>3, <1>4, <1>5

----------------------------------------------------------------------------
(* Reading the first cluster of a file.                                    *)

\* A product of naturals is a natural, and not 0 unless a factor is.
LEMMA Product == ASSUME NEW a \in Nat, NEW b \in Nat
                 PROVE  /\ a * b \in Nat
                        /\ a # 0 /\ b # 0 => a * b # 0
  OBVIOUS

\* A cluster has at least one byte.
LEMMA ClusterSizePositive == ClusterSize \in Nat \ {0}
<1>1. SectorsPerCluster \in Nat \ {0} /\ SectorSize \in Nat \ {0}
  BY DiskAssumption, LayoutAssumption
<1> QED
  BY <1>1, Product DEF ClusterSize

\* No entry of the table is looked at for an offset in the first cluster.
LEMMA FirstClusterForOffset ==
    ASSUME NEW c \in Nat, NEW offset \in 0 .. (ClusterSize - 1)
    PROVE  ClusterForOffset(c, offset) = c
<1>1. offset \div ClusterSize = 0
  BY ClusterSizePositive, Small
<1>2. Followed(c, 0)[0] = c
  <2> DEFINE Step(g) == [k \in 0 .. 0 |->
          IF k = 0 THEN c
          ELSE IF g[k - 1] < 0 THEN g[k - 1]
          ELSE IF GetEntry(g[k - 1]) \in Stops THEN EIO
          ELSE GetEntry(g[k - 1])]
         w == [k \in 0 .. 0 |-> c]
  <2>1. w = Step(w)
    OBVIOUS
  <2>2. PICK g : g = Step(g) /\ Followed(c, 0) = g
    BY <2>1 DEF Followed
  <2> QED
    BY <2>2
<1> QED
  BY <1>1, <1>2 DEF ClusterForOffset

\* The first cluster of a file lies on the disk, at FirstByte(f).
FirstByte(f) == ClusterToSector(FirstCluster(f)) * SectorSize

\* The sectors of the first cluster of a file are sectors of the disk.
LEMMA ClusterOnDisk ==
    ASSUME NEW f \in Files, Chain[f] # << >>
    PROVE  /\ FirstCluster(f) \in Nat
           /\ ClusterToSector(FirstCluster(f)) \in Nat
           /\ FirstByte(f) \in Nat
           /\ ClusterToSector(FirstCluster(f)) + SectorsPerCluster <= Sectors
           /\ FirstByte(f) + ClusterSize <= Sectors * SectorSize
<1> DEFINE c == Chain[f][1]
           s == ClusterToSector(c)
           n == SectorsPerCluster
<1>1. Chain[f] \in Seq(Nat \ {0, 1}) /\ 1 \in 1 .. Len(Chain[f])
  BY ChainAssumption
<1>2. c \in Nat /\ c >= 2 /\ FirstCluster(f) = c
  BY <1>1 DEF FirstCluster
<1>3. DataSector \in Nat /\ n \in Nat /\ SectorSize \in Nat /\ Sectors \in Nat
  BY LayoutAssumption, DiskAssumption
<1>4. DataSector + (c - 1) * n <= Sectors
  BY <1>1, ChainAssumption
<1>5. s = DataSector + (c - 2) * n
  BY DEF ClusterToSector
<1> HIDE DEF c, s, n
<1>6. (c - 2) * n \in Nat
  BY <1>2, <1>3, Product
<1>7. s \in Nat
  BY <1>3, <1>5, <1>6
<1>8. s + n <= Sectors
  <2>1. (c - 1) * n = (c - 2) * n + n
    BY <1>2, <1>3
  <2> QED
    BY <1>3, <1>4, <1>5, <1>6, <2>1
<1>9. s * SectorSize \in Nat
  BY <1>3, <1>7, Product
<1>10. s * SectorSize + n * SectorSize <= Sectors * SectorSize
  <2>1. \E d \in Nat : Sectors = s + n + d
    <3>1. Sectors - (s + n) \in Nat
      BY <1>3, <1>7, <1>8
    <3> QED
      BY <1>3, <1>7, <3>1
  <2>2. PICK d \in Nat : Sectors = s + n + d
    BY <2>1
  <2>3. d * SectorSize \in Nat
    BY <1>3, Product
  <2>4. (s + n + d) * SectorSize = s * SectorSize + n * SectorSize + d * SectorSize
    BY <1>3, <1>7
  <2>5. n * SectorSize \in Nat
    BY <1>3, Product
  <2> QED
    BY <1>9, <2>2, <2>3, <2>4, <2>5
<1> QED
  BY <1>2, <1>7, <1>8, <1>9, <1>10 DEF FirstByte, ClusterSize, s, n

\* A position in the first cluster is as far from a sector's start as its
\* address is.
LEMMA SameInSector ==
    ASSUME NEW f \in Files, Chain[f] # << >>, NEW k \in Nat
    PROVE  (FirstByte(f) + k) % SectorSize = k % SectorSize
<1> DEFINE S == SectorSize
           q == k \div S
           r == k % S
           s == ClusterToSector(FirstCluster(f))
<1>1. S \in Nat \ {0} /\ s \in Nat
  BY DiskAssumption, ClusterOnDisk
<1>2. q \in Nat /\ r \in 0 .. (S - 1) /\ k = q * S + r
  BY <1>1, Divide
<1>3. FirstByte(f) + k = s * S + k
  BY DEF FirstByte
<1> HIDE DEF S, q, r, s
<1>4. s * S + k = (s + q) * S + r
  BY <1>1, <1>2
<1>5. ((s + q) * S + r) % S = r
  BY <1>1, <1>2, Unique
<1> QED
  BY <1>3, <1>4, <1>5 DEF S, r

\* A block in the first cluster is read in one chunk.  The positions are named
\* to keep their products out of the way of the provers.
BlockStart(from, size, b) == from + b * size
BlockByte(size, b, r) == b * size + r
Fits(from, size, count) == from + size * count <= ClusterSize

\* A block of a read that fits in the first cluster is read there in one chunk.
LEMMA OneChunk ==
    ASSUME NEW from \in Nat, NEW size \in Nat \ {0}, NEW count \in Nat \ {0},
           Fits(from, size, count),
           NEW b \in 0 .. (count - 1), NEW r \in 0 .. (size - 1)
    PROVE  /\ BlockByte(size, b, r) \in 0 .. (size * count - 1)
           /\ BlockStart(from, size, b) + size <= ClusterSize
           /\ BlockStart(from, size, b) \in 0 .. (ClusterSize - 1)
           /\ InChunk(size, BlockByte(size, b, r)) = r
           /\ ChunkAt(from, size, BlockByte(size, b, r)) = BlockStart(from, size, b)
           /\ ChunkLength(size, BlockByte(size, b, r)) = size
<1> DEFINE C == ClusterSize
           j == b * size + r
<1>1. C \in Nat \ {0}
  BY ClusterSizePositive
<1>2. b * size \in Nat /\ size * count \in Nat
  BY Product
<1>3. b * size + size <= size * count
  <2>1. PICK d \in Nat : count = b + 1 + d
    <3>1. count - (b + 1) \in Nat /\ count = b + 1 + (count - (b + 1))
      OBVIOUS
    <3> QED
      BY <3>1
  <2>2. d * size \in Nat
    BY Product
  <2>3. size * (b + 1 + d) = b * size + size + d * size
    OBVIOUS
  <2> QED
    BY <1>2, <2>1, <2>2, <2>3
<1>4. from + b * size + size <= C
  BY <1>1, <1>2, <1>3 DEF Fits
<1>5. j % size = r
  <2>1. b \in Nat
    OBVIOUS
  <2>2. (b * size + r) % size = r
    BY <2>1, Unique, Zenon
  <2> QED
    BY <2>2
<1>6. r \in 0 .. (C - 1)
  BY <1>1, <1>2, <1>4
<1>7. InChunk(size, j) = r
  BY <1>1, <1>5, <1>6, Small DEF InChunk
<1> HIDE DEF C
<1>8. ChunkAt(from, size, j) = from + b * size
  <2>1. ChunkAt(from, size, j) = from + j - r
    BY <1>7 DEF ChunkAt
  <2>2. from + j - r = from + b * size
    BY <1>2
  <2> QED
    BY <2>1, <2>2
<1>9. ChunkLength(size, j) = size
  <2>1. size - (j % size) + InChunk(size, j) = size
    BY <1>5, <1>7
  <2> QED
    BY <1>1, <1>2, <1>4, <2>1 DEF ChunkLength, C
<1> QED
  BY <1>1, <1>2, <1>3, <1>4, <1>7, <1>8, <1>9 DEF C, BlockStart, BlockByte

\* Byte r of block b comes from where disk::read takes byte r of a read at the
\* start of the block; no sector of it is beyond the disk.
LEMMA ByteAtIs ==
    ASSUME NEW f \in Files, Chain[f] # << >>,
           NEW from \in Nat, NEW size \in Nat \ {0}, NEW count \in Nat \ {0},
           Fits(from, size, count),
           NEW b \in 0 .. (count - 1), NEW r \in 0 .. (size - 1)
    PROVE  ByteAt(FirstCluster(f), from, size, BlockByte(size, b, r))
             = ByteRead(FirstByte(f) + BlockStart(from, size, b), r)
<1> DEFINE at == BlockStart(from, size, b)
           j == BlockByte(size, b, r)
           first == ClusterToSector(FirstCluster(f))
           address == FirstByte(f) + at
<1>1. /\ at \in 0 .. (ClusterSize - 1) /\ at + size <= ClusterSize
      /\ InChunk(size, j) = r /\ ChunkAt(from, size, j) = at
      /\ ChunkLength(size, j) = size
  BY OneChunk
<1>2. FirstCluster(f) \in Nat /\ FirstByte(f) \in Nat /\ first \in Nat
      /\ FirstByte(f) + ClusterSize <= Sectors * SectorSize
  BY ClusterOnDisk
<1>3. ClusterForOffset(FirstCluster(f), at) = FirstCluster(f)
  BY <1>1, <1>2, FirstClusterForOffset
<1>4. at % ClusterSize = at
  BY <1>1, ClusterSizePositive, Small
<1>5. at \in Nat /\ address \in Nat /\ address + size <= Sectors * SectorSize
  <2>1. Sectors * SectorSize \in Nat
    BY DiskAssumption, Product
  <2> HIDE DEF at
  <2> QED
    BY <1>1, <1>2, <2>1, ClusterSizePositive
<1>6. ~NeverReady(address, size)
  <2> DEFINE held == SectorHeld(address, size - 1)
  <2>1. size - 1 \in Nat
    OBVIOUS
  <2>2. held \in Nat /\ held * SectorSize <= address + (size - 1)
    BY <1>5, <2>1, ByteReadIs
  <2> HIDE DEF held, at, address
  <2>3. ASSUME held >= Sectors PROVE FALSE
    <3>1. PICK d \in Nat : held = Sectors + d
      <4>1. held - Sectors \in Nat /\ held = Sectors + (held - Sectors)
        BY <2>2, <2>3, DiskAssumption
      <4> QED
        BY <4>1
    <3>2. d * SectorSize \in Nat /\ Sectors * SectorSize \in Nat
      BY DiskAssumption, Product
    <3>3. (Sectors + d) * SectorSize = Sectors * SectorSize + d * SectorSize
      BY DiskAssumption
    <3> QED
      BY <1>5, <2>2, <3>1, <3>2, <3>3
  <2> QED
    BY <2>2, <2>3, DiskAssumption DEF NeverReady, held
<1>7. ByteAt(FirstCluster(f), from, size, j) = ByteRead(address, r)
  <2> DEFINE c == FirstCluster(f)
             chunk == first * SectorSize + (at % ClusterSize)
  <2>1. chunk = address
    BY <1>4 DEF FirstByte
  <2>2. ByteAt(c, from, size, j) =
          IF c < 0 THEN c
          ELSE IF NeverReady(chunk, size) THEN Hangs
          ELSE ByteRead(chunk, r)
    <3> HIDE DEF at, j, address
    <3> QED
      BY <1>1, <1>3 DEF ByteAt
  <2>3. ~(c < 0)
    BY <1>2
  <2> QED
    BY <1>6, <2>1, <2>2, <2>3
<1> QED
  BY <1>7

\* A file's bytes in its first cluster follow one another on the disk.
LEMMA FileByteIs ==
    ASSUME NEW f \in Files, Chain[f] # << >>, NEW k \in 0 .. (ClusterSize - 1)
    PROVE  FileByte(f, k) = FirstByte(f) + k
<1>1. k \div ClusterSize = 0 /\ k % ClusterSize = k
  BY ClusterSizePositive, Small
<1> QED
  BY <1>1 DEF FileByte, FirstByte, FirstCluster

\* The bytes of a read, by block.
LEMMA Blocks ==
    ASSUME NEW size \in Nat \ {0}, NEW count \in Nat \ {0},
           NEW j \in 0 .. (size * count - 1)
    PROVE  \E b \in 0 .. (count - 1), r \in 0 .. (size - 1) : j = BlockByte(size, b, r)
<1> DEFINE b == j \div size
           r == j % size
<1>1. b \in Nat /\ r \in 0 .. (size - 1) /\ j = b * size + r
  <2>1. size * count \in Nat
    BY Product
  <2>2. j \in Nat
    BY <2>1
  <2> QED
    BY <2>2, Divide
<1> HIDE DEF b, r
<1>2. ASSUME b >= count PROVE FALSE
  <2>1. PICK d \in Nat : b = count + d
    <3>1. b - count \in Nat /\ b = count + (b - count)
      BY <1>1, <1>2
    <3> QED
      BY <3>1
  <2>2. d * size \in Nat /\ size * count \in Nat
    BY Product
  <2>3. (count + d) * size = size * count + d * size
    OBVIOUS
  <2> QED
    BY <1>1, <2>1, <2>2, <2>3
<1>3. b \in 0 .. (count - 1)
  BY <1>1, <1>2
<1> QED
  BY <1>1, <1>3 DEF BlockByte

\* A block is read exactly if, and only if, disk::read reads it exactly.
LEMMA BlockExact ==
    ASSUME NEW f \in Files, Chain[f] # << >>,
           NEW from \in Nat, NEW size \in Nat \ {0}, NEW count \in Nat \ {0},
           Fits(from, size, count), NEW b \in 0 .. (count - 1)
    PROVE  (\A r \in 0 .. (size - 1) :
               ByteAt(FirstCluster(f), from, size, BlockByte(size, b, r))
                 = FileByte(f, from + BlockByte(size, b, r)))
             <=> Sectorwise(BlockStart(from, size, b), size)
<1> DEFINE at == BlockStart(from, size, b)
           address == FirstByte(f) + at
<1>1. at \in Nat /\ at + size <= ClusterSize
  <2>1. 0 \in 0 .. (size - 1)
    OBVIOUS
  <2>2. at \in 0 .. (ClusterSize - 1) /\ at + size <= ClusterSize
    BY <2>1, OneChunk
  <2> QED
    BY <2>2, ClusterSizePositive
<1>2. FirstByte(f) \in Nat
  BY ClusterOnDisk
<1>3. address \in Nat
  BY <1>1, <1>2
<1>4. address % SectorSize = at % SectorSize
  BY <1>1, SameInSector
<1>5. Sectorwise(address, size) <=> Sectorwise(at, size)
  BY <1>4 DEF Sectorwise
<1>6. (\A r \in 0 .. (size - 1) : ByteRead(address, r) = address + r)
         <=> Sectorwise(address, size)
  BY <1>3, DiskReadExact
<1>7. ASSUME NEW r \in 0 .. (size - 1)
      PROVE  /\ ByteAt(FirstCluster(f), from, size, BlockByte(size, b, r))
                   = ByteRead(address, r)
             /\ FileByte(f, from + BlockByte(size, b, r)) = address + r
  <2>1. from + BlockByte(size, b, r) = at + r
    <3>1. b * size \in Nat
      BY Product
    <3> QED
      BY <3>1 DEF BlockByte, BlockStart
  <2> HIDE DEF at
  <2>2. at + r \in 0 .. (ClusterSize - 1)
    BY <1>1, ClusterSizePositive
  <2>3. FileByte(f, at + r) = FirstByte(f) + (at + r)
    BY <2>2, FileByteIs
  <2>4. FirstByte(f) + (at + r) = address + r
    BY <1>1, <1>2
  <2>5. ByteAt(FirstCluster(f), from, size, BlockByte(size, b, r)) = ByteRead(address, r)
    BY ByteAtIs DEF at
  <2> QED
    BY <2>1, <2>3, <2>4, <2>5
<1> HIDE DEF at, address
<1>8. (\A r \in 0 .. (size - 1) :
         ByteAt(FirstCluster(f), from, size, BlockByte(size, b, r))
           = FileByte(f, from + BlockByte(size, b, r)))
        <=> (\A r \in 0 .. (size - 1) : ByteRead(address, r) = address + r)
  BY <1>7
<1> QED
  BY <1>5, <1>6, <1>8 DEF at

\* The byte that the stream delivers has an address.
LEMMA ByteReadNat == ASSUME NEW address \in Nat, NEW i \in Nat
                     PROVE  ByteRead(address, i) \in Nat
<1>1. SectorHeld(address, i) \in Nat /\ SectorSize \in Nat \ {0}
  BY ByteReadIs, DiskAssumption
<1>2. (address + i) % SectorSize \in Nat
  BY <1>1, Divide
<1>3. SectorHeld(address, i) * SectorSize \in Nat
  BY <1>1, Product
<1> QED
  BY <1>2, <1>3 DEF ByteRead

\* Every byte that a block in the first cluster is given comes from the disk.
LEMMA ByteAtNat ==
    ASSUME NEW f \in Files, Chain[f] # << >>,
           NEW from \in Nat, NEW size \in Nat \ {0}, NEW count \in Nat \ {0},
           Fits(from, size, count),
           NEW b \in 0 .. (count - 1), NEW r \in 0 .. (size - 1)
    PROVE  ByteAt(FirstCluster(f), from, size, BlockByte(size, b, r)) \in Nat
<1>1. BlockStart(from, size, b) \in Nat
  BY OneChunk, ClusterSizePositive
<1>2. FirstByte(f) + BlockStart(from, size, b) \in Nat /\ r \in Nat
  BY <1>1, ClusterOnDisk
<1>3. ByteRead(FirstByte(f) + BlockStart(from, size, b), r) \in Nat
  BY <1>2, ByteReadNat
<1>4. ByteAt(FirstCluster(f), from, size, BlockByte(size, b, r))
        = ByteRead(FirstByte(f) + BlockStart(from, size, b), r)
  BY ByteAtIs
<1> QED
  BY <1>3, <1>4

\* fat16::read in the first cluster of a file answers with the count, and
\* delivers the bytes of the file exactly when each block begins at a sector or
\* ends in the one it begins in.
THEOREM FileReadExact ==
    ASSUME NEW f \in Files, NEW from \in Nat,
           NEW size \in Nat \ {0}, NEW count \in Nat \ {0},
           InFirstCluster(f, from, size, count)
    PROVE  LET got == FileRead(FirstCluster(f), from, size, count)
           IN  /\ got.status = count
               /\ got.bytes = FileBytes(f, from, size * count)
                    <=> EachSectorwise(from, size, count)
<1> DEFINE n == size * count
           first == FirstCluster(f)
           bytes == [j \in 0 .. (n - 1) |-> ByteAt(first, from, size, j)]
           got == FileRead(first, from, size, count)
<1>1. Chain[f] # << >> /\ Fits(from, size, count)
  BY DEF InFirstCluster, Fits
<1>2. \A b \in 0 .. (count - 1), r \in 0 .. (size - 1) : BlockByte(size, b, r) \in 0 .. (n - 1)
  BY <1>1, OneChunk
<1>3. ASSUME NEW j \in 0 .. (n - 1) PROVE ~(ByteAt(first, from, size, j) < 0)
  <2>1. \A b \in 0 .. (count - 1), r \in 0 .. (size - 1) :
          ByteAt(FirstCluster(f), from, size, BlockByte(size, b, r)) \in Nat
    BY <1>1, ByteAtNat, Zenon
  <2>2. PICK b \in 0 .. (count - 1), r \in 0 .. (size - 1) : j = BlockByte(size, b, r)
    BY Blocks
  <2>3. ByteAt(first, from, size, j) \in Nat
    BY <2>1, <2>2, Zenon
  <2> QED
    BY <2>3
<1>4. got.status = count /\ got.bytes = bytes
  <2>1. {j \in DOMAIN bytes : bytes[j] < 0} = {}
    BY <1>3
  <2>2. got = [status |-> count, bytes |-> bytes]
    BY <2>1, Zenon DEF FileRead
  <2> QED
    BY <2>2
<1>5. bytes = FileBytes(f, from, n)
        <=> \A j \in 0 .. (n - 1) : ByteAt(first, from, size, j) = FileByte(f, from + j)
  <2> HIDE DEF n, first
  <2> QED
    BY DEF FileBytes
<1>6. (\A j \in 0 .. (n - 1) : ByteAt(first, from, size, j) = FileByte(f, from + j))
        <=> \A b \in 0 .. (count - 1) : \A r \in 0 .. (size - 1) :
              ByteAt(first, from, size, BlockByte(size, b, r))
                = FileByte(f, from + BlockByte(size, b, r))
  <2>1. \A j \in 0 .. (n - 1) : \E b \in 0 .. (count - 1), r \in 0 .. (size - 1) :
          j = BlockByte(size, b, r)
    BY Blocks
  <2> HIDE DEF n, first
  <2>2. ASSUME \A b \in 0 .. (count - 1) : \A r \in 0 .. (size - 1) :
                 ByteAt(first, from, size, BlockByte(size, b, r))
                   = FileByte(f, from + BlockByte(size, b, r)),
               NEW j \in 0 .. (n - 1)
        PROVE  ByteAt(first, from, size, j) = FileByte(f, from + j)
    <3>1. PICK b \in 0 .. (count - 1), r \in 0 .. (size - 1) : j = BlockByte(size, b, r)
      BY <2>1
    <3>2. ByteAt(first, from, size, BlockByte(size, b, r))
            = FileByte(f, from + BlockByte(size, b, r))
      BY <2>2
    <3> QED
      BY <3>1, <3>2
  <2>3. ASSUME \A j \in 0 .. (n - 1) : ByteAt(first, from, size, j) = FileByte(f, from + j),
               NEW b \in 0 .. (count - 1), NEW r \in 0 .. (size - 1)
        PROVE  ByteAt(first, from, size, BlockByte(size, b, r))
                 = FileByte(f, from + BlockByte(size, b, r))
    BY <1>2, <2>3, Zenon
  <2> QED
    BY <2>2, <2>3
<1>7. EachSectorwise(from, size, count)
        <=> \A b \in 0 .. (count - 1) : Sectorwise(BlockStart(from, size, b), size)
  BY DEF EachSectorwise, BlockStart
<1>8. \A b \in 0 .. (count - 1) :
        (\A r \in 0 .. (size - 1) :
           ByteAt(first, from, size, BlockByte(size, b, r))
             = FileByte(f, from + BlockByte(size, b, r)))
        <=> Sectorwise(BlockStart(from, size, b), size)
  BY <1>1, BlockExact
<1>9. bytes = FileBytes(f, from, n) <=> EachSectorwise(from, size, count)
  <2> HIDE DEF bytes, n, first
  <2> QED
    BY <1>5, <1>6, <1>7, <1>8, Zenon
<1> QED
  BY <1>4, <1>9

----------------------------------------------------------------------------
(* The descriptor table.                                                   *)

\* No entry is marked taken, and every descriptor is 1.
OneEntry ==
    /\ \A i \in Indices : ~isTaken[i]
    /\ \A p \in Programs : fd[p] \in {0, 1}
    /\ (\E p \in Programs : fd[p] # 0) => table[0].data # Null

\* An object that was not freed holds a file.
LiveHold == \A o \in live : item[o] \in Files

Inv == TypeOK /\ OneEntry /\ LiveHold

\* There is a first entry of the descriptor table.
LEMMA IndexZero == 0 \in Indices /\ MaxDescriptors \in Nat /\ MaxDescriptors >= 2
  BY FilesAssumption DEF Indices

\* The search for a free entry ends at the first.
LEMMA FirstFreeIs == ASSUME OneEntry PROVE FirstFree = 0 /\ Free = Indices
<1>1. Free = Indices
  BY DEF OneEntry, Free
<1>2. \A j \in Indices : 0 <= j
  BY IndexZero DEF Indices
<1>3. \A i \in Indices : (\A j \in Indices : i <= j) => i = 0
  BY IndexZero DEF Indices
<1>4. FirstFree = 0
  BY <1>1, <1>2, <1>3, IndexZero DEF FirstFree
<1> QED
  BY <1>1, <1>4

\* A descriptor leads to the object of entry 0.
LEMMA ReachedIs ==
    ASSUME Inv, NEW p \in Programs, fd[p] # 0
    PROVE  /\ fd[p] = 1 /\ Descriptor(fd[p]) = 0
           /\ Reached(p) = {table[0].data}
           /\ table[0].index = 1
<1>1. fd[p] = 1 /\ ~isTaken[0] /\ table[0].data # Null
  BY IndexZero DEF Inv, OneEntry
<1>2. Descriptor(fd[p]) = 0
  BY <1>1, IndexZero DEF Descriptor
<1>3. table[0].data \in Objects /\ table[0].index = 0 + 1
  BY <1>1, IndexZero DEF Inv, TypeOK
<1>4. Reached(p) = {table[0].data}
  BY <1>2, <1>3 DEF Reached, Nobody
<1> QED
  BY <1>1, <1>2, <1>3, <1>4

\* The object that a call is made on is the one of entry 0, and holds a file.
LEMMA ReachedOne ==
    ASSUME Inv, NEW p \in Programs, NEW o \in Reached(p) \cap live
    PROVE  fd[p] # 0 /\ o = table[0].data /\ item[o] \in Files /\ pos[o] \in Nat
<1>1. fd[p] # 0
  BY DEF Reached
<1>2. o = table[0].data
  BY <1>1, ReachedIs
<1>3. item[o] \in Files /\ pos[o] \in Nat
  BY DEF Inv, LiveHold, TypeOK
<1> QED
  BY <1>1, <1>2, <1>3

\* The invariant holds at the start, when no file is open.
LEMMA InitInv == Init => Inv
<1> SUFFICES ASSUME Init PROVE Inv
  OBVIOUS
<1>1. TypeOK
  <2>1. table \in [Indices -> [index : 0 .. MaxDescriptors, data : Objects \cup {Null}]]
    BY IndexZero DEF Init
  <2>2. pos \in [Objects -> 0 .. MaxPosition] /\ fd \in [Programs -> 0 .. MaxDescriptors]
    BY IndexZero, FilesAssumption DEF Init
  <2> QED
    BY <2>1, <2>2 DEF Init, TypeOK
<1>2. OneEntry /\ LiveHold
  BY DEF Init, OneEntry, LiveHold
<1> QED
  BY <1>1, <1>2 DEF Inv

\* A new entry, with the descriptors that are held afterwards.
LEMMA EnteredInv ==
    ASSUME Inv, NEW f \in Files, NEW o \in Objects, Entered(0, o, f)
    PROVE  /\ isTaken' \in [Indices -> BOOLEAN] /\ \A i \in Indices : ~isTaken'[i]
           /\ table' \in [Indices -> [index : 0 .. MaxDescriptors, data : Objects \cup {Null}]]
           /\ \A i \in Indices :
                IF table'[i].data = Null THEN table'[i].index = 0
                ELSE table'[i].index = i + 1
           /\ item' \in [Objects -> Files \cup {Null}]
           /\ pos' \in [Objects -> 0 .. MaxPosition]
           /\ table'[0] = [index |-> 1, data |-> o] /\ item'[o] = f /\ pos'[o] = 0
           /\ \A x \in live : item'[x] \in Files
<1> USE FilesAssumption, IndexZero DEF Inv, TypeOK, OneEntry, Entered
<1>1. isTaken' \in [Indices -> BOOLEAN] /\ \A i \in Indices : ~isTaken'[i]
  OBVIOUS
<1>2. /\ table' = [table EXCEPT ![0] = [index |-> 1, data |-> o]]
      /\ [index |-> 1, data |-> o] \in [index : 0 .. MaxDescriptors, data : Objects \cup {Null}]
      /\ o # Null
  OBVIOUS
<1>3. table' \in [Indices -> [index : 0 .. MaxDescriptors, data : Objects \cup {Null}]]
  BY <1>2
<1>4. table'[0] = [index |-> 1, data |-> o]
      /\ \A i \in Indices \ {0} : table'[i] = table[i]
  BY <1>2
<1>5. \A i \in Indices :
        IF table'[i].data = Null THEN table'[i].index = 0 ELSE table'[i].index = i + 1
  BY <1>2, <1>4
<1>6. item' \in [Objects -> Files \cup {Null}] /\ item'[o] = f
  OBVIOUS
<1>7. pos' \in [Objects -> 0 .. MaxPosition] /\ pos'[o] = 0
  OBVIOUS
<1>8. \A x \in live : item'[x] \in Files
  BY <1>6 DEF LiveHold
<1> QED
  BY <1>1, <1>3, <1>4, <1>5, <1>6, <1>7, <1>8

----------------------------------------------------------------------------
(* Each call preserves the invariant.                                      *)

\* fopen takes entry 0, and its descriptor leads to the object it made.
LEMMA FopenInv ==
    ASSUME Inv, NEW p \in Programs, NEW n \in Names, Fopen(p, n)
    PROVE  Inv'
<1>1. FirstFree = 0 /\ Free = Indices
  BY FirstFreeIs DEF Inv
<1>2. PICK f \in Files, o \in Objects \ live :
        Entered(0, o, f) /\ live' = live \cup {o}
  BY <1>1, FilesAssumption DEF Fopen
<1>3. fd' = [fd EXCEPT ![p] = 1] /\ hung' = hung
  BY <1>1 DEF Fopen
<1>4. /\ isTaken' \in [Indices -> BOOLEAN] /\ \A i \in Indices : ~isTaken'[i]
      /\ table' \in [Indices -> [index : 0 .. MaxDescriptors, data : Objects \cup {Null}]]
      /\ \A i \in Indices :
           IF table'[i].data = Null THEN table'[i].index = 0 ELSE table'[i].index = i + 1
      /\ item' \in [Objects -> Files \cup {Null}]
      /\ pos' \in [Objects -> 0 .. MaxPosition]
      /\ table'[0] = [index |-> 1, data |-> o] /\ item'[o] = f
      /\ \A x \in live : item'[x] \in Files
  BY <1>2, EnteredInv
<1>5. fd' \in [Programs -> 0 .. MaxDescriptors] /\ \A q \in Programs : fd'[q] \in {0, 1}
  BY <1>3, IndexZero DEF Inv, TypeOK, OneEntry
<1>6. TypeOK'
  BY <1>2, <1>3, <1>4, <1>5 DEF Inv, TypeOK
<1>7. OneEntry'
  <2>1. table'[0].data = o /\ o # Null
    BY <1>4, FilesAssumption
  <2> QED
    BY <1>4, <1>5, <2>1 DEF OneEntry
<1>8. LiveHold'
  BY <1>2, <1>4 DEF LiveHold
<1> QED
  BY <1>6, <1>7, <1>8 DEF Inv

\* Loading a program, which opens and closes a file, preserves the invariant.
LEMMA LoadInv == ASSUME Inv, NEW n \in Names, Load(n) PROVE Inv'
<1>1. FirstFree = 0 /\ Free = Indices
  BY FirstFreeIs DEF Inv
<1>2. PICK f \in Files, o \in Objects \ live : Entered(0, o, f) /\ hung' \in BOOLEAN
  <2>1. PICK f \in Finds[n], o \in Objects \ live :
          /\ Entered(0, o, f)
          /\ hung' = hung \/ hung' = (FileRead(FirstCluster(f), 0, FileSize[f], 1).status = Hangs)
    BY <1>1, Zenon DEF Load
  <2> QED
    BY <2>1, FilesAssumption DEF Inv, TypeOK
<1>3. live' = live /\ fd' = fd
  BY DEF Load
<1>4. /\ isTaken' \in [Indices -> BOOLEAN] /\ \A i \in Indices : ~isTaken'[i]
      /\ table' \in [Indices -> [index : 0 .. MaxDescriptors, data : Objects \cup {Null}]]
      /\ \A i \in Indices :
           IF table'[i].data = Null THEN table'[i].index = 0 ELSE table'[i].index = i + 1
      /\ item' \in [Objects -> Files \cup {Null}]
      /\ pos' \in [Objects -> 0 .. MaxPosition]
      /\ table'[0] = [index |-> 1, data |-> o]
      /\ \A x \in live : item'[x] \in Files
  BY <1>2, EnteredInv
<1>5. TypeOK'
  BY <1>2, <1>3, <1>4 DEF Inv, TypeOK
<1>6. OneEntry'
  <2>1. table'[0].data = o /\ o # Null
    BY <1>4, FilesAssumption
  <2> QED
    BY <1>3, <1>4, <2>1 DEF Inv, OneEntry
<1>7. LiveHold'
  BY <1>3, <1>4 DEF LiveHold
<1> QED
  BY <1>5, <1>6, <1>7 DEF Inv

\* A call that changes no entry, no object and no descriptor.
LEMMA SameInv ==
    ASSUME Inv, UNCHANGED <<isTaken, table, live, item, pos, fd>>, hung' \in BOOLEAN
    PROVE  Inv'
  BY DEF Inv, TypeOK, OneEntry, LiveHold

\* fread changes no entry and no object.
LEMMA FreadInv ==
    ASSUME Inv, NEW p \in Programs, NEW o \in Objects, NEW r \in Requests,
           Fread(p, o, r[1], r[2])
    PROVE  Inv'
<1>1. hung' \in BOOLEAN
  <2>1. hung' = hung \/ hung' = (FileRead(FirstCluster(item[o]), pos[o], r[1], r[2]).status = Hangs)
    BY Zenon DEF Fread
  <2> QED
    BY <2>1 DEF Inv, TypeOK
<1> QED
  BY <1>1, SameInv DEF Fread

\* fseek moves the position of one object, and no entry.
LEMMA FseekInv ==
    ASSUME Inv, NEW p \in Programs, NEW o \in Objects, NEW offset, NEW whence,
           Fseek(p, o, offset, whence)
    PROVE  Inv'
<1>1. UNCHANGED <<isTaken, table, live, item, fd, hung>>
  BY DEF Fseek
<1>2. pos' \in [Objects -> 0 .. MaxPosition]
  BY DEF Fseek, Inv, TypeOK
<1> QED
  BY <1>1, <1>2 DEF Inv, TypeOK, OneEntry, LiveHold

\* A program that ends without closing leaves the table as it is.
LEMMA EndsInv == ASSUME Inv, NEW p \in Programs, Ends(p) PROVE Inv'
<1>1. UNCHANGED <<isTaken, table, live, item, pos, hung>> /\ fd' = [fd EXCEPT ![p] = 0] /\ fd[p] # 0
  BY DEF Ends
<1>2. fd' \in [Programs -> 0 .. MaxDescriptors]
      /\ \A q \in Programs : fd'[q] \in {0, 1} /\ (fd'[q] # 0 => fd[q] # 0)
  BY <1>1, IndexZero DEF Inv, TypeOK, OneEntry
<1>3. TypeOK'
  BY <1>1, <1>2 DEF Inv, TypeOK
<1>4. OneEntry' /\ LiveHold'
  BY <1>1, <1>2 DEF Inv, OneEntry, LiveHold
<1> QED
  BY <1>3, <1>4 DEF Inv

\* fclose frees the object, and leaves the entry leading to it.
LEMMA FcloseInv ==
    ASSUME Inv, NEW p \in Programs, NEW o \in Objects, Fclose(p, o)
    PROVE  Inv'
<1>1. fd[p] # 0 /\ UNCHANGED <<table, item, pos, hung>> /\ fd' = [fd EXCEPT ![p] = 0]
      /\ live' \subseteq live
  BY DEF Fclose, Reached
<1>2. Descriptor(fd[p]) = 0 /\ table[0].index = 1
  BY <1>1, ReachedIs
<1>3. isTaken' = [isTaken EXCEPT ![0] = FALSE]
  BY <1>2 DEF Fclose
<1>4. fd' \in [Programs -> 0 .. MaxDescriptors]
      /\ \A q \in Programs : fd'[q] \in {0, 1} /\ (fd'[q] # 0 => fd[q] # 0)
  BY <1>1, IndexZero DEF Inv, TypeOK, OneEntry
<1>5. isTaken' \in [Indices -> BOOLEAN] /\ \A i \in Indices : ~isTaken'[i]
  BY <1>3, IndexZero DEF Inv, TypeOK, OneEntry
<1>6. TypeOK'
  BY <1>1, <1>4, <1>5 DEF Inv, TypeOK
<1>7. OneEntry' /\ LiveHold'
  BY <1>1, <1>4, <1>5 DEF Inv, OneEntry, LiveHold
<1> QED
  BY <1>6, <1>7 DEF Inv

\* Every call preserves the invariant.
LEMMA NextInv == ASSUME Inv, [Next]_vars PROVE Inv'
<1>1. CASE UNCHANGED vars
  BY <1>1, SameInv DEF vars, Inv, TypeOK
<1>2. ASSUME NEW p \in Programs, Call(p) PROVE Inv'
  <2>1. ASSUME NEW n \in Names, Fopen(p, n) PROVE Inv'
    BY <2>1, FopenInv
  <2>2. CASE FopenFails(p)
    BY <2>2, SameInv DEF FopenFails, Inv, TypeOK
  <2>3. CASE Ends(p)
    BY <2>3, EndsInv
  <2>4. ASSUME NEW o \in Objects, NEW r \in Requests, Fread(p, o, r[1], r[2]) PROVE Inv'
    BY <2>4, FreadInv
  <2>5. ASSUME NEW o \in Objects, NEW offset \in Offsets, NEW whence, Fseek(p, o, offset, whence)
        PROVE  Inv'
    BY <2>5, FseekInv
  <2>6. ASSUME NEW o \in Objects, Fstat(p, o) PROVE Inv'
    BY <2>6, SameInv DEF Fstat, Inv, TypeOK
  <2>7. ASSUME NEW o \in Objects, Fclose(p, o) PROVE Inv'
    BY <2>7, FcloseInv
  <2>8. CASE Dangling(p)
    BY <2>8, SameInv DEF Dangling, Inv, TypeOK
  <2> QED
    BY <1>2, <2>1, <2>2, <2>3, <2>4, <2>5, <2>6, <2>7, <2>8 DEF Call
<1>3. CASE BadDescriptor
  BY <1>3, SameInv DEF BadDescriptor, Inv, TypeOK
<1>4. ASSUME NEW n \in Names, Load(n) PROVE Inv'
  BY <1>4, LoadInv
<1> QED
  BY <1>1, <1>2, <1>3, <1>4 DEF Next

\* The invariant holds throughout.
LEMMA FilesInvariant == Spec => []Inv
<1>1. Init => Inv
  BY InitInv
<1>2. Inv /\ [Next]_vars => Inv'
  BY NextInv
<1> QED
  BY <1>1, <1>2, PTL DEF Spec

----------------------------------------------------------------------------
(* What the runs check.                                                    *)

\* The table, the objects and the descriptors are of their types.
THEOREM FilesTypeCorrect == Spec => []TypeOK
<1>1. Inv => TypeOK
  BY DEF Inv
<1> QED
  BY <1>1, FilesInvariant, PTL

\* Every call preserves that reads in the first cluster are exact.
LEMMA ReadsNext ==
    ASSUME Inv, ReadsExactlySectorwise, [Next]_vars
    PROVE  ReadsExactlySectorwise'
<1>1. CASE UNCHANGED vars
  BY <1>1 DEF vars, ReadsExactlySectorwise
<1>2. ASSUME reply'.call # "read" PROVE ReadsExactlySectorwise'
  BY <1>2 DEF ReadsExactlySectorwise
<1>3. ASSUME NEW p \in Programs, NEW o \in Objects, NEW r \in Requests,
             Fread(p, o, r[1], r[2])
      PROVE  ReadsExactlySectorwise'
  <2>1. item[o] \in Files /\ pos[o] \in Nat /\ r[1] \in Nat /\ r[2] \in Nat
    BY <1>3, ReachedOne, FilesAssumption DEF Fread
  <2>2. CASE reply' = Refused(EINVARG)
    BY <1>2, <2>2 DEF Refused, Answer
  <2>3. ASSUME r[1] > 0, r[2] > 0,
               reply' = Answer("read", item[o], pos[o], r[1], r[2],
                          FileRead(FirstCluster(item[o]), pos[o], r[1], r[2]).status,
                          FileRead(FirstCluster(item[o]), pos[o], r[1], r[2]).bytes)
        PROVE  ReadsExactlySectorwise'
    <3> DEFINE f == item[o]
               at == pos[o]
               size == r[1]
               count == r[2]
               got == FileRead(FirstCluster(f), at, size, count)
    <3>1. f \in Files /\ at \in Nat /\ size \in Nat \ {0} /\ count \in Nat \ {0}
      BY <2>1, <2>3
    <3>2. reply' = Answer("read", f, at, size, count, got.status, got.bytes)
      BY <2>3
    <3> HIDE DEF f, at, size, count
    <3>3. InFirstCluster(f, at, size, count) =>
            got.status = count
            /\ (got.bytes = FileBytes(f, at, size * count) <=> EachSectorwise(at, size, count))
      BY <3>1, FileReadExact
    <3> HIDE DEF got
    <3>4. /\ reply'.file = f /\ reply'.at = at /\ reply'.size = size
          /\ reply'.count = count /\ reply'.status = got.status /\ reply'.bytes = got.bytes
      BY <3>2 DEF Answer
    <3> QED
      BY <3>3, <3>4 DEF ReadsExactlySectorwise
  <2> QED
    BY <1>3, <2>2, <2>3, Zenon DEF Fread
<1>4. ASSUME NEW p \in Programs, Call(p) PROVE ReadsExactlySectorwise'
  <2>1. ASSUME NEW n \in Names, Fopen(p, n) PROVE reply'.call # "read"
    BY <2>1 DEF Fopen, Done, Answer
  <2>2. CASE FopenFails(p)
    BY <1>2, <2>2 DEF FopenFails, Refused, Answer
  <2>3. CASE Ends(p)
    BY <1>2, <2>3 DEF Ends, Done, Answer
  <2>4. ASSUME NEW o \in Objects, NEW offset \in Offsets, NEW whence, Fseek(p, o, offset, whence)
        PROVE  reply'.call # "read"
    BY <2>4 DEF Fseek, Done, Refused, Answer
  <2>5. ASSUME NEW o \in Objects, Fstat(p, o) PROVE reply'.call # "read"
    BY <2>5 DEF Fstat, Done, Answer
  <2>6. ASSUME NEW o \in Objects, Fclose(p, o) PROVE reply'.call # "read"
    BY <2>6 DEF Fclose, Done, Answer
  <2>7. CASE Dangling(p)
    BY <1>2, <2>7 DEF Dangling, Done, Answer
  <2> QED
    BY <1>2, <1>3, <1>4, <2>1, <2>2, <2>3, <2>4, <2>5, <2>6, <2>7 DEF Call
<1>5. CASE BadDescriptor
  BY <1>2, <1>5 DEF BadDescriptor, Refused, Answer
<1>6. ASSUME NEW n \in Names, Load(n) PROVE reply'.call # "read"
  BY <1>6 DEF Load, Done, Answer
<1> QED
  BY <1>1, <1>2, <1>4, <1>5, <1>6 DEF Next

\* A read in the first cluster of a file returns the bytes of the file exactly
\* when its blocks do not cross into a second sector from inside a first.
THEOREM FilesReads == Spec => []ReadsExactlySectorwise
<1>1. Init => ReadsExactlySectorwise
  BY DEF Init, Done, Answer, ReadsExactlySectorwise
<1>2. Inv /\ ReadsExactlySectorwise /\ [Next]_vars => ReadsExactlySectorwise'
  BY ReadsNext
<1> QED
  BY <1>1, <1>2, FilesInvariant, PTL DEF Spec

----------------------------------------------------------------------------
(* The calls keep the promise of OpenFiles.                                *)

\* OpenFiles speaks of the same disk.
LEMMA SameDisk ==
    ASSUME NEW f, NEW at, NEW size, NEW count
    PROVE  /\ OpenFileTable!ClusterSize = ClusterSize
           /\ OpenFileTable!FileBytes(f, at, size) = FileBytes(f, at, size)
           /\ OpenFileTable!Served(f, at, size, count) <=> Served(f, at, size, count)
<1>1. OpenFileTable!ClusterSize = ClusterSize
  BY DEF OpenFileTable!ClusterSize, ClusterSize
<1>2. \A k : OpenFileTable!FileByte(f, k) = FileByte(f, k)
  BY <1>1 DEF OpenFileTable!FileByte, FileByte, OpenFileTable!ClusterToSector, ClusterToSector
<1>3. OpenFileTable!FileBytes(f, at, size) = FileBytes(f, at, size)
  BY <1>2 DEF OpenFileTable!FileBytes, FileBytes
<1>4. \A b : OpenFileTable!Sectorwise(at + b * size, size) <=> Sectorwise(at + b * size, size)
  BY DEF OpenFileTable!Sectorwise, Sectorwise
<1>5. OpenFileTable!Served(f, at, size, count) <=> Served(f, at, size, count)
  BY <1>1, <1>4 DEF OpenFileTable!Served, Served, OpenFileTable!InFirstCluster,
     InFirstCluster, OpenFileTable!EachSectorwise, EachSectorwise
<1> QED
  BY <1>1, <1>3, <1>5

\* At the start no file is open in the abstract table either.
LEMMA OInitStep == Init => OpenFileTable!OInit
<1> SUFFICES ASSUME Init PROVE OpenFileTable!OInit
  OBVIOUS
<1>1. Current = Null /\ Holders = {}
  BY DEF Init, Current, Holders
<1> QED
  BY <1>1 DEF Init, Done, Answer, OpenFileTable!OInit

Abstract == [OpenFileTable!ONext]_(OpenFileTable!ovars)

\* The open file and those who hold it, before a call of a holder.
LEMMA CurrentIs ==
    ASSUME Inv, NEW p \in Programs, NEW o \in Reached(p) \cap live
    PROVE  /\ p \in Holders /\ Current # Null
           /\ Current = [file |-> item[o], pos |-> pos[o]]
<1>1. fd[p] # 0 /\ o = table[0].data /\ item[o] \in Files /\ pos[o] \in Nat /\ o \in live
  BY ReachedOne
<1>2. Current = [file |-> item[o], pos |-> pos[o]]
  BY <1>1 DEF Current
<1>3. [file |-> item[o], pos |-> pos[o]] \in [file : Files, pos : Nat]
  BY <1>1
<1>4. Current # Null
  BY <1>2, <1>3, FilesAssumption
<1>5. p \in Holders
  BY <1>1 DEF Holders
<1> QED
  BY <1>2, <1>4, <1>5

\* fopen opens one file at position 0 in the abstract table, in the place of the
\* one that is open.
LEMMA FopenStep ==
    ASSUME Inv, NEW p \in Programs, NEW n \in Names, Fopen(p, n)
    PROVE  OpenFileTable!OOpen(p)
<1>1. FirstFree = 0 /\ Free = Indices
  BY FirstFreeIs DEF Inv
<1>2. PICK f \in Files, o \in Objects \ live :
        Entered(0, o, f) /\ reply' = Done("open", f, 0) /\ live' = live \cup {o}
  BY <1>1, FilesAssumption DEF Fopen
<1>3. fd' = [fd EXCEPT ![p] = 1] /\ hung' = hung /\ fd[p] = 0
  BY <1>1 DEF Fopen
<1>4. table'[0].data = o /\ item'[o] = f /\ pos'[o] = 0
  <2>1. table'[0] = [index |-> 1, data |-> o] /\ item'[o] = f /\ pos'[o] = 0
    BY <1>2, EnteredInv
  <2> QED
    BY <2>1
<1>5. reply'.call = "open" /\ reply'.file = f
  BY <1>2 DEF Done, Answer
<1>6. Current' = [file |-> f, pos |-> 0]
  BY <1>2, <1>4 DEF Current
<1>7. p \notin Holders /\ Holders' = Holders \cup {p}
  BY <1>3 DEF Inv, TypeOK, Holders
<1> QED
  BY <1>2, <1>3, <1>5, <1>6, <1>7 DEF OpenFileTable!OOpen

\* A call that leaves the open file and its holders as they are.
LEMMA SameOpened ==
    ASSUME UNCHANGED <<table, live, item, pos, fd>>
    PROVE  Current' = Current /\ Holders' = Holders
  BY DEF Current, Holders

\* A call that is refused changes nothing in the abstract table.
LEMMA RefusedStep ==
    ASSUME Current' = Current, Holders' = Holders, hung' = hung, NEW status, reply' = Refused(status)
    PROVE  OpenFileTable!ORefused
  BY DEF OpenFileTable!ORefused, Refused, Answer

\* fread is the abstract read of the same open file.
LEMMA FreadStep ==
    ASSUME Inv, ~hung, NEW p \in Programs, NEW o \in Objects,
           NEW size \in Nat, NEW count \in Nat, Fread(p, o, size, count)
    PROVE  OpenFileTable!ORead(p) \/ OpenFileTable!ORefused
<1>1. Current' = Current /\ Holders' = Holders
  BY SameOpened DEF Fread
<1>2. /\ item[o] \in Files /\ pos[o] \in Nat /\ p \in Holders /\ Current # Null
      /\ Current = [file |-> item[o], pos |-> pos[o]]
  BY ReachedOne, CurrentIs DEF Fread
<1>3. CASE reply' = Refused(EINVARG) /\ hung' = hung
  BY <1>1, <1>3, RefusedStep
<1> DEFINE f == item[o]
           at == pos[o]
           got == FileRead(FirstCluster(f), at, size, count)
<1>4. ASSUME size > 0, count > 0,
             reply' = Answer("read", f, at, size, count, got.status, got.bytes),
             hung' = (got.status = Hangs)
      PROVE  OpenFileTable!ORead(p)
  <2>1. f \in Files /\ at \in Nat /\ size \in Nat \ {0} /\ count \in Nat \ {0}
    BY <1>2, <1>4
  <2>2. p \in Holders /\ Current # Null /\ Current.file = f /\ Current.pos = at
    BY <1>2
  <2> HIDE DEF f, at
  <2>3. InFirstCluster(f, at, size, count) =>
          got.status = count
          /\ (got.bytes = FileBytes(f, at, size * count) <=> EachSectorwise(at, size, count))
    BY <2>1, FileReadExact
  <2> HIDE DEF got
  <2>4. /\ reply'.call = "read" /\ reply'.size = size /\ reply'.count = count
        /\ reply'.status = got.status /\ reply'.bytes = got.bytes
    BY <1>4 DEF Answer
  <2>5. Served(f, at, size, count) =>
          /\ got.status = count /\ got.bytes = FileBytes(f, at, size * count)
          /\ hung' = hung
    <3>1. count # Hangs
      BY <2>1 DEF Hangs
    <3>2. got.status = count => ~hung'
      BY <1>4, <3>1, Zenon
    <3>3. got.status = count => hung' = hung
      BY <1>4, <3>2 DEF Inv, TypeOK
    <3> QED
      BY <2>3, <3>3 DEF Served
  <2>6. OpenFileTable!Exactly(f, at, size * count) <=> got.bytes = FileBytes(f, at, size * count)
    BY <2>4, SameDisk DEF OpenFileTable!Exactly
  <2>7. OpenFileTable!Served(f, at, size, count) <=> Served(f, at, size, count)
    BY SameDisk
  <2> QED
    BY <1>1, <2>2, <2>4, <2>5, <2>6, <2>7 DEF OpenFileTable!ORead, OpenFileTable!Uses
<1> QED
  BY <1>3, <1>4, Zenon DEF Fread

\* fseek is the abstract seek of the open file.
LEMMA FseekStep ==
    ASSUME Inv, NEW p \in Programs, NEW o \in Objects,
           NEW offset \in Offsets, NEW whence, Fseek(p, o, offset, whence)
    PROVE  OpenFileTable!OSeek(p) \/ OpenFileTable!ORefused
<1>1. /\ item[o] \in Files /\ pos[o] \in Nat /\ p \in Holders /\ Current # Null
      /\ Current = [file |-> item[o], pos |-> pos[o]] /\ o = table[0].data /\ o \in live
  BY ReachedOne, CurrentIs DEF Fseek
<1>2. offset \in Nat /\ FileSize[item[o]] \in Nat
  BY <1>1, FilesAssumption, ChainAssumption
<1> DEFINE to == Sought(o, offset, whence)
<1>3. UNCHANGED <<isTaken, table, live, item, fd, hung>>
  BY DEF Fseek
<1>4. CASE to < 0 /\ reply' = Refused(to) /\ pos' = pos
  <2>1. Current' = Current /\ Holders' = Holders
    BY <1>3, <1>4, SameOpened
  <2> HIDE DEF to
  <2> QED
    BY <1>3, <1>4, <2>1, RefusedStep
<1>5. ASSUME to \in 0 .. MaxPosition, reply' = Done("seek", item[o], 0),
             pos' = [pos EXCEPT ![o] = to]
      PROVE  OpenFileTable!OSeek(p)
  <2>1. offset \in 0 .. (FileSize[item[o]] - 1) /\ to \in {offset, pos[o] + offset}
    BY <1>2, <1>5 DEF Sought, EIO, EUNIMP
  <2>2. pos'[o] = to
    BY <1>5 DEF Inv, TypeOK
  <2> HIDE DEF to
  <2>3. Current' = [file |-> item[o], pos |-> to]
    BY <1>1, <1>3, <2>2 DEF Current
  <2>4. Current' = [Current EXCEPT !.pos = to]
    BY <1>1, <2>3
  <2>5. Holders' = Holders
    BY <1>3 DEF Holders
  <2>6. Current.file = item[o] /\ Current.pos = pos[o]
    BY <1>1
  <2>7. reply'.call = "seek" /\ hung' = hung
    BY <1>3, <1>5 DEF Done, Answer
  <2> QED
    BY <1>1, <2>1, <2>4, <2>5, <2>6, <2>7 DEF OpenFileTable!OSeek, OpenFileTable!Uses
<1> QED
  BY <1>4, <1>5 DEF Fseek

\* fstat reports on the open file, and changes nothing.
LEMMA FstatStep ==
    ASSUME Inv, NEW p \in Programs, NEW o \in Objects, Fstat(p, o)
    PROVE  OpenFileTable!OStat(p)
<1>1. p \in Holders /\ Current # Null /\ Current = [file |-> item[o], pos |-> pos[o]]
  BY CurrentIs DEF Fstat
<1>2. Current' = Current /\ Holders' = Holders
  BY SameOpened DEF Fstat
<1>3. Current.file = item[o]
  BY <1>1
<1> QED
  BY <1>1, <1>2, <1>3 DEF OpenFileTable!OStat, OpenFileTable!Uses, Fstat, Done, Answer

\* fclose closes the open file for every holder.
LEMMA FcloseStep ==
    ASSUME Inv, NEW p \in Programs, NEW o \in Objects, Fclose(p, o)
    PROVE  OpenFileTable!OClose(p)
<1>1. p \in Holders /\ Current # Null /\ o = table[0].data
  BY ReachedOne, CurrentIs DEF Fclose
<1>2. table' = table /\ live' = live \ {o} /\ fd' = [fd EXCEPT ![p] = 0] /\ hung' = hung
  BY DEF Fclose
<1>3. Current' = Null
  BY <1>1, <1>2 DEF Current
<1>4. Holders' = Holders \ {p}
  BY <1>2 DEF Inv, TypeOK, Holders
<1>5. reply'.call = "close"
  BY DEF Fclose, Done, Answer
<1> QED
  BY <1>1, <1>2, <1>3, <1>4, <1>5 DEF OpenFileTable!OClose, OpenFileTable!Uses

\* A program that ends holds nothing any more, and the file stays open.
LEMMA EndsStep ==
    ASSUME Inv, NEW p \in Programs, Ends(p)
    PROVE  OpenFileTable!OEnd(p)
<1>1. /\ UNCHANGED <<table, live, item, pos, hung>>
      /\ fd[p] # 0 /\ fd' = [fd EXCEPT ![p] = 0] /\ reply'.call = "exit"
  BY DEF Ends, Done, Answer
<1>2. Current' = Current
  BY <1>1 DEF Current
<1>3. p \in Holders /\ Holders' = Holders \ {p}
  BY <1>1 DEF Inv, TypeOK, Holders
<1> QED
  BY <1>1, <1>2, <1>3 DEF OpenFileTable!OEnd

\* A freed object is used only by a program whose file was closed by another.
LEMMA DanglingStep ==
    ASSUME Inv, NEW p \in Programs, Dangling(p)
    PROVE  OpenFileTable!OWild(p)
<1>1. fd[p] # 0 /\ Reached(p) \cap live = {}
  BY DEF Dangling
<1>2. Reached(p) = {table[0].data}
  BY <1>1, ReachedIs
<1>3. table[0].data \notin live
  BY <1>1, <1>2
<1>4. Current = Null /\ p \in Holders
  BY <1>1, <1>3 DEF Current, Holders
<1>5. Current' = Current /\ Holders' = Holders
  BY SameOpened DEF Dangling
<1> QED
  BY <1>4, <1>5 DEF OpenFileTable!OWild, Dangling, Done, Answer

\* The block that is the whole of a file that fits a cluster is served.
LEMMA WholeFile ==
    ASSUME NEW f \in Files, FileSize[f] \in 1 .. ClusterSize
    PROVE  LET got == FileRead(FirstCluster(f), 0, FileSize[f], 1)
           IN  got.status = 1 /\ got.bytes = FileBytes(f, 0, FileSize[f])
<1> DEFINE size == FileSize[f]
           got == FileRead(FirstCluster(f), 0, size, 1)
<1>1. size \in Nat \ {0} /\ 0 \in Nat /\ 1 \in Nat \ {0} /\ size * 1 = size
  BY ChainAssumption
<1>2. Chain[f] # << >>
  <2>1. size <= Len(Chain[f]) * (SectorsPerCluster * SectorSize)
    BY ChainAssumption
  <2>2. SectorsPerCluster * SectorSize \in Nat
    BY LayoutAssumption, DiskAssumption, Product
  <2>3. ASSUME Chain[f] = << >> PROVE FALSE
    <3>1. Len(Chain[f]) = 0
      BY <2>3
    <3>2. 0 * (SectorsPerCluster * SectorSize) = 0
      BY <2>2
    <3> QED
      BY <1>1, <2>1, <3>1, <3>2
  <2> QED
    BY <2>3
<1>3. InFirstCluster(f, 0, size, 1)
  BY <1>1, <1>2 DEF InFirstCluster
<1>4. EachSectorwise(0, size, 1)
  <2>1. \A b \in 0 .. 0 : 0 + b * size = 0
    BY <1>1
  <2>2. 0 % SectorSize = 0
    BY DiskAssumption, Small
  <2> QED
    BY <2>1, <2>2 DEF EachSectorwise, Sectorwise
<1> HIDE DEF size
<1>5. got.status = 1 /\ (got.bytes = FileBytes(f, 0, size * 1) <=> EachSectorwise(0, size, 1))
  BY <1>1, <1>3, FileReadExact
<1>6. got.status = 1 /\ got.bytes = FileBytes(f, 0, size)
  BY <1>1, <1>4, <1>5
<1> QED
  BY <1>6 DEF size

\* Loading a program closes the open file, and takes its bytes or hangs.
LEMMA LoadStep ==
    ASSUME Inv, ~hung, NEW n \in Names, Load(n)
    PROVE  OpenFileTable!OLoad
<1>1. FirstFree = 0
  BY FirstFreeIs DEF Inv
<1>2. PICK f \in Files, o \in Objects \ live :
        /\ Entered(0, o, f)
        /\ \/ reply' = Done("unloaded", f, 0) /\ hung' = hung
           \/ LET got == FileRead(FirstCluster(f), 0, FileSize[f], 1)
              IN  /\ reply' = Answer("load", f, 0, FileSize[f], 1, got.status, got.bytes)
                  /\ hung' = (got.status = Hangs)
  <2>1. \A f \in Finds[n] : f \in Files
    BY FilesAssumption
  <2> QED
    BY <1>1, <2>1, Zenon DEF Load
<1>3. Current' = Null /\ Holders' = Holders
  <2>1. table'[0] = [index |-> 1, data |-> o]
    BY <1>2, EnteredInv
  <2>2. table'[0].data = o /\ live' = live /\ fd' = fd
    BY <2>1 DEF Load
  <2> QED
    BY <2>2 DEF Current, Holders
<1>5. CASE reply' = Done("unloaded", f, 0) /\ hung' = hung
  BY <1>3, <1>5 DEF OpenFileTable!OLoad, Done, Answer
<1> DEFINE got == FileRead(FirstCluster(f), 0, FileSize[f], 1)
<1>6. ASSUME reply' = Answer("load", f, 0, FileSize[f], 1, got.status, got.bytes),
             hung' = (got.status = Hangs)
      PROVE  OpenFileTable!OLoad
  <2>1. FileSize[f] \in 1 .. ClusterSize =>
          got.status = 1 /\ got.bytes = FileBytes(f, 0, FileSize[f])
    BY WholeFile
  <2> HIDE DEF got
  <2>2. /\ reply'.call = "load" /\ reply'.file = f
        /\ reply'.status = got.status /\ reply'.bytes = got.bytes
    BY <1>6 DEF Answer
  <2>3. got.status = 1 => hung' = hung
    <3>1. 1 # Hangs
      BY DEF Hangs
    <3>2. got.status = 1 => ~hung'
      BY <1>6, <3>1, Zenon
    <3> QED
      BY <1>6, <3>2 DEF Inv, TypeOK
  <2>4. OpenFileTable!ClusterSize = ClusterSize
        /\ OpenFileTable!FileBytes(f, 0, FileSize[f]) = FileBytes(f, 0, FileSize[f])
    BY SameDisk
  <2> QED
    BY <1>3, <2>1, <2>2, <2>3, <2>4 DEF OpenFileTable!OLoad, OpenFileTable!Exactly
<1> QED
  BY <1>2, <1>5, <1>6

\* Every step is a step of the abstract table, or changes none of it.
LEMMA NextStep ==
    ASSUME Inv, [Next]_vars
    PROVE  Abstract
<1>1. CASE UNCHANGED vars
  <2>1. Current' = Current /\ Holders' = Holders
    BY <1>1, SameOpened DEF vars
  <2> QED
    BY <1>1, <2>1 DEF vars, Abstract, OpenFileTable!ovars
<1> SUFFICES ASSUME Next PROVE OpenFileTable!ONext
  BY <1>1 DEF Abstract
<1>2. ~hung
  BY DEF Next
<1>3. CASE OpenFileTable!ORefused
  BY <1>3 DEF OpenFileTable!ONext
<1>4. ASSUME NEW p \in Programs, Call(p) PROVE OpenFileTable!ONext
  <2>1. CASE \/ OpenFileTable!OOpen(p) \/ OpenFileTable!OClose(p) \/ OpenFileTable!OSeek(p)
             \/ OpenFileTable!ORead(p) \/ OpenFileTable!OStat(p) \/ OpenFileTable!OEnd(p)
             \/ OpenFileTable!OWild(p)
    BY <2>1 DEF OpenFileTable!ONext
  <2>2. ASSUME NEW n \in Names, Fopen(p, n) PROVE OpenFileTable!OOpen(p)
    BY <2>2, FopenStep
  <2>3. ASSUME FopenFails(p) PROVE OpenFileTable!ORefused
    <3>1. Current' = Current /\ Holders' = Holders
      BY <2>3, SameOpened DEF FopenFails
    <3> QED
      BY <2>3, <3>1, RefusedStep DEF FopenFails
  <2>4. ASSUME Ends(p) PROVE OpenFileTable!OEnd(p)
    BY <2>4, EndsStep
  <2>5. ASSUME NEW o \in Objects, NEW r \in Requests, Fread(p, o, r[1], r[2])
        PROVE  OpenFileTable!ORead(p) \/ OpenFileTable!ORefused
    <3>1. r[1] \in Nat /\ r[2] \in Nat
      BY FilesAssumption
    <3> QED
      BY <1>2, <2>5, <3>1, FreadStep
  <2>6. ASSUME NEW o \in Objects, NEW offset \in Offsets, NEW whence, Fseek(p, o, offset, whence)
        PROVE  OpenFileTable!OSeek(p) \/ OpenFileTable!ORefused
    BY <2>6, FseekStep
  <2>7. ASSUME NEW o \in Objects, Fstat(p, o) PROVE OpenFileTable!OStat(p)
    BY <2>7, FstatStep
  <2>8. ASSUME NEW o \in Objects, Fclose(p, o) PROVE OpenFileTable!OClose(p)
    BY <2>8, FcloseStep
  <2>9. ASSUME Dangling(p) PROVE OpenFileTable!OWild(p)
    BY <2>9, DanglingStep
  <2> QED
    BY <1>3, <1>4, <2>1, <2>2, <2>3, <2>4, <2>5, <2>6, <2>7, <2>8, <2>9 DEF Call
<1>5. ASSUME BadDescriptor PROVE OpenFileTable!ORefused
  <2>1. Current' = Current /\ Holders' = Holders
    BY <1>5, SameOpened DEF BadDescriptor
  <2> QED
    BY <1>5, <2>1, RefusedStep DEF BadDescriptor
<1>6. ASSUME NEW n \in Names, Load(n) PROVE OpenFileTable!OLoad
  BY <1>2, <1>6, LoadStep
<1>7. CASE OpenFileTable!OLoad
  BY <1>7 DEF OpenFileTable!ONext
<1> QED
  BY <1>3, <1>4, <1>5, <1>6, <1>7 DEF Next

\* The file calls keep the promise of OpenFiles, in whatever order the programs
\* make them: there is one open file, which any of them may replace, move or
\* close; a read of it that is served returns its bytes; and a freed object is
\* used only by a holder whose file was closed by another.
THEOREM FilesImplementOpenFiles == Spec => FilesRefinement
<1>1. Init => OpenFileTable!OInit
  BY OInitStep
<1>2. Inv /\ [Next]_vars => [OpenFileTable!ONext]_(OpenFileTable!ovars)
  BY NextStep DEF Abstract
<1> QED
  BY <1>1, <1>2, FilesInvariant, PTL DEF Spec, FilesRefinement, OpenFileTable!OSpec

=============================================================================
