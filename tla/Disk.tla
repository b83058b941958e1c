-------------------------------- MODULE Disk --------------------------------
(***************************************************************************)
(* disk::read of drivers/disk/disk.cpp, which copies bytes out of sectors. *)
(* A byte is named by its address on the disk, and a read returns the      *)
(* addresses of the bytes it delivers.                                     *)
(***************************************************************************)
EXTENDS Integers, Sequences

CONSTANTS
    SectorSize,
    Sectors         \* the number of sectors of the disk

ASSUME DiskAssumption ==
    /\ SectorSize \in Nat \ {0}
    /\ Sectors \in Nat \ {0}

\* The number of sector boundaries in front of byte i of a read at address.
Crossed(address, i) == ((address % SectorSize) + i) \div SectorSize

\* Mutant of SectorHeld: the next sector is never fetched.
SectorKept(address, i) == address \div SectorSize

\* The sector in the buffer when byte i is copied.  The loop fetches a sector
\* at every boundary, beginning again with the first: that is right when byte
\* 0 is at a boundary itself, and one sector behind when it is not.
SectorHeld(address, i) ==
    LET first == address \div SectorSize
    IN  IF address % SectorSize = 0 \/ Crossed(address, i) = 0
        THEN first + Crossed(address, i)
        ELSE first + Crossed(address, i) - 1

ByteRead(address, i) ==
    SectorHeld(address, i) * SectorSize + ((address + i) % SectorSize)

\* A sector the disk does not have is never ready, and the driver waits for it
\* with interrupts off.
NeverReady(address, n) == SectorHeld(address, n - 1) >= Sectors

----------------------------------------------------------------------------

\* The reads that deliver the n bytes at the address.
Sectorwise(address, n) ==
    address % SectorSize = 0 \/ (address % SectorSize) + n <= SectorSize
=============================================================================
