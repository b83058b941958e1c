-------------------------------- MODULE Heap --------------------------------
(***************************************************************************)
(* The kernel heap: memory/heap/heap.cpp and its one instance in           *)
(* memory/heap/kheap.cpp.  The heap is an array of Total blocks with a     *)
(* table of one byte per block; an allocation is a run of blocks whose     *)
(* first entry is marked IS_FIRST and whose entries but the last are       *)
(* marked HAS_NEXT.  A free entry is the empty set of flags.               *)
(*                                                                         *)
(* live, hollow, stray and broken are not in the code.  They record what   *)
(* the callers hold and what the heap did to memory that is not its own:   *)
(*   live    the allocations the callers hold, first block -> length       *)
(*   hollow  the pointers returned for requests of no blocks               *)
(*   stray   the entries written past the end of the table                 *)
(*   broken  the table was damaged by a free of a hollow pointer, or by    *)
(*           what a kzalloc cleared                                        *)
(***************************************************************************)
EXTENDS Integers, FiniteSets

CONSTANTS
    Total,          \* blocks in the heap, HEAP_SIZE_BYTES / HEAP_BLOCK_SIZE
    BlockSize,      \* HEAP_BLOCK_SIZE
    HeapAddress,    \* KHEAP_ADDRESS, where block 0 is
    TableAddress,   \* KHEAP_TABLE_ADDRESS, where the table is
    Word,           \* number of values of a size_t, 2^32
    Sizes           \* the sizes that are asked for

ASSUME HeapAssumption ==
    /\ Total \in Nat \ {0}
    /\ BlockSize \in Nat \ {0}
    /\ HeapAddress \in Nat
    /\ TableAddress \in Nat
    /\ Word \in Nat \ {0}
    /\ TableAddress + Total <= HeapAddress
    /\ HeapAddress + Total * BlockSize <= Word
    /\ Sizes \subseteq 0 .. (Word - 1)

VARIABLES entries, live, hollow, stray, broken

vars == <<entries, live, hollow, stray, broken>>

Blocks == 0 .. (Total - 1)
Flags  == {"TAKEN", "IS_FIRST", "HAS_NEXT"}
NoBlock == -1                \* ERROR(ENOMEM), any negative block

----------------------------------------------------------------------------
(* Sizes, addresses and blocks.                                            *)

\* The sum wraps at the width of a size_t: the sizes just below it align to 0.
AlignToUpper(size) ==
    LET over == size % BlockSize
    IN  (size + (IF over # 0 THEN BlockSize - over ELSE 0)) % Word

BlocksFor(size) == AlignToUpper(size) \div BlockSize

AddressOf(block)    == HeapAddress + block * BlockSize
BlockOf(address)    == (address - HeapAddress) \div BlockSize

----------------------------------------------------------------------------
(* The table.                                                              *)

\* Mutant of Taken: only the first block of an allocation counts.
FirstTaken(b) == "IS_FIRST" \in entries[b]

Taken(b) == "TAKEN" \in entries[b]

\* Mutant of Fits: the last block of the run is not looked at.
FitsButLast(n) == {b \in Blocks : /\ n > 0
                                  /\ b + n <= Total
                                  /\ \A i \in b .. (b + n - 2) : ~Taken(i)}

\* The free runs of n blocks, and the free run at the end of the heap.
Fits(n) == {b \in Blocks : /\ n > 0
                           /\ b + n <= Total
                           /\ \A i \in b .. (b + n - 1) : ~Taken(i)}
TailRun == {b \in Blocks : \A i \in b .. (Total - 1) : ~Taken(i)}

Least(S) == CHOOSE b \in S : \A c \in S : b <= c

\* Mutant of StartBlock: the free tail is preferred to a run that fits.
TailFirst(n) == IF TailRun # {} THEN Least(TailRun)
                ELSE IF Fits(n) # {} THEN Least(Fits(n))
                ELSE NoBlock

\* First fit.  When nothing fits the scan still ends with the start of the
\* run it was in, so a free tail that is too short is returned.
StartBlock(n) ==
    IF Fits(n) # {} THEN Least(Fits(n))
    ELSE IF TailRun # {} THEN Least(TailRun)
    ELSE NoBlock

\* Mutant of EntryOf: the last block is marked HAS_NEXT too.
EndlessEntryOf(i, start, n) ==
    {"TAKEN", "HAS_NEXT"} \cup (IF i = start THEN {"IS_FIRST"} ELSE {})

\* The entry of block i in an allocation of n blocks from start.
EntryOf(i, start, n) ==
    {"TAKEN"} \cup (IF i = start THEN {"IS_FIRST"} ELSE {})
              \cup (IF i < start + n - 1 THEN {"HAS_NEXT"} ELSE {})

MarkTaken(start, n) ==
    [i \in Blocks |-> IF i \in start .. (start + n - 1)
                      THEN EntryOf(i, start, n) ELSE entries[i]]

\* The entries mark_blocks_taken writes where there is no table.
PastTable(start, n) == Total .. (start + n - 1)

\* Mutant of Chain: the walk stops before the block without HAS_NEXT.
ShortChain(start) ==
    {i \in Blocks : /\ start <= i
                    /\ \A j \in start .. i : "HAS_NEXT" \in entries[j]}

\* The blocks the walk over the HAS_NEXT marks from start reaches.
Chain(start) ==
    {i \in Blocks : /\ start <= i
                    /\ \A j \in start .. (i - 1) : "HAS_NEXT" \in entries[j]}

MarkFree(start) ==
    [i \in Blocks |-> IF i \in Chain(start) THEN {} ELSE entries[i]]

\* memset(from, 0, size) clears the entries it comes over, at the end of the
\* addresses going on at 0.
Cleared(table, from, size) ==
    [i \in Blocks |->
        IF \E a \in {TableAddress + i, TableAddress + i + Word} : from <= a /\ a < from + size
        THEN {} ELSE table[i]]

----------------------------------------------------------------------------

Init == /\ entries = [b \in Blocks |-> {}]
        /\ live = [b \in {} |-> 0]
        /\ hollow = {}
        /\ stray = {}
        /\ broken = FALSE

\* malloc_blocks returns the block start for n blocks.
Place(start, n) ==
    /\ stray' = stray \cup PastTable(start, n)
    /\ IF n = 0
       THEN hollow' = hollow \cup {start} /\ live' = live
       ELSE /\ live' = [b \in DOMAIN live \cup {start} |->
                          IF b = start THEN n ELSE live[b]]
            /\ hollow' = hollow

\* Mutant of Kmalloc: the error of get_start_block is not tested.
KmallocUnchecked(size) ==
    LET n     == BlocksFor(size)
        start == StartBlock(n)
    IN  /\ Place(start, n)
        /\ entries' = MarkTaken(start, n)
        /\ UNCHANGED broken

\* kmalloc when there is a block to return.
Kmalloc(size) ==
    LET n     == BlocksFor(size)
        start == StartBlock(n)
    IN  /\ start # NoBlock
        /\ Place(start, n)
        /\ entries' = MarkTaken(start, n)
        /\ UNCHANGED broken

\* kzalloc when there is a block to return: what is cleared is the size, not the
\* blocks.  A size just below Word comes to no blocks and clears all there is up
\* to the end of the addresses, and the table from 0 on.
Kzalloc(size) ==
    LET n     == BlocksFor(size)
        start == StartBlock(n)
    IN  /\ start # NoBlock
        /\ Place(start, n)
        /\ entries' = Cleared(MarkTaken(start, n), AddressOf(start), size)
        /\ broken' = (AddressOf(start) + size > Word)

\* kzalloc when the heap refuses: the null pointer is cleared all the same.
KzallocRefused(size) ==
    /\ StartBlock(BlocksFor(size)) = NoBlock
    /\ entries' = Cleared(entries, 0, size)
    /\ broken' = (entries' # entries)
    /\ UNCHANGED <<live, hollow, stray>>

\* kfree by the holder of an allocation.
Kfree(b) ==
    /\ entries' = MarkFree(BlockOf(AddressOf(b)))
    /\ live' = [c \in DOMAIN live \ {b} |-> live[c]]
    /\ UNCHANGED <<hollow, stray, broken>>

\* kfree of a pointer that was returned for no blocks: by now the block may
\* be part of an allocation of another caller.
KfreeHollow(b) ==
    /\ entries' = MarkFree(BlockOf(AddressOf(b)))
    /\ broken' = Taken(b)
    /\ hollow' = hollow \ {b}
    /\ UNCHANGED <<live, stray>>

\* A behaviour ends where the table is damaged: nothing is claimed of what
\* the heap does after that.
Next == /\ ~broken
        /\ \/ \E size \in Sizes : Kmalloc(size) \/ Kzalloc(size) \/ KzallocRefused(size)
           \/ \E b \in DOMAIN live : Kfree(b)
           \/ \E b \in hollow : KfreeHollow(b)

Spec == Init /\ [][Next]_vars

----------------------------------------------------------------------------
(* Properties.                                                             *)

TypeOK ==
    /\ entries \in [Blocks -> SUBSET Flags]
    /\ DOMAIN live \subseteq Blocks
    /\ \A b \in DOMAIN live : live[b] \in Nat \ {0}
    /\ hollow \subseteq Blocks
    /\ stray \subseteq Nat
    /\ broken \in BOOLEAN

Region(b) == b .. (b + live[b] - 1)

\* No block belongs to two allocations, not even a block past the end of the
\* heap: the first-fit search of get_start_block and the walk of
\* mark_blocks_free never give one caller the memory of another.
LiveDisjoint ==
    ~broken => \A b, c \in DOMAIN live :
                   b # c => Region(b) \cap Region(c) = {}

\* Every block is accounted for: the entries of an allocation are the ones
\* mark_blocks_taken wrote for it, and every other block is free, so nothing
\* is lost and the marks a later free follows are intact.
TableMatches ==
    ~broken => \A i \in Blocks :
        \/ /\ entries[i] = {}
           /\ \A b \in DOMAIN live : i \notin Region(b)
        \/ \E b \in DOMAIN live :
              i \in Region(b) /\ entries[i] = EntryOf(i, b, live[b])

\* A free gives back the blocks of its allocation, all of them, and touches
\* no other entry (mark_blocks_free stops where the allocation stops).
FreeIsExact ==
    [][ \A b \in DOMAIN live : b \notin DOMAIN live' =>
          \A i \in Blocks : entries'[i] = (IF i \in Region(b) THEN {}
                                           ELSE entries[i]) ]_vars

\* An allocation runs past the end of the heap only when no run of free
\* blocks was long enough (get_start_block resets its count at every taken
\* block and breaks off at the first run that fits).
OverrunOnlyWhenNothingFits ==
    [][ \A b \in DOMAIN live' \ DOMAIN live :
          b + live'[b] > Total => Fits(live'[b]) = {} ]_vars

\* config.h gives the heap its size ("100MB heap size"): what malloc returns
\* lies within it.
WithinHeap == \A b \in DOMAIN live : b + live[b] <= Total

\* The heap keeps the promise of Allocator.
Promise == INSTANCE Allocator WITH held <- live, broken <- broken

Refinement == Promise!ASpec
=============================================================================
