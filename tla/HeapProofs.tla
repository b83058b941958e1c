----------------------------- MODULE HeapProofs -----------------------------
(***************************************************************************)
(* Theorems of Heap for a heap of any size, blocks of any size, any width  *)
(* of a size_t and any requests.                                           *)
(*                                                                         *)
(* The inductive invariant is Inv: disjointness alone is not inductive,    *)
(* because a free follows the marks in the table and not the list of       *)
(* allocations; that the marks match the allocations is what makes a free  *)
(* exact, and what makes the blocks the search finds unused ones.          *)
(***************************************************************************)
EXTENDS Heap, WellFoundedInduction, TLAPS

Inv == TypeOK /\ LiveDisjoint /\ TableMatches

----------------------------------------------------------------------------
(* Operators.                                                              *)

\* A set of naturals that is not empty has a least element, so the choice in
\* Least is well defined.
LEMMA LeastIsLeast ==
    ASSUME NEW S, S \subseteq Nat, S # {}
    PROVE  Least(S) \in S /\ \A c \in S : Least(S) <= c
<1>1. \E b \in S : \A c \in S : ~ (<<c, b>> \in OpToRel(<, Nat))
  BY WFMin, NatLessThanWellFounded
<1>2. \E b \in S : \A c \in S : ~ (c < b)
  BY <1>1 DEF OpToRel
<1>3. \E b \in S : \A c \in S : b <= c
  BY <1>2
<1> QED
  BY <1>3 DEF Least

\* The number of blocks of a request is a natural number, whatever overflows.
LEMMA BlocksForType ==
    ASSUME NEW size \in Sizes
    PROVE  BlocksFor(size) \in Nat
<1> USE HeapAssumption
<1>1. size \in Nat
  OBVIOUS
<1>2. size % BlockSize \in 0 .. (BlockSize - 1)
  BY <1>1
<1>3. AlignToUpper(size) \in Nat
  BY <1>1, <1>2 DEF AlignToUpper
<1> QED
  BY <1>3 DEF BlocksFor

\* address_to_block undoes block_to_address.
LEMMA BlockOfAddress ==
    ASSUME NEW b \in Int
    PROVE  BlockOf(AddressOf(b)) = b
<1>1. (HeapAddress + b * BlockSize) - HeapAddress = b * BlockSize
  BY HeapAssumption
<1>2. (b * BlockSize) \div BlockSize = b
  BY HeapAssumption
<1> QED
  BY <1>1, <1>2 DEF BlockOf, AddressOf

\* What get_start_block returns is a block of the heap, and the part of the
\* run from there that lies in the heap is free.
LEMMA StartBlockIsFree ==
    ASSUME NEW n \in Nat, StartBlock(n) # NoBlock
    PROVE  /\ StartBlock(n) \in Blocks
           /\ \A i \in Blocks \cap (StartBlock(n) .. (StartBlock(n) + n - 1)) :
                 ~Taken(i)
<1> DEFINE s == StartBlock(n)
<1> USE HeapAssumption
<1>1. Fits(n) \subseteq Nat /\ TailRun \subseteq Nat
  BY DEF Fits, TailRun, Blocks
<1>2. CASE Fits(n) # {}
  <2>1. s \in Fits(n)
    BY <1>1, <1>2, LeastIsLeast DEF StartBlock
  <2> QED
    BY <2>1 DEF Fits
<1>3. CASE Fits(n) = {}
  <2>1. s \in TailRun
    BY <1>1, <1>3, LeastIsLeast DEF StartBlock
  <2> QED
    BY <2>1 DEF TailRun, Blocks
<1> QED
  BY <1>2, <1>3

\* An unused block: no allocation reaches it.
LEMMA FreeBlockIsUnheld ==
    ASSUME Inv, ~broken, NEW i \in Blocks, ~Taken(i)
    PROVE  entries[i] = {} /\ \A b \in DOMAIN live : i \notin Region(b)
  BY DEF Inv, TableMatches, Taken, EntryOf

\* The region get_start_block chooses overlaps no allocation.  A region that
\* runs over the end contains the last block, and so does an allocation it
\* would meet beyond the end.
LEMMA PlaceIsDisjoint ==
    ASSUME Inv, ~broken, NEW n \in Nat \ {0}, StartBlock(n) # NoBlock
    PROVE  \A c \in DOMAIN live :
              (StartBlock(n) .. (StartBlock(n) + n - 1)) \cap Region(c) = {}
<1> DEFINE s == StartBlock(n)
<1>1. s \in Blocks /\ \A i \in Blocks \cap (s .. (s + n - 1)) : ~Taken(i)
  BY StartBlockIsFree
<1> HIDE DEF s
<1> SUFFICES ASSUME NEW c \in DOMAIN live, NEW k \in (s .. (s + n - 1)) \cap Region(c)
             PROVE  FALSE
  BY DEF s
<1>2. c \in Blocks /\ live[c] \in Nat \ {0}
  BY DEF Inv, TypeOK
<1>3. PICK i \in Blocks : i \in (s .. (s + n - 1)) \cap Region(c)
  <2>1. CASE k < Total
    BY <1>1, <1>2, <2>1, HeapAssumption DEF Blocks, Region
  <2>2. CASE k >= Total
    <3>1. Total - 1 \in (s .. (s + n - 1)) \cap Region(c)
      BY <1>1, <1>2, <2>2, HeapAssumption DEF Blocks, Region
    <3> QED
      BY <3>1, HeapAssumption DEF Blocks
  <2> QED
    BY <1>1, <1>2, <2>1, <2>2, HeapAssumption DEF Blocks, Region
<1> QED
  BY <1>1, <1>3, FreeBlockIsUnheld

\* The walk of mark_blocks_free from the start of an allocation reaches the
\* blocks of the allocation and no other.
LEMMA ChainIsRegion ==
    ASSUME Inv, ~broken, NEW b \in DOMAIN live
    PROVE  Chain(b) = Region(b) \cap Blocks
<1>1. b \in Blocks /\ live[b] \in Nat \ {0}
  BY DEF Inv, TypeOK
<1>2. \A i \in Region(b) \cap Blocks : entries[i] = EntryOf(i, b, live[b])
  BY DEF Inv, TableMatches, LiveDisjoint
<1>3. ASSUME NEW i \in Region(b) \cap Blocks
      PROVE  i \in Chain(b)
  <2>1. ASSUME NEW j \in b .. (i - 1)
        PROVE  "HAS_NEXT" \in entries[j]
    <3>1. j \in Region(b) \cap Blocks /\ j < b + live[b] - 1
      BY <1>1, HeapAssumption DEF Region, Blocks
    <3> QED
      BY <1>2, <3>1 DEF EntryOf
  <2> QED
    BY <1>1, <2>1 DEF Chain, Region, Blocks
<1>4. ASSUME NEW i \in Chain(b), i \notin Region(b)
      PROVE  FALSE
  <2> DEFINE e == b + live[b] - 1
  <2>1. e \in b .. (i - 1) /\ e \in Region(b) \cap Blocks
    BY <1>1, <1>4, HeapAssumption DEF Chain, Region, Blocks
  <2>2. "HAS_NEXT" \notin entries[e]
    BY <1>1, <1>2, <2>1 DEF EntryOf, Blocks
  <2> QED
    BY <2>1, <2>2 DEF Chain
<1> QED
  BY <1>3, <1>4 DEF Chain

----------------------------------------------------------------------------
(* The inductive invariant.                                                *)

\* The invariant holds of the heap that heap_t has just made.
LEMMA InitInv == Init => Inv
  BY DEF Init, Inv, TypeOK, LiveDisjoint, TableMatches, Region, Blocks, Flags

\* The blocks of a kmalloc or a kzalloc, whatever is cleared later, are typed.
LEMMA PlaceType ==
    ASSUME Inv, ~broken, NEW n \in Nat, NEW start, start = StartBlock(n),
           start # NoBlock, Place(start, n)
    PROVE  /\ DOMAIN live' \subseteq Blocks
           /\ \A b \in DOMAIN live' : live'[b] \in Nat \ {0}
           /\ hollow' \subseteq Blocks
           /\ stray' \subseteq Nat
           /\ MarkTaken(start, n) \in [Blocks -> SUBSET Flags]
<1>1. start \in Blocks
  BY StartBlockIsFree
<1>2. stray' \subseteq Nat
  BY <1>1, HeapAssumption DEF Place, PastTable, Inv, TypeOK, Blocks
<1>3. MarkTaken(start, n) \in [Blocks -> SUBSET Flags]
  BY DEF MarkTaken, EntryOf, Flags, Inv, TypeOK
<1> QED
  BY <1>1, <1>2, <1>3 DEF Place, Inv, TypeOK

\* An allocation of n blocks where the search put it keeps the invariant.
LEMMA PlaceInv ==
    ASSUME Inv, ~broken, NEW n \in Nat, NEW start, start = StartBlock(n),
           start # NoBlock, Place(start, n),
           entries' = MarkTaken(start, n), broken' = broken
    PROVE  Inv'
<1>1. start \in Blocks /\ \A i \in Blocks \cap (start .. (start + n - 1)) : ~Taken(i)
  BY StartBlockIsFree
<1>2. TypeOK'
  BY PlaceType DEF Inv, TypeOK
<1>3. CASE n = 0
  <2>1. live' = live
    BY <1>3 DEF Place
  <2>2. entries' = entries
    BY <1>1, <1>3 DEF MarkTaken, Inv, TypeOK, Blocks
  <2> QED
    BY <1>2, <2>1, <2>2 DEF Inv, LiveDisjoint, TableMatches, Region
<1>4. CASE n # 0
  <2>1. live' = [b \in DOMAIN live \cup {start} |->
                    IF b = start THEN n ELSE live[b]]
    BY <1>4 DEF Place
  <2>2. start \notin DOMAIN live
    BY <1>1, <1>4, FreeBlockIsUnheld DEF Inv, TypeOK, Region, Blocks
  <2>3. /\ Region(start)' = start .. (start + n - 1)
        /\ \A b \in DOMAIN live : Region(b)' = Region(b)
    BY <2>1, <2>2 DEF Region
  <2>4. LiveDisjoint'
    <3>1. \A c \in DOMAIN live : Region(start)' \cap Region(c)' = {}
      BY <1>4, <2>3, PlaceIsDisjoint
    <3>2. \A b, c \in DOMAIN live : b # c => Region(b)' \cap Region(c)' = {}
      BY <2>3 DEF Inv, LiveDisjoint
    <3> QED
      BY <2>1, <3>1, <3>2 DEF LiveDisjoint
  <2>5. TableMatches'
    <3> SUFFICES ASSUME NEW i \in Blocks
                 PROVE  \/ /\ entries'[i] = {}
                           /\ \A b \in DOMAIN live' : i \notin Region(b)'
                        \/ \E b \in DOMAIN live' :
                              /\ i \in Region(b)'
                              /\ entries'[i] = EntryOf(i, b, live'[b])
      BY DEF TableMatches, EntryOf
    <3>1. CASE i \in start .. (start + n - 1)
      <4>1. entries'[i] = EntryOf(i, start, n)
        BY <3>1 DEF MarkTaken
      <4>2. start \in DOMAIN live' /\ live'[start] = n
        BY <2>1
      <4> QED
        BY <2>3, <3>1, <4>1, <4>2
    <3>2. CASE i \notin start .. (start + n - 1)
      <4>1. entries'[i] = entries[i]
        BY <3>2 DEF MarkTaken
      <4>2. \A b \in DOMAIN live : live'[b] = live[b] /\ b \in DOMAIN live'
        BY <2>1, <2>2
      <4>3. DOMAIN live' = DOMAIN live \cup {start}
        BY <2>1
      <4> QED
        BY <2>3, <3>2, <4>1, <4>2, <4>3 DEF Inv, TableMatches
    <3> QED
      BY <3>1, <3>2
  <2> QED
    BY <1>2, <2>4, <2>5 DEF Inv
<1> QED
  BY <1>3, <1>4

\* A free by the holder of an allocation keeps the invariant.
LEMMA KfreeInv ==
    ASSUME Inv, ~broken, NEW b \in DOMAIN live, Kfree(b)
    PROVE  Inv'
<1>1. b \in Blocks /\ b \in Int
  BY HeapAssumption DEF Inv, TypeOK, Blocks
<1>2. entries' = [i \in Blocks |-> IF i \in Region(b) THEN {} ELSE entries[i]]
  BY <1>1, BlockOfAddress, ChainIsRegion DEF Kfree, MarkFree
<1>3. live' = [c \in DOMAIN live \ {b} |-> live[c]]
  BY DEF Kfree
<1>4. \A c \in DOMAIN live' : c \in DOMAIN live /\ c # b /\ live'[c] = live[c] /\ Region(c)' = Region(c)
  BY <1>3 DEF Region
<1>5. TypeOK'
  BY <1>2, <1>4 DEF Inv, TypeOK, Kfree
<1>6. LiveDisjoint'
  BY <1>4 DEF Inv, LiveDisjoint, Kfree
<1>7. TableMatches'
  <2> SUFFICES ASSUME NEW i \in Blocks
               PROVE  \/ /\ entries'[i] = {}
                         /\ \A c \in DOMAIN live' : i \notin Region(c)'
                      \/ \E c \in DOMAIN live' :
                            /\ i \in Region(c)'
                            /\ entries'[i] = EntryOf(i, c, live'[c])
    BY DEF TableMatches, EntryOf
  <2>1. CASE i \in Region(b)
    BY <1>2, <1>4, <2>1 DEF Inv, LiveDisjoint
  <2>2. CASE i \notin Region(b)
    <3>1. \A c \in DOMAIN live : c # b => c \in DOMAIN live'
      BY <1>3
    <3> QED
      BY <1>2, <1>4, <2>2, <3>1 DEF Inv, TableMatches
  <2> QED
    BY <2>1, <2>2
<1> QED
  BY <1>5, <1>6, <1>7 DEF Inv

\* A free through a pointer that stands for no blocks either damages the
\* table, which broken records, or changes nothing in it.
LEMMA KfreeHollowInv ==
    ASSUME Inv, ~broken, NEW b \in hollow, KfreeHollow(b)
    PROVE  Inv'
<1>1. b \in Blocks /\ b \in Int
  BY HeapAssumption DEF Inv, TypeOK, Blocks
<1>2. entries' = MarkFree(b)
  BY <1>1, BlockOfAddress DEF KfreeHollow
<1>3. TypeOK'
  BY <1>2 DEF KfreeHollow, MarkFree, Inv, TypeOK, Taken
<1>4. CASE Taken(b)
  BY <1>3, <1>4 DEF KfreeHollow, Inv, LiveDisjoint, TableMatches
<1>5. CASE ~Taken(b)
  <2>1. entries[b] = {}
    BY <1>1, <1>5, FreeBlockIsUnheld
  <2>2. Chain(b) \subseteq {b}
    BY <1>1, <2>1, HeapAssumption DEF Chain, Blocks
  <2>3. entries' = entries
    BY <1>2, <2>1, <2>2 DEF MarkFree, Inv, TypeOK
  <2> QED
    BY <1>3, <2>3 DEF KfreeHollow, Inv, LiveDisjoint, TableMatches, Region
<1> QED
  BY <1>4, <1>5

\* A kzalloc that does not come over the end of the addresses clears no entry:
\* the table lies below the heap.
LEMMA ClearedAbove ==
    ASSUME NEW b \in Blocks, NEW size \in Nat, AddressOf(b) + size <= Word,
           NEW t \in [Blocks -> SUBSET Flags]
    PROVE  Cleared(t, AddressOf(b), size) = t
<1>1. AddressOf(b) \in Nat /\ AddressOf(b) >= HeapAddress
  <2>1. b \in Nat /\ BlockSize \in Nat
    BY HeapAssumption DEF Blocks
  <2>2. b * BlockSize \in Nat
    BY <2>1
  <2> QED
    BY <2>2, HeapAssumption DEF AddressOf
<1> DEFINE from == AddressOf(b)
<1> HIDE DEF from
<1>2. from \in Nat /\ from >= HeapAddress /\ from + size <= Word
  BY <1>1 DEF from
<1>3. ASSUME NEW i \in Blocks, NEW a \in {TableAddress + i, TableAddress + i + Word},
             from <= a, a < from + size
      PROVE  FALSE
  <2>1. /\ TableAddress \in Nat /\ i \in Nat /\ Word \in Nat /\ HeapAddress \in Nat
        /\ TableAddress + i < HeapAddress
    BY HeapAssumption DEF Blocks
  <2> QED
    BY <1>2, <1>3, <2>1
<1>4. Cleared(t, from, size) = [i \in Blocks |-> t[i]]
  BY <1>3 DEF Cleared
<1> QED
  BY <1>4 DEF from

\* A kzalloc keeps the invariant, or comes over the end of the addresses.
LEMMA KzallocInv ==
    ASSUME Inv, ~broken, NEW size \in Sizes, Kzalloc(size)
    PROVE  Inv'
<1> DEFINE n == BlocksFor(size)
           s == StartBlock(n)
<1>1. n \in Nat /\ size \in Nat
  BY BlocksForType, HeapAssumption
<1>2. /\ s # NoBlock /\ Place(s, n)
      /\ entries' = Cleared(MarkTaken(s, n), AddressOf(s), size)
      /\ broken' = (AddressOf(s) + size > Word)
  BY DEF Kzalloc
<1> HIDE DEF n
<1>3. s \in Blocks
  BY <1>1, <1>2, StartBlockIsFree
<1>4. /\ DOMAIN live' \subseteq Blocks
      /\ \A b \in DOMAIN live' : live'[b] \in Nat \ {0}
      /\ hollow' \subseteq Blocks
      /\ stray' \subseteq Nat
      /\ MarkTaken(s, n) \in [Blocks -> SUBSET Flags]
  BY <1>1, <1>2, PlaceType
<1>5. AddressOf(s) \in Int
  BY <1>3, HeapAssumption DEF AddressOf, Blocks
<1>6. CASE AddressOf(s) + size > Word
  <2>1. entries' \in [Blocks -> SUBSET Flags]
    BY <1>2, <1>4 DEF Cleared
  <2>2. broken'
    BY <1>2, <1>6
  <2> QED
    BY <1>4, <2>1, <2>2 DEF Inv, TypeOK, LiveDisjoint, TableMatches
<1>7. CASE ~(AddressOf(s) + size > Word)
  <2>1. AddressOf(s) + size <= Word
    BY <1>1, <1>5, <1>7, HeapAssumption
  <2>2. entries' = MarkTaken(s, n)
    BY <1>1, <1>2, <1>3, <1>4, <2>1, ClearedAbove
  <2>3. broken' = broken
    BY <1>2, <1>7 DEF Inv, TypeOK
  <2> QED
    BY <1>1, <1>2, <2>2, <2>3, PlaceInv
<1> QED
  BY <1>6, <1>7

\* A refused kzalloc either damages the table or changes nothing.
LEMMA KzallocRefusedInv ==
    ASSUME Inv, ~broken, NEW size \in Sizes, KzallocRefused(size)
    PROVE  Inv'
<1>1. TypeOK'
  BY DEF KzallocRefused, Cleared, Inv, TypeOK
<1>2. CASE entries' = entries
  BY <1>1, <1>2 DEF KzallocRefused, Inv, LiveDisjoint, TableMatches, Region
<1>3. CASE entries' # entries
  BY <1>1, <1>3 DEF KzallocRefused, Inv, LiveDisjoint, TableMatches
<1> QED
  BY <1>2, <1>3

\* kmalloc, kzalloc and kfree preserve the invariant.
LEMMA NextInv == Inv /\ [Next]_vars => Inv'
<1> SUFFICES ASSUME Inv, [Next]_vars
             PROVE  Inv'
  OBVIOUS
<1>1. ASSUME ~broken, NEW size \in Sizes, Kmalloc(size)
      PROVE  Inv'
  BY <1>1, PlaceInv, BlocksForType DEF Kmalloc
<1>2. CASE UNCHANGED vars
  BY <1>2 DEF vars, Inv, TypeOK, LiveDisjoint, TableMatches, Region
<1> QED
  BY <1>1, <1>2, KzallocInv, KfreeInv, KfreeHollowInv, KzallocRefusedInv DEF Next

\* The invariant holds in every behaviour.
THEOREM Invariance == Spec => []Inv
  BY InitInv, NextInv, PTL DEF Spec

----------------------------------------------------------------------------
(* The theorems.                                                           *)

\* Type correctness.
THEOREM TypeCorrect == Spec => []TypeOK
  BY Invariance, PTL DEF Inv

\* No block belongs to two allocations.
THEOREM Disjointness == Spec => []LiveDisjoint
  BY Invariance, PTL DEF Inv

\* The table says of every block what its allocation says: no block is lost.
THEOREM Accounting == Spec => []TableMatches
  BY Invariance, PTL DEF Inv

\* A free gives back the blocks of its allocation and touches no other.
THEOREM ExactFree == Spec => FreeIsExact
<1> DEFINE Exact == \A b \in DOMAIN live : b \notin DOMAIN live' =>
             \A i \in Blocks : entries'[i] = (IF i \in Region(b) THEN {}
                                              ELSE entries[i])
<1>1. Inv /\ [Next]_vars => [Exact]_vars
  <2> SUFFICES ASSUME Inv, Next, NEW b \in DOMAIN live, b \notin DOMAIN live'
               PROVE  \A i \in Blocks : entries'[i] = (IF i \in Region(b) THEN {}
                                                       ELSE entries[i])
    OBVIOUS
  <2>1. ~broken
    BY DEF Next
  <2>2. ASSUME NEW size \in Sizes, Kmalloc(size) \/ Kzalloc(size)
        PROVE  FALSE
    BY <2>2 DEF Kmalloc, Kzalloc, Place
  <2>3. ASSUME NEW size \in Sizes, KzallocRefused(size)
        PROVE  FALSE
    BY <2>3 DEF KzallocRefused
  <2>4. ASSUME NEW c \in hollow, KfreeHollow(c)
        PROVE  FALSE
    BY <2>4 DEF KfreeHollow
  <2>5. Kfree(b)
    <3>1. PICK c \in DOMAIN live : Kfree(c)
      BY <2>2, <2>3, <2>4 DEF Next
    <3>2. c = b
      BY <3>1 DEF Kfree
    <3> QED
      BY <3>1, <3>2
  <2>6. b \in Int
    BY HeapAssumption DEF Inv, TypeOK, Blocks
  <2> QED
    BY <2>1, <2>5, <2>6, BlockOfAddress, ChainIsRegion DEF Kfree, MarkFree
<1> QED
  BY <1>1, Invariance, PTL DEF Spec, FreeIsExact

\* The search hands out a region past the end only when nothing fits.
THEOREM Overrun == Spec => OverrunOnlyWhenNothingFits
<1> DEFINE Justified == \A b \in DOMAIN live' \ DOMAIN live :
                            b + live'[b] > Total => Fits(live'[b]) = {}
<1>1. Inv /\ [Next]_vars => [Justified]_vars
  <2> SUFFICES ASSUME Inv, Next, NEW b \in DOMAIN live' \ DOMAIN live,
                      b + live'[b] > Total, Fits(live'[b]) # {}
               PROVE  FALSE
    OBVIOUS
  <2>1. PICK size \in Sizes : Kmalloc(size) \/ Kzalloc(size)
    BY DEF Next, KzallocRefused, Kfree, KfreeHollow
  <2>2. b = StartBlock(live'[b])
    BY <2>1 DEF Kmalloc, Kzalloc, Place
  <2>3. Fits(live'[b]) \subseteq Nat
    BY HeapAssumption DEF Fits, Blocks
  <2>4. b \in Fits(live'[b])
    BY <2>2, <2>3, LeastIsLeast DEF StartBlock
  <2>5. b \in Int /\ live'[b] \in Int
    BY NextInv, HeapAssumption DEF Inv, TypeOK, Blocks
  <2> QED
    BY <2>4, <2>5, HeapAssumption DEF Fits
<1> QED
  BY <1>1, Invariance, PTL DEF Spec, OverrunOnlyWhenNothingFits

\* The heap implements the abstract allocator.
THEOREM Implementation == Spec => Refinement
<1>1. Init => Promise!AInit
  BY DEF Init, Promise!AInit
<1>2. Inv /\ [Next]_vars => [Promise!ANext]_(Promise!avars)
  <2> SUFFICES ASSUME Inv, [Next]_vars, ~broken'
               PROVE  Promise!Grant \/ Promise!Release \/ UNCHANGED <<live, broken>>
    BY DEF Promise!ANext, Promise!avars
  <2>1. CASE UNCHANGED vars
    BY <2>1 DEF vars
  <2>2. ASSUME ~broken, NEW size \in Sizes, Kmalloc(size) \/ Kzalloc(size)
        PROVE  Promise!Grant \/ UNCHANGED live
    <3> DEFINE n == BlocksFor(size)
               s == StartBlock(n)
    <3>1. n \in Nat /\ s # NoBlock /\ Place(s, n)
      BY <2>2, BlocksForType DEF Kmalloc, Kzalloc
    <3> HIDE DEF n
    <3>2. CASE n = 0
      BY <3>1, <3>2 DEF Place
    <3>3. CASE n # 0
      <4>1. live' = [c \in DOMAIN live \cup {s} |->
                        IF c = s THEN n ELSE live[c]]
        BY <3>1, <3>3 DEF Place
      <4>2. s \in Blocks
        BY <3>1, StartBlockIsFree
      <4>3. \A c \in DOMAIN live : (s .. (s + n - 1)) \cap Region(c) = {}
        BY <2>2, <3>1, <3>3, PlaceIsDisjoint
      <4>4. s \in Blocks \cap DOMAIN live' /\ live'[s] = n
        BY <4>1, <4>2
      <4> HIDE DEF s
      <4> QED
        BY <3>1, <3>3, <4>1, <4>3, <4>4 DEF Promise!Grant, Promise!Span, Region
    <3> QED
      BY <3>2, <3>3
  <2>3. ASSUME NEW b \in DOMAIN live, Kfree(b)
        PROVE  Promise!Release
    BY <2>3 DEF Kfree, Promise!Release
  <2>4. ASSUME NEW b \in hollow, KfreeHollow(b)
        PROVE  UNCHANGED live
    BY <2>4 DEF KfreeHollow
  <2>5. ASSUME NEW size \in Sizes, KzallocRefused(size)
        PROVE  UNCHANGED live
    BY <2>5 DEF KzallocRefused
  <2>6. broken \in BOOLEAN /\ broken' \in BOOLEAN
    BY NextInv DEF Inv, TypeOK
  <2> QED
    BY <2>1, <2>2, <2>3, <2>4, <2>5, <2>6 DEF Next
<1> QED
  BY <1>1, <1>2, Invariance, PTL DEF Spec, Refinement, Promise!ASpec
=============================================================================
