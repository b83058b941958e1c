-------------------------- MODULE HeapLoopsProofs --------------------------
(***************************************************************************)
(* The loops of memory/heap/heap.cpp compute the outcomes that Heap gives  *)
(* them, on every table of every size.  The inductive invariant says what  *)
(* each loop has done when it is about to look at block i.                 *)
(***************************************************************************)
EXTENDS HeapLoops, HeapProofs

\* get_start_block has met no run of n free blocks before i, and (bs, bc) are
\* the start and the length of the run of free blocks that ends before i.
Scanned ==
    /\ i \in 0 .. Total
    /\ \/ bs = NoBlock /\ bc = 0 /\ (i = 0 \/ Taken(i - 1))
       \/ /\ bs \in 0 .. (i - 1)
          /\ bc = i - bs
          /\ \A k \in bs .. (i - 1) : ~Taken(k)
          /\ bs = 0 \/ Taken(bs - 1)
    /\ \A b \in Blocks : (n > 0 /\ b + n <= i) =>
          \E k \in b .. (b + n - 1) : Taken(k)

\* mark_blocks_taken has marked the blocks before i, and entry is the mark of
\* block i.
Marked ==
    /\ i \in start .. (start + n)
    /\ table = [b \in Blocks |-> IF b \in start .. (i - 1)
                                 THEN EntryOf(b, start, n) ELSE entries[b]]
    /\ past = Total .. (i - 1)
    /\ i < start + n => entry = EntryOf(i, start, n)

\* mark_blocks_free has walked from start to i along HAS_NEXT marks.
Walked ==
    /\ i \in start .. Total
    /\ \A j \in start .. (i - 1) : "HAS_NEXT" \in entries[j]
    /\ table = [b \in Blocks |-> IF b \in start .. (i - 1)
                                 THEN {} ELSE entries[b]]

LInv == /\ LTypeOK
        /\ op = "scan" => table = entries
        /\ op = "free" => past = {}
        /\ pc = "scan" => Scanned
        /\ pc = "take" => Marked
        /\ pc = "free" => Walked
        /\ LoopsComputeHeap

----------------------------------------------------------------------------

\* The invariant of the loops holds before the first turn.
LEMMA LInitInv == LInit => LInv
<1> SUFFICES ASSUME LInit PROVE LInv
  OBVIOUS
<1> USE HeapAssumption, CountsAssumption
<1>1. LTypeOK
  BY DEF LInit, LTypeOK, Loops, Blocks, Flags, NoBlock
<1>2. pc = "scan" => Scanned
  BY <1>1 DEF LInit, LTypeOK, Scanned, Blocks
<1>3. pc = "take" => Marked
  <2> SUFFICES ASSUME pc = "take" PROVE Marked
    OBVIOUS
  <2>1. start .. (i - 1) = {} /\ Total .. (i - 1) = {}
    BY <1>1 DEF LInit, LTypeOK, Blocks
  <2>2. table = [b \in Blocks |-> entries[b]]
    BY <1>1 DEF LInit, LTypeOK
  <2>3. i < start + n => entry = EntryOf(i, start, n)
    BY <1>1 DEF LInit, LTypeOK, EntryOf, Blocks
  <2> QED
    BY <1>1, <2>1, <2>2, <2>3 DEF LInit, LTypeOK, Marked, Blocks
<1>4. pc = "free" => Walked
  BY <1>1 DEF LInit, LTypeOK, Walked, Blocks
<1> QED
  BY <1>1, <1>2, <1>3, <1>4 DEF LInv, LInit, Loops, LoopsComputeHeap

----------------------------------------------------------------------------
(* get_start_block.                                                        *)

\* The least element is the only one below all others.
LEMMA LeastIs ==
    ASSUME NEW S, S \subseteq Nat, NEW x \in S, \A c \in S : x <= c
    PROVE  Least(S) = x
<1>1. Least(S) \in S /\ Least(S) <= x
  BY LeastIsLeast
<1>2. x <= Least(S)
  BY <1>1
<1>3. x \in Nat /\ Least(S) \in Nat
  BY <1>1
<1> HIDE DEF Least
<1> QED
  BY <1>1, <1>2, <1>3

\* The loop breaks off at the first fit.
LEMMA ScanFound ==
    ASSUME LTypeOK, Scanned, i < Total, n > 0, ~Taken(i), bc + 1 = n
    PROVE  (IF bs = NoBlock THEN i ELSE bs) = StartBlock(n)
<1> USE HeapAssumption DEF LTypeOK, Blocks
<1> DEFINE s == IF bs = NoBlock THEN i ELSE bs
<1>1. s \in Nat /\ s + n = i + 1 /\ \A k \in s .. i : ~Taken(k)
  BY DEF Scanned, NoBlock
<1>2. s \in Fits(n)
  BY <1>1 DEF Fits
<1>3. ASSUME NEW b \in Fits(n)
      PROVE  s <= b
  <2> SUFFICES ASSUME b < s PROVE FALSE
    BY <1>1 DEF Fits
  <2>1. b \in Blocks /\ b + n <= i
    BY <1>1, <1>3 DEF Fits
  <2> QED
    BY <2>1 DEF Scanned, Fits
<1>4. Fits(n) \subseteq Nat
  BY DEF Fits
<1> HIDE DEF s
<1>5. Least(Fits(n)) = s
  BY <1>1, <1>2, <1>3, <1>4, LeastIs
<1> QED
  BY <1>2, <1>5 DEF StartBlock, s

\* The loop runs to its end: nothing fits, and bs is the free tail.
LEMMA ScanExhausted ==
    ASSUME LTypeOK, Scanned, i >= Total
    PROVE  bs = StartBlock(n)
<1> USE HeapAssumption DEF LTypeOK, Blocks
<1>1. i = Total
  BY DEF Scanned
<1>2. Fits(n) = {}
  BY <1>1 DEF Scanned, Fits
<1>3. CASE bs = NoBlock
  <2>1. Taken(Total - 1)
    BY <1>1, <1>3 DEF Scanned, NoBlock
  <2>2. TailRun = {}
    BY <2>1 DEF TailRun
  <2> QED
    BY <1>2, <1>3, <2>2 DEF StartBlock
<1>4. CASE bs # NoBlock
  <2>1. bs \in TailRun
    BY <1>1, <1>4 DEF Scanned, TailRun
  <2>2. ASSUME NEW b \in TailRun
        PROVE  bs <= b
    <3> SUFFICES ASSUME b < bs PROVE FALSE
      BY <1>4 DEF TailRun, NoBlock
    <3>1. bs - 1 \in b .. (Total - 1) /\ Taken(bs - 1)
      BY <1>1, <1>4 DEF Scanned, TailRun, NoBlock
    <3> QED
      BY <3>1 DEF TailRun
  <2>3. TailRun \subseteq Nat
    BY DEF TailRun
  <2>4. Least(TailRun) = bs
    BY <2>1, <2>2, <2>3, LeastIs
  <2> QED
    BY <1>2, <2>1, <2>4 DEF StartBlock
<1> QED
  BY <1>3, <1>4

\* An iteration that does not end the loop.
LEMMA ScanGoesOn ==
    ASSUME LInv, pc = "scan", Scan, pc' = "scan", UNCHANGED <<vars, op, n, start>>
    PROVE  Scanned'
<1> USE HeapAssumption DEF LTypeOK, Blocks
<1>1. LTypeOK /\ Scanned /\ i < Total /\ i' = i + 1 /\ table = entries /\ n' = n
  BY DEF LInv, Scan
<1>2. SUFFICES
        /\ \/ bs' = NoBlock /\ bc' = 0 /\ Taken(i)
           \/ /\ bs' \in 0 .. i
              /\ bc' = (i + 1) - bs'
              /\ \A k \in bs' .. i : ~Taken(k)
              /\ bs' = 0 \/ Taken(bs' - 1)
        /\ \A b \in Blocks : (n > 0 /\ b + n <= i + 1) =>
              \E k \in b .. (b + n - 1) : Taken(k)
  <2>1. entries' = entries /\ i + 1 \in 0 .. Total /\ (i + 1) - 1 = i
    BY <1>1 DEF vars
  <2> QED
    BY <1>1, <2>1 DEF Scanned, Taken
<1>3. CASE Taken(i)
  <2>1. bs' = NoBlock /\ bc' = 0
    BY <1>1, <1>3 DEF Scan, Taken
  <2>2. ASSUME NEW b \in Blocks, n > 0, b + n <= i + 1
        PROVE  \E k \in b .. (b + n - 1) : Taken(k)
    <3>1. CASE b + n <= i
      BY <1>1, <2>2, <3>1 DEF Scanned
    <3>2. CASE b + n = i + 1
      BY <1>1, <1>3, <2>2, <3>2
    <3> QED
      BY <1>1, <2>2, <3>1, <3>2
  <2> QED
    BY <1>3, <2>1, <2>2
<1>4. CASE ~Taken(i)
  <2> DEFINE s == IF bs = NoBlock THEN i ELSE bs
  <2>1. bs' = s /\ bc' = bc + 1 /\ bc' # n
    BY <1>1, <1>4 DEF Scan, Taken
  <2>2. s \in 0 .. i /\ bc + 1 = (i + 1) - s /\ \A k \in s .. i : ~Taken(k)
    BY <1>1, <1>4 DEF Scanned, NoBlock
  <2>3. s = 0 \/ Taken(s - 1)
    BY <1>1 DEF Scanned, NoBlock
  <2>4. ASSUME NEW b \in Blocks, n > 0, b + n <= i + 1
        PROVE  \E k \in b .. (b + n - 1) : Taken(k)
    <3>1. CASE b + n <= i
      BY <1>1, <2>4, <3>1 DEF Scanned
    <3>2. CASE b + n = i + 1
      <4>1. b < s \/ b > s
        BY <1>1, <2>1, <2>2, <3>2
      <4>2. CASE b < s
        BY <1>1, <2>2, <2>3, <3>2, <4>2
      <4>3. CASE b > s
        <5>1. n < (i + 1) - s /\ s \in Blocks /\ s + n <= i
          BY <1>1, <2>2, <3>2, <4>3
        <5>2. \E k \in s .. (s + n - 1) : Taken(k)
          BY <1>1, <2>4, <5>1 DEF Scanned
        <5> QED
          BY <1>1, <2>2, <5>1, <5>2
      <4> QED
        BY <4>1, <4>2, <4>3
    <3> QED
      BY <1>1, <2>4, <3>1, <3>2
  <2> HIDE DEF s
  <2> QED
    BY <2>1, <2>2, <2>3, <2>4
<1> QED
  BY <1>3, <1>4

\* A turn of get_start_block keeps what the scan knows of the blocks it passed.
LEMMA ScanInv ==
    ASSUME LInv, Scan, UNCHANGED <<vars, op, n, start>>
    PROVE  LInv'
<1> USE HeapAssumption
<1>1. /\ LTypeOK /\ Scanned /\ op = "scan" /\ table = entries
      /\ pc = "scan" /\ i < Total /\ i \in Blocks
  BY DEF LInv, Scan, LTypeOK, Blocks, Loops
<1>2. /\ entries' = entries /\ table' = table /\ op' = op /\ n' = n
      /\ start' = start /\ entry' = entry /\ past' = past
  BY DEF Scan, vars
<1>3. LTypeOK'
  <2>1. i' \in Nat /\ bc' \in Nat /\ bs' \in Blocks \cup {NoBlock} /\ pc' \in {op, "done"}
    BY <1>1 DEF Scan, LTypeOK
  <2> QED
    BY <1>1, <1>2, <2>1 DEF LTypeOK
<1>4. CASE pc' = "scan"
  BY <1>1, <1>2, <1>3, <1>4, ScanGoesOn DEF LInv, LoopsComputeHeap
<1>5. CASE pc' # "scan"
  <2>1. pc' = "done" /\ ~Taken(i) /\ bc + 1 = n
    BY <1>1, <1>5 DEF Scan, Taken
  <2>2. bs' = IF bs = NoBlock THEN i ELSE bs
    BY <1>1, <2>1 DEF Scan, Taken
  <2>3. n > 0
    BY <1>1, <2>1 DEF LTypeOK
  <2>4. bs' = StartBlock(n)
    BY <1>1, <2>1, <2>2, <2>3, ScanFound
  <2>5. StartBlock(n)' = StartBlock(n)
    BY <1>2 DEF StartBlock, Fits, TailRun, Taken
  <2> QED
    BY <1>1, <1>2, <1>3, <2>1, <2>4, <2>5 DEF LInv, LoopsComputeHeap
<1> QED
  BY <1>4, <1>5

----------------------------------------------------------------------------
(* mark_blocks_taken and mark_blocks_free.                                 *)

\* A turn of mark_blocks_taken marks one more block of the request.
LEMMA TakeInv ==
    ASSUME LInv, Take, UNCHANGED <<vars, op, n, start>>
    PROVE  LInv'
<1> USE HeapAssumption
<1>1. /\ LTypeOK /\ Marked /\ op = "take" /\ pc = "take"
      /\ i \in start .. (start + n - 1) /\ start \in Nat /\ n \in Nat
  BY DEF LInv, Take, LTypeOK, Blocks, Loops, Marked
<1>2. /\ entries' = entries /\ op' = op /\ n' = n /\ pc' = pc
      /\ start' = start /\ bc' = bc /\ bs' = bs /\ i' = i + 1
  BY DEF Take, vars
<1>3. table' = [b \in Blocks |-> IF b \in start .. i
                                  THEN EntryOf(b, start, n) ELSE entries[b]]
  <2>1. entry = EntryOf(i, start, n)
    BY <1>1 DEF Marked
  <2>2. ASSUME NEW b \in Blocks
        PROVE  (IF b = i THEN entry ELSE table[b]) =
               (IF b \in start .. i THEN EntryOf(b, start, n) ELSE entries[b])
    <3>1. CASE b = i
      BY <1>1, <2>1, <3>1
    <3>2. CASE b # i
      <4>1. b \in start .. i <=> b \in start .. (i - 1)
        BY <1>1, <3>2 DEF Blocks
      <4> QED
        BY <1>1, <3>2, <4>1 DEF Marked
    <3> QED
      BY <3>1, <3>2
  <2> QED
    BY <2>2 DEF Take
<1>4. past' = Total .. i
  <2>1. past = Total .. (i - 1) /\ past' = past \cup ({i} \ Blocks)
    BY <1>1 DEF Marked, Take
  <2> QED
    BY <1>1, <2>1 DEF Blocks
<1>5. i + 1 < start + n => entry' = EntryOf(i + 1, start, n)
  BY <1>1 DEF Take, EntryOf
<1>6. LTypeOK'
  <2>1. table' \in [Blocks -> SUBSET Flags]
    BY <1>1, <1>3 DEF LTypeOK, EntryOf, Flags
  <2>2. entry' \in SUBSET Flags
    BY DEF Take, Flags
  <2>3. past' \in SUBSET Nat
    BY <1>4
  <2> QED
    BY <1>1, <1>2, <2>1, <2>2, <2>3 DEF LTypeOK
<1>7. Marked'
  <2>1. (i + 1) - 1 = i /\ i + 1 \in start .. (start + n)
    BY <1>1
  <2> QED
    BY <1>2, <1>3, <1>4, <1>5, <2>1 DEF Marked, EntryOf
<1> QED
  BY <1>1, <1>2, <1>6, <1>7 DEF LInv, LoopsComputeHeap

\* The release is complete when the walk stops at block e.
LEMMA WalkEnds ==
    ASSUME LTypeOK, Walked, NEW e \in Nat, e <= Total,
           e = i \/ (e = i + 1 /\ i < Total /\ "HAS_NEXT" \notin entries[i]),
           e = i => i = Total
    PROVE  [b \in Blocks |-> IF b \in start .. (e - 1) THEN {} ELSE entries[b]]
           = MarkFree(start)
<1> USE HeapAssumption
<1>1. start \in Nat /\ i \in start .. Total
  BY DEF LTypeOK, Walked, Blocks
<1>2. ASSUME NEW b \in Blocks
      PROVE  b \in start .. (e - 1) <=> b \in Chain(start)
  <2>1. ASSUME b \in start .. (e - 1)
        PROVE  b \in Chain(start)
    <3>1. \A j \in start .. (b - 1) : j \in start .. (i - 1)
      BY <1>1, <2>1 DEF Blocks
    <3> QED
      BY <1>1, <2>1, <3>1 DEF Chain, Walked
  <2>2. ASSUME b \in Chain(start), b \notin start .. (e - 1)
        PROVE  FALSE
    <3>1. b >= e /\ start <= b
      BY <1>1, <2>2 DEF Chain, Blocks
    <3>2. e = i + 1 /\ "HAS_NEXT" \notin entries[i] /\ i \in start .. (b - 1)
      BY <1>1, <3>1 DEF Blocks
    <3> QED
      BY <2>2, <3>2 DEF Chain
  <2> QED
    BY <2>1, <2>2
<1> QED
  BY <1>2 DEF MarkFree

\* A turn of mark_blocks_free clears one more block of the region.
LEMMA FreeInv ==
    ASSUME LInv, Free, UNCHANGED <<vars, op, n, start>>
    PROVE  LInv'
<1> USE HeapAssumption
<1>1. /\ LTypeOK /\ Walked /\ op = "free" /\ pc = "free" /\ past = {}
      /\ i \in start .. (Total - 1) /\ start \in Nat /\ i \in Blocks
  BY DEF LInv, Free, LTypeOK, Blocks, Loops, Walked
<1>2. /\ entries' = entries /\ op' = op /\ n' = n /\ past' = past
      /\ start' = start /\ bc' = bc /\ bs' = bs /\ entry' = entry
  BY DEF Free, vars
<1>3. table[i] = entries[i]
  BY <1>1 DEF Walked
<1>4. table' = [b \in Blocks |-> IF b \in start .. i THEN {} ELSE entries[b]]
  <2>1. ASSUME NEW b \in Blocks
        PROVE  (IF b = i THEN {} ELSE table[b]) =
               (IF b \in start .. i THEN {} ELSE entries[b])
    <3>1. b # i => (b \in start .. i <=> b \in start .. (i - 1))
      BY <1>1 DEF Blocks
    <3> QED
      BY <1>1, <3>1 DEF Walked
  <2> QED
    BY <2>1 DEF Free
<1>5. LTypeOK'
  <2>1. table' \in [Blocks -> SUBSET Flags]
    BY <1>1, <1>4 DEF LTypeOK
  <2>2. i' \in Nat /\ pc' \in {op, "done"}
    BY <1>1 DEF Free
  <2> QED
    BY <1>1, <1>2, <2>1, <2>2 DEF LTypeOK
<1>6. (i + 1) - 1 = i
  BY <1>1
<1>7. CASE "HAS_NEXT" \in entries[i]
  <2>1. pc' = "free" /\ i' = i + 1
    BY <1>1, <1>3, <1>7 DEF Free
  <2>2. \A j \in start .. i : "HAS_NEXT" \in entries[j]
    BY <1>1, <1>7 DEF Walked
  <2>3. i + 1 \in start .. Total
    BY <1>1
  <2>4. Walked'
    BY <1>2, <1>4, <1>6, <2>1, <2>2, <2>3 DEF Walked
  <2> QED
    BY <1>1, <1>2, <1>5, <2>1, <2>4 DEF LInv, LoopsComputeHeap
<1>8. CASE "HAS_NEXT" \notin entries[i]
  <2>1. pc' = "done"
    BY <1>1, <1>3, <1>8 DEF Free
  <2>2. table' = MarkFree(start)
    <3>1. i + 1 \in Nat /\ i + 1 <= Total /\ i + 1 # i
      BY <1>1
    <3> QED
      BY <1>1, <1>4, <1>6, <1>8, <3>1, WalkEnds
  <2>3. MarkFree(start)' = MarkFree(start)
    BY <1>2 DEF MarkFree, Chain
  <2> QED
    BY <1>1, <1>2, <1>5, <2>1, <2>2, <2>3 DEF LInv, LoopsComputeHeap
<1> QED
  BY <1>7, <1>8

----------------------------------------------------------------------------

\* The end of a loop keeps the invariant.
LEMMA ExitInv ==
    ASSUME LInv, Exit, UNCHANGED <<vars, op, n, start>>
    PROVE  LInv'
<1> USE HeapAssumption
<1>1. /\ entries' = entries /\ op' = op /\ n' = n /\ past' = past /\ table' = table
      /\ start' = start /\ bc' = bc /\ bs' = bs /\ entry' = entry /\ i' = i
      /\ pc' = "done" /\ pc = op
  BY DEF Exit, vars, LInv, LTypeOK
<1>2. LTypeOK /\ LTypeOK'
  BY <1>1 DEF LInv, LTypeOK
<1>3. op = "scan" => bs = StartBlock(n)
  BY <1>1, <1>2, ScanExhausted DEF Exit, LInv
<1>4. op = "take" => table = MarkTaken(start, n) /\ past = PastTable(start, n)
  <2> SUFFICES ASSUME op = "take"
               PROVE  table = MarkTaken(start, n) /\ past = PastTable(start, n)
    OBVIOUS
  <2>1. Marked /\ i = start + n
    BY <1>1, <1>2 DEF Exit, LInv, Marked, LTypeOK, Blocks
  <2>2. i - 1 = start + n - 1
    BY <1>2, <2>1 DEF LTypeOK, Blocks
  <2> QED
    BY <2>1, <2>2 DEF Marked, MarkTaken, PastTable
<1>5. op = "free" => table = MarkFree(start)
  <2> SUFFICES ASSUME op = "free" PROVE table = MarkFree(start)
    OBVIOUS
  <2>1. Walked /\ i = Total
    BY <1>1, <1>2 DEF Exit, LInv, Walked, LTypeOK, Blocks
  <2> QED
    BY <1>2, <2>1, WalkEnds DEF Walked
<1>6. /\ StartBlock(n)' = StartBlock(n)
      /\ MarkTaken(start, n)' = MarkTaken(start, n)
      /\ MarkFree(start)' = MarkFree(start)
  BY <1>1 DEF StartBlock, Fits, TailRun, Taken, MarkTaken, EntryOf, MarkFree, Chain
<1> QED
  BY <1>1, <1>2, <1>3, <1>4, <1>5, <1>6 DEF LInv, LoopsComputeHeap, PastTable

\* Every step of the loops preserves their invariant.
LEMMA LNextInv == LInv /\ [LNext]_allvars => LInv'
<1> SUFFICES ASSUME LInv, [LNext]_allvars
             PROVE  LInv'
  OBVIOUS
<1>1. CASE UNCHANGED allvars
  BY <1>1 DEF allvars, vars, lvars, LInv, LTypeOK, LoopsComputeHeap, Scanned, Marked,
     Walked, StartBlock, Fits, TailRun, Taken, MarkTaken, EntryOf, PastTable, MarkFree, Chain
<1> QED
  BY <1>1, ScanInv, TakeInv, FreeInv, ExitInv DEF LNext

\* On every table, the loops of heap.cpp compute the outcomes Heap is built on.
THEOREM LoopsCorrect == LSpec => []LoopsComputeHeap
<1>1. LInv => LoopsComputeHeap
  BY DEF LInv
<1> QED
  BY <1>1, LInitInv, LNextInv, PTL DEF LSpec
=============================================================================
