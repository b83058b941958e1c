------------------------------ MODULE HeapLoops ------------------------------
(***************************************************************************)
(* The three loops of memory/heap/heap.cpp, one iteration per step.  Heap  *)
(* gives their outcomes in closed form (StartBlock, MarkTaken, MarkFree);  *)
(* this module is the code of the loops, and its theorem is that they      *)
(* compute those outcomes on every table, well formed or not.              *)
(*                                                                         *)
(* entries is the table at the call and stays as it is; table is the one   *)
(* the loop works on.  The other variables are the locals of the loops.    *)
(***************************************************************************)
EXTENDS Heap

CONSTANT Counts             \* the block counts the loops are called with

ASSUME CountsAssumption == Counts \subseteq Nat

VARIABLES
    pc,             \* the loop that runs, or "done"
    op,             \* the loop that was called
    n,              \* total_blocks
    start,          \* start_block, starting_block
    i,              \* the index of the next iteration
    bc, bs,         \* locals of get_start_block
    entry,          \* local of mark_blocks_taken
    table,          \* the entries the loop works on
    past            \* the indices written past the end of the table

lvars == <<pc, op, n, start, i, bc, bs, entry, table, past>>
allvars == <<vars, lvars>>

Loops == {"scan", "take", "free"}

LInit == /\ entries \in [Blocks -> SUBSET Flags]
         /\ live = [b \in {} |-> 0] /\ hollow = {} /\ stray = {} /\ broken = FALSE
         /\ op \in Loops
         /\ pc = op
         /\ n \in (IF op = "free" THEN {0} ELSE Counts)
         /\ start \in (IF op = "scan" THEN {0} ELSE Blocks)
         /\ i = start
         /\ bc = 0 /\ bs = NoBlock
         /\ entry = {"TAKEN", "IS_FIRST"} \cup (IF n > 1 THEN {"HAS_NEXT"} ELSE {})
         /\ table = entries
         /\ past = {}

\* Mutants of Scan: a taken block does not reset the start of the run; a
\* taken block is not passed.
ScanAs(stop, step) ==
    LET isTaken == "TAKEN" \in table[i] IN
    /\ pc = "scan" /\ i < Total
    /\ bc' = IF isTaken THEN 0 ELSE bc + 1
    /\ bs' = IF isTaken THEN stop ELSE IF bs = NoBlock THEN i ELSE bs
    /\ IF ~isTaken /\ bc' = n
       THEN pc' = "done" /\ i' = i
       ELSE pc' = pc /\ i' = IF isTaken THEN i + step ELSE i + 1
    /\ UNCHANGED <<entry, table, past>>

ScanWithoutReset == ScanAs(bs, 1)
ScanStuck        == ScanAs(NoBlock, 0)

\* An iteration of get_start_block: a taken block ends the run, a free one
\* begins or extends it, and a run of n blocks ends the loop.
Scan ==
    /\ pc = "scan" /\ i < Total
    /\ IF "TAKEN" \in table[i]
       THEN bc' = 0 /\ bs' = NoBlock
       ELSE /\ bc' = bc + 1
            /\ bs' = IF bs = NoBlock THEN i ELSE bs
    /\ IF "TAKEN" \notin table[i] /\ bc' = n
       THEN pc' = "done" /\ i' = i
       ELSE pc' = pc /\ i' = i + 1
    /\ UNCHANGED <<entry, table, past>>

\* An iteration of mark_blocks_taken: entry is what this block gets, and the
\* next block gets HAS_NEXT unless it is the last.
Take ==
    LET end == start + n - 1
    IN  /\ pc = "take" /\ i <= end
        /\ table' = [b \in Blocks |-> IF b = i THEN entry ELSE table[b]]
        /\ past' = past \cup ({i} \ Blocks)
        /\ entry' = {"TAKEN"} \cup (IF i # end - 1 THEN {"HAS_NEXT"} ELSE {})
        /\ i' = i + 1
        /\ UNCHANGED <<pc, bc, bs>>

\* An iteration of mark_blocks_free.
Free ==
    /\ pc = "free" /\ i < Total
    /\ table' = [b \in Blocks |-> IF b = i THEN {} ELSE table[b]]
    /\ IF "HAS_NEXT" \in table[i]
       THEN pc' = pc /\ i' = i + 1
       ELSE pc' = "done" /\ i' = i
    /\ UNCHANGED <<bc, bs, entry, past>>

\* The condition of the loop fails.
Exit ==
    /\ \/ pc \in {"scan", "free"} /\ i >= Total
       \/ pc = "take" /\ i > start + n - 1
    /\ pc' = "done"
    /\ UNCHANGED <<i, bc, bs, entry, table, past>>

LNext == (Scan \/ Take \/ Free \/ Exit) /\ UNCHANGED <<vars, op, n, start>>

LSpec == LInit /\ [][LNext]_allvars /\ WF_allvars(LNext)

----------------------------------------------------------------------------

LTypeOK ==
    /\ entries \in [Blocks -> SUBSET Flags]
    /\ table \in [Blocks -> SUBSET Flags]
    /\ op \in Loops
    /\ pc \in {op, "done"}
    /\ n \in Nat
    /\ start \in Blocks
    /\ i \in Nat
    /\ bc \in Nat
    /\ bs \in Blocks \cup {NoBlock}
    /\ entry \in SUBSET Flags
    /\ past \in SUBSET Nat

\* When a loop of heap.cpp ends, it has computed the outcome Heap gives it:
\* get_start_block the first fit or the free tail, mark_blocks_taken the marks
\* of the allocation, mark_blocks_free the release of the chain.
LoopsComputeHeap ==
    pc = "done" =>
        /\ op = "scan" => bs = StartBlock(n) /\ table = entries
        /\ op = "take" => table = MarkTaken(start, n) /\ past = PastTable(start, n)
        /\ op = "free" => table = MarkFree(start) /\ past = {}

\* Every loop ends (get_start_block and mark_blocks_free advance on every
\* path that does not leave the loop).
LoopsEnd == <>(pc = "done")
=============================================================================
