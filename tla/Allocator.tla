----------------------------- MODULE Allocator -----------------------------
(***************************************************************************)
(* What the kernel heap promises its callers: a table of the regions that  *)
(* are handed out, no two of which share a block.  A region is a run of    *)
(* blocks, named by its first block; held[b] is its length.  The promise   *)
(* lasts until a caller breaks the allocator (see `broken' in Heap); from  *)
(* then on nothing is promised.                                            *)
(*                                                                         *)
(* Nothing here says where a region lies beyond its first block: the heap  *)
(* of the kernel hands out regions that run over the end of its memory.    *)
(***************************************************************************)
EXTENDS Integers

CONSTANT Blocks             \* the blocks a region may start in

VARIABLES held, broken

avars == <<held, broken>>

\* The blocks of a region of n blocks that starts at b.
Span(b, n) == b .. (b + n - 1)

AInit == /\ held = [b \in {} |-> 0]
         /\ broken = FALSE

\* A region is handed out: it overlaps no region handed out before.
Grant == \E b \in Blocks \cap DOMAIN held' : LET n == held'[b] IN
    /\ n \in Nat \ {0}
    /\ \A c \in DOMAIN held : Span(b, n) \cap Span(c, held[c]) = {}
    /\ held' = [c \in DOMAIN held \cup {b} |-> IF c = b THEN n ELSE held[c]]

\* A region is given back; the others keep their place and their length.
Release == \E b \in DOMAIN held :
    held' = [c \in DOMAIN held \ {b} |-> held[c]]

ANext == \/ ~broken' /\ (Grant \/ Release)
         \/ broken'

ASpec == AInit /\ [][ANext]_avars

----------------------------------------------------------------------------

\* No two regions that are handed out share a block.
Exclusive == broken \/ \A b, c \in DOMAIN held :
    b # c => Span(b, held[b]) \cap Span(c, held[c]) = {}
=============================================================================
