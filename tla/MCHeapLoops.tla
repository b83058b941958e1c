---------------------------- MODULE MCHeapLoops ----------------------------
(* Every table of three blocks, whatever its marks, and every call on it    *)
(* with up to four blocks, one more than the table has.                     *)
EXTENDS HeapLoops

MCCounts == 0 .. 4
=============================================================================
