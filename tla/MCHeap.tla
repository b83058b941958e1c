------------------------------- MODULE MCHeap -------------------------------
(* A heap of five blocks of two bytes at 9 .. 18, behind its table at 3 .. 7,*)
(* with a size_t of five bits.  Sizes of 0 and 31 bytes come to no blocks,  *)
(* the second by overflow; 1, 3, 5 and 7 bytes to 1 to 4 blocks; 23 bytes   *)
(* to more than there are.  A refused kzalloc of 7 bytes clears the first   *)
(* four entries of the table, one of 23 bytes that is given the free tail   *)
(* from block 3 on the first three.                                         *)
EXTENDS Heap

MCSizes == {0, 1, 3, 5, 7, 23, 31}
=============================================================================
