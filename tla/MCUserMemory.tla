---------------------------- MODULE MCUserMemory ----------------------------
(* Pages of two bytes: two below everything, one for a stack, three for a   *)
(* program, and the heap from 6 on.  "sparse" has a bss that its file is    *)
(* too short for.                                                           *)
EXTENDS UserMemory

MCPrograms == {"shell", "user", "sparse"}

MCFileSize == [shell |-> 3, user |-> 2, sparse |-> 3]

Header(vaddr, offset, memsz, writable) ==
    [vaddr |-> vaddr, offset |-> offset, memsz |-> memsz, writable |-> writable]

MCSegments == [shell  |-> <<Header(6, 0, 2, FALSE), Header(8, 2, 1, TRUE)>>,
               user   |-> <<Header(6, 0, 2, TRUE)>>,
               sparse |-> <<Header(6, 0, 2, FALSE), Header(8, 2, 3, TRUE)>>]

MCSizes == {1, 3}
=============================================================================
