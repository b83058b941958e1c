------------------------------ MODULE MCFiles ------------------------------
(* A disk of 19 sectors of two bytes: the boot sector, a table of seven     *)
(* entries, the root directory, and from sector 9 on clusters of two        *)
(* sectors.  The entries that get_entry looks at are at 16, 24, 32 and 40:  *)
(* in the root directory, in the file "long" itself, in "short", and past   *)
(* the end of the disk.                                                     *)
EXTENDS Files

MCChain == [short |-> <<5>>, long |-> <<3, 6>>, other |-> <<4, 2>>, empty |-> << >>]

MCFiles == DOMAIN MCChain

MCFileSize == [short |-> 3, long |-> 7, other |-> 6, empty |-> 0]

\* The table at 2 .. 15; a word of 0 in "long"; in "short", the number of a
\* cluster of another file.
MCWordAt == [address \in 0 .. 255 |->
    CASE address = 8 -> 6 [] address = 10 -> 2
      [] address \in {6, 12, 14} -> 65535
      [] address = 24 -> 0 [] address = 32 -> 3 [] OTHER -> 1]

\* A name that is the beginning of another may find its file: what follows the
\* name in get_item_in_directory's buffer is left from the last search.
MCNames == {"short", "long", "lo", "other", "empty"}

MCFinds == [n \in MCNames |-> IF n = "lo" THEN {"long"} ELSE {n}]

MCRequests == {<<0, 1>>, <<1, 3>>, <<3, 1>>, <<6, 1>>}

MCOffsets == {1, 5}
=============================================================================
