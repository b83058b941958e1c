----------------------------- MODULE OpenFiles -----------------------------
(***************************************************************************)
(* What a program may count on of the file calls.  One file is open in the *)
(* system: the last that was opened, with one position, which every holder *)
(* of a descriptor moves.  It is closed by the first of them that closes,  *)
(* and by every load; a holder that uses its descriptor then may do        *)
(* anything to the system.  A read that is served (see Fat16) returns the  *)
(* bytes of the file at the position and leaves the position alone; a      *)
(* program is loaded from exactly the bytes of its file.  Nothing is said  *)
(* of the other reads, except that they leave the open file as it is.      *)
(*                                                                         *)
(* So a program has the file it opened, where it left it, for as long as   *)
(* no other opens, closes, seeks or is loaded.                             *)
(***************************************************************************)
EXTENDS Fat16

CONSTANTS Programs, NoFile

VARIABLES
    current,        \* the open file and the position in it
    holders,        \* the programs that hold a descriptor
    reply,          \* the last call and its answer
    hung            \* the system waits for good

ovars == <<current, holders, reply, hung>>

OInit == /\ current = NoFile /\ holders = {}
         /\ reply.call = "none"
         /\ hung = FALSE

Exactly(f, pos, n) == reply'.bytes = FileBytes(f, pos, n)

OOpen(p) ==
    /\ p \notin holders /\ reply'.call = "open" /\ reply'.file \in Files
    /\ current' = [file |-> reply'.file, pos |-> 0]
    /\ holders' = holders \cup {p}
    /\ hung' = hung

\* The calls of a holder while a file is open.
Uses(p, call) == p \in holders /\ current # NoFile /\ reply'.call = call

OClose(p) ==
    /\ Uses(p, "close")
    /\ current' = NoFile /\ holders' = holders \ {p}
    /\ hung' = hung

OSeek(p) ==
    /\ Uses(p, "seek")
    /\ \E offset \in 0 .. (FileSize[current.file] - 1) :
         \E to \in {offset, current.pos + offset} :
           current' = [current EXCEPT !.pos = to]
    /\ UNCHANGED <<holders, hung>>

ORead(p) ==
    /\ Uses(p, "read")
    /\ Served(current.file, current.pos, reply'.size, reply'.count) =>
         /\ reply'.status = reply'.count
         /\ Exactly(current.file, current.pos, reply'.size * reply'.count)
         /\ hung' = hung
    /\ UNCHANGED <<current, holders>>

OStat(p) ==
    /\ Uses(p, "stat")
    /\ reply'.status = 0 /\ reply'.size = FileSize[current.file]
    /\ UNCHANGED <<current, holders, hung>>

\* A program that ends closes nothing.
OEnd(p) ==
    /\ p \in holders /\ reply'.call = "exit"
    /\ holders' = holders \ {p}
    /\ UNCHANGED <<current, hung>>

OWild(p) ==
    /\ p \in holders /\ current = NoFile /\ reply'.call = "wild"
    /\ UNCHANGED <<current, holders, hung>>

OLoad ==
    /\ \/ /\ reply'.call = "load" /\ reply'.file \in Files
          /\ FileSize[reply'.file] \in 1 .. ClusterSize =>
               /\ reply'.status = 1
               /\ Exactly(reply'.file, 0, FileSize[reply'.file])
               /\ hung' = hung
       \/ reply'.call = "unloaded" /\ hung' = hung
    /\ current' = NoFile
    /\ UNCHANGED holders

ORefused == /\ reply'.call = "refused" /\ UNCHANGED <<current, holders, hung>>

ONext == \/ \E p \in Programs : \/ OOpen(p) \/ OClose(p) \/ OSeek(p) \/ ORead(p)
                                \/ OStat(p) \/ OEnd(p) \/ OWild(p)
         \/ OLoad \/ ORefused

OSpec == OInit /\ [][ONext]_ovars
=============================================================================
