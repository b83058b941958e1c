------------------------------- MODULE Calls -------------------------------
(***************************************************************************)
(* What system() and exit() promise a user program.  A program that calls  *)
(* system() is suspended until the program it named has ended, and then    *)
(* goes on itself; one program runs at a time.  The promise lasts until    *)
(* the machine is halted.                                                  *)
(***************************************************************************)
CONSTANT Slots

VARIABLES
    running,        \* the process that runs
    caller,         \* the process each called process returns to
    halted

cvars == <<running, caller, halted>>

CInit == /\ running \in Slots
         /\ caller = [s \in {} |-> running]
         /\ halted = FALSE

Active == DOMAIN caller \cup {running}

\* A new process runs, and will return to the one that called it.
Call(s) ==
    /\ s \notin Active \cup {caller[c] : c \in DOMAIN caller}
    /\ caller' = [c \in DOMAIN caller \cup {s} |->
                    IF c = s THEN running ELSE caller[c]]
    /\ running' = s

\* The process that runs ends, and its caller goes on.
Return ==
    /\ running \in DOMAIN caller
    /\ running' = caller[running]
    /\ caller' = [c \in DOMAIN caller \ {running} |-> caller[c]]

CNext == \/ ~halted' /\ ((\E s \in Slots : Call(s)) \/ Return)
         \/ halted'

CSpec == CInit /\ [][CNext]_cvars
=============================================================================
