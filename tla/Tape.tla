-------------------------------- MODULE Tape --------------------------------
(***************************************************************************)
(* What the terminal promises: a tape of characters.  A character is added *)
(* at its end; a new line fills the row with blanks; a backspace takes the *)
(* last character away, blanks included.  When the screen is full the      *)
(* first row of the tape is lost.                                          *)
(***************************************************************************)
EXTENDS Integers, Sequences

CONSTANTS Width, Height, Chars, NewLine, Backspace, Blank

VARIABLE tape

\* What is left of a tape on the screen.
Fit(t) == IF Len(t) = Width * Height THEN SubSeq(t, Width + 1, Len(t)) ELSE t

RowEnd == Width * ((Len(tape) \div Width) + 1)

TInit == tape = << >>

TAdd(c) == tape' = Fit(Append(tape, c))

TNewLine == tape' = Fit([i \in 1 .. RowEnd |-> IF i <= Len(tape) THEN tape[i] ELSE Blank])

TBackspace == tape' = IF tape = << >> THEN tape ELSE SubSeq(tape, 1, Len(tape) - 1)

TNext == (\E c \in Chars : TAdd(c)) \/ TNewLine \/ TBackspace

TSpec == TInit /\ [][TNext]_tape
=============================================================================
