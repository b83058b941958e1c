------------------------------ MODULE Terminal ------------------------------
(***************************************************************************)
(* os/terminal/terminal.cpp: the cells of the text screen and the place of *)
(* the next character.  A cell holds a character; its colours are left     *)
(* out.                                                                    *)
(***************************************************************************)
EXTENDS Integers, Sequences

CONSTANTS
    Width, Height,  \* VGA_WIDTH and VGA_HEIGHT
    Chars, NewLine, Backspace,
    Blank           \* a cell of 0

ASSUME TerminalAssumption ==
    /\ Width \in Nat \ {0} /\ Height \in Nat \ {0}
    /\ NewLine \notin Chars /\ Backspace \notin Chars /\ NewLine # Backspace

VARIABLES cells, x, y

tvars == <<cells, x, y>>

Cells == 0 .. (Width * Height - 1)

TermInit == /\ cells = [c \in Cells |-> Blank]
            /\ x = 0 /\ y = 0

\* Mutant of Scrolled: the last row is not cleared.
ScrolledOnly(screen) ==
    [c \in Cells |-> IF c < Width * (Height - 1) THEN screen[c + Width] ELSE screen[c]]

Scrolled(screen) ==
    [c \in Cells |-> IF c < Width * (Height - 1) THEN screen[c + Width] ELSE Blank]

\* update_cursor, from a column.
UpdateCursor(screen, column) ==
    /\ x' = (column + 1) % Width
    /\ \/ /\ y = Height - 1 /\ x' = 0
          /\ cells' = Scrolled(screen)
          /\ y' = y
       \/ /\ ~(y = Height - 1 /\ x' = 0)
          /\ cells' = screen
          /\ y' = (IF x' = 0 THEN y + 1 ELSE y) % Height

Put(c) == UpdateCursor([cells EXCEPT ![Width * y + x] = c], x)

StartLine == UpdateCursor(cells, Width - 1)

EraseLast ==
    \/ x = 0 /\ y = 0 /\ UNCHANGED tvars
    \/ /\ ~(x = 0 /\ y = 0)
       /\ x' = (x - 1 + Width) % Width
       /\ y' = ((IF x' = Width - 1 THEN y - 1 ELSE y) + Height) % Height
       /\ cells' = [cells EXCEPT ![Width * y' + x'] = Blank]

\* terminal::print of a character.
PrintChar(c) ==
    \/ c = NewLine /\ StartLine
    \/ c = Backspace /\ EraseLast
    \/ c \in Chars /\ Put(c)

TermNext == \E c \in Chars \cup {NewLine, Backspace} : PrintChar(c)

TermSpec == TermInit /\ [][TermNext]_tvars

----------------------------------------------------------------------------
(* Properties.                                                             *)

TermTypeOK ==
    /\ cells \in [Cells -> Chars \cup {Blank}]
    /\ x \in 0 .. (Width - 1) /\ y \in 0 .. (Height - 1)

Cursor == Width * y + x

\* There is nothing at the cursor or after it.
BlankBeyond == \A c \in Cells : c >= Cursor => cells[c] = Blank

\* The terminal is a tape of characters: the cells in front of the cursor.
Shown == [i \in 1 .. Cursor |-> cells[i - 1]]

Screen == INSTANCE Tape WITH tape <- Shown

TapeRefinement == Screen!TSpec
=============================================================================
