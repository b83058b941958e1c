--------------------------- MODULE ConsoleProofs ---------------------------
(***************************************************************************)
(* Proofs about Console, for a screen, a line and a queue of any size.     *)
(*                                                                         *)
(* The screen: nothing stands at the cursor or after it, and so it is the  *)
(* tape that Tape promises.  The cursor is treated as one number, the      *)
(* length of the tape.  Every step that moves it on is update_cursor from  *)
(* some column: it makes the tape longer, or, when it would be as long as  *)
(* the screen, shorter by the row that is lost (AdvanceTo); what is seen   *)
(* then is the fitted tape (SeenIsFitted).                                 *)
(*                                                                         *)
(* The boot: a stage is past another just when it is one of a set of names *)
(* (Passed), and so each conjunct of BootInv is checked name by name.      *)
(*                                                                         *)
(* The shell: the tape ends with the prompt and the line (EchoInv), also   *)
(* while a key is about to be echoed; a character that is printed or taken *)
(* back adds or removes the last one of that ending (PrintedEnding,        *)
(* ErasedEnding), just as it edits the line (EditedLine).  With no end of  *)
(* a string in front of i (ShellInv), the line is what Typing calls text.  *)
(***************************************************************************)
EXTENDS Console, TLAPS

\* The first n cells of a screen, as a sequence.
Seen(screen, n) == [k \in 1 .. n |-> screen[k - 1]]

----------------------------------------------------------------------------
(* Rows and columns.                                                       *)

\* A place on the screen is a cell.
LEMMA PlaceIsCell ==
    ASSUME NEW r \in 0 .. (Height - 1), NEW c \in 0 .. (Width - 1)
    PROVE  /\ Width * r + c \in Cells
           /\ Width * r + c + 1 <= Width * Height
           /\ Width * r + c + 1 = Width * Height <=> r = Height - 1 /\ c = Width - 1
<1>1. Width * (Height - 1) = Width * Height - Width /\ Width * Height \in Nat
  BY TerminalAssumption
<1>2. CASE r = Height - 1
  BY <1>1, <1>2, TerminalAssumption DEF Cells
<1>3. CASE r < Height - 1
  <2>1. Width * (r + 1) = Width * r + Width /\ Width * r \in Nat
    BY TerminalAssumption
  <2>2. Width * (r + 1) <= Width * (Height - 1)
    <3> DEFINE gap == Height - 1 - (r + 1)
    <3>1. gap \in Nat /\ Width * gap \in Nat
      BY <1>3, TerminalAssumption
    <3>2. Width * (Height - 1) = Width * (r + 1) + Width * gap
      BY TerminalAssumption
    <3> QED BY <3>1, <3>2, <2>1, <1>1, TerminalAssumption
  <2> QED BY <1>1, <1>3, <2>1, <2>2, TerminalAssumption DEF Cells
<1> QED BY <1>2, <1>3, TerminalAssumption

\* The remainder of the next column.
LEMMA NextColumn ==
    ASSUME NEW n \in Nat \ {0}, NEW c \in 0 .. (n - 1)
    PROVE  (c + 1) % n = IF c = n - 1 THEN 0 ELSE c + 1
BY SMT

\* The remainders of the place before.
LEMMA ColumnBefore ==
    ASSUME NEW n \in Nat \ {0}, NEW c \in 0 .. (n - 1)
    PROVE  (c - 1 + n) % n = IF c = 0 THEN n - 1 ELSE c - 1
<1>1. CASE c = 0
  BY <1>1
<1>2. CASE c > 0
  <2>1. c - 1 \in 0 .. (n - 1) /\ c - 1 + n = n * 1 + (c - 1)
    BY <1>2
  <2> QED BY <1>2, <2>1
<1> QED BY <1>1, <1>2

\* The row of a place.
LEMMA RowOf ==
    ASSUME NEW r \in 0 .. (Height - 1), NEW c \in 0 .. (Width - 1)
    PROVE  (Width * r + c) \div Width = r
<1> DEFINE n == Width * r + c
           d == n \div Width
<1>1. n \in Nat /\ Width * r \in Nat /\ r \in Nat /\ c \in Nat
  BY TerminalAssumption
<1>2. d \in Nat /\ Width * d <= n /\ n < Width * (d + 1)
  BY <1>1, TerminalAssumption
<1> HIDE DEF d
<1>3. ASSUME d < r PROVE FALSE
  <2>1. r - (d + 1) \in Nat /\ Width * (r - (d + 1)) \in Nat
    BY <1>1, <1>2, <1>3, TerminalAssumption
  <2>2. Width * r = Width * (d + 1) + Width * (r - (d + 1))
    BY <1>1, <1>2, TerminalAssumption
  <2>3. Width * (d + 1) \in Nat
    BY <1>2, TerminalAssumption
  <2> QED BY <1>1, <1>2, <2>1, <2>2, <2>3, TerminalAssumption
<1>4. ASSUME d > r PROVE FALSE
  <2>1. d - (r + 1) \in Nat /\ Width * (d - (r + 1)) \in Nat
    BY <1>1, <1>2, <1>4, TerminalAssumption
  <2>2. Width * d = Width * r + Width + Width * (d - (r + 1))
    BY <1>1, <1>2, TerminalAssumption
  <2>3. Width * d \in Nat
    BY <1>2, TerminalAssumption
  <2> QED BY <1>1, <1>2, <2>1, <2>2, <2>3, TerminalAssumption
<1>5. d \in Nat
  BY <1>2
<1>6. d = r
  BY <1>1, <1>3, <1>4, <1>5
<1> QED BY <1>6 DEF d

----------------------------------------------------------------------------
(* The cursor.                                                             *)

\* update_cursor from a column: the tape is a character longer than what
\* ended at that column, and loses its first row when that fills the screen.
AdvanceTo(screen, n) ==
    /\ x' \in 0 .. (Width - 1) /\ y' \in 0 .. (Height - 1)
    /\ n \in 1 .. (Width * Height)
    /\ n < Width * Height => Cursor' = n /\ cells' = screen
    /\ n = Width * Height => Cursor' = n - Width /\ cells' = Scrolled(screen)

LEMMA Advance ==
    ASSUME y \in 0 .. (Height - 1), NEW column \in 0 .. (Width - 1), NEW screen,
           UpdateCursor(screen, column)
    PROVE  AdvanceTo(screen, Width * y + column + 1)
<1> DEFINE n == Width * y + column + 1
<1>1. x' = IF column = Width - 1 THEN 0 ELSE column + 1
  BY NextColumn, TerminalAssumption DEF UpdateCursor
<1>2. /\ n \in Nat \ {0} /\ n <= Width * Height /\ Width * Height \in Nat
      /\ n = Width * Height <=> y = Height - 1 /\ column = Width - 1
      /\ Width * y \in Nat
  BY PlaceIsCell, TerminalAssumption
<1>3. CASE y = Height - 1 /\ column = Width - 1
  <2>1. x' = 0 /\ y' = y /\ cells' = Scrolled(screen)
    BY <1>1, <1>3 DEF UpdateCursor
  <2>2. Cursor' = Width * y
    BY <2>1, <1>2, TerminalAssumption DEF Cursor
  <2> QED BY <1>2, <1>3, <2>1, <2>2, TerminalAssumption DEF AdvanceTo
<1>4. CASE ~(y = Height - 1 /\ column = Width - 1)
  <2>1. /\ cells' = screen
        /\ y' = (IF column = Width - 1 THEN y + 1 ELSE y) % Height
    BY <1>1, <1>4, TerminalAssumption DEF UpdateCursor
  <2>2. y' = IF column = Width - 1 THEN y + 1 ELSE y
    BY <1>4, <2>1, TerminalAssumption
  <2>3. Width * (y + 1) = Width * y + Width
    BY TerminalAssumption
  <2>4. Cursor' = n
    BY <1>1, <1>2, <2>2, <2>3, TerminalAssumption DEF Cursor
  <2>5. x' \in 0 .. (Width - 1) /\ y' \in 0 .. (Height - 1)
    BY <1>1, <1>4, <2>2, TerminalAssumption
  <2> QED BY <1>2, <1>4, <2>1, <2>4, <2>5 DEF AdvanceTo
<1> QED BY <1>3, <1>4

----------------------------------------------------------------------------
(* The invariant.                                                          *)

Screens == [Cells -> Chars \cup {Blank}]

\* A screen that is blank from n on stays so, one row up, when it scrolls.
LEMMA ScrolledBlank ==
    ASSUME NEW screen \in Screens, NEW n \in 1 .. (Width * Height),
           \A c \in Cells : c >= n => screen[c] = Blank, AdvanceTo(screen, n)
    PROVE  TermTypeOK' /\ BlankBeyond'
<1>0. Width * (Height - 1) = Width * Height - Width /\ Width * Height \in Nat
  BY TerminalAssumption
<1>1. CASE n < Width * Height
  BY <1>1 DEF AdvanceTo, TermTypeOK, BlankBeyond, Screens
<1>2. CASE n = Width * Height
  <2>1. \A c \in Cells : c < Width * (Height - 1) => c + Width \in Cells
    BY <1>0, TerminalAssumption DEF Cells
  <2>2. Scrolled(screen) \in Screens
    BY <2>1 DEF Scrolled, Screens
  <2>3. \A c \in Cells : c >= n - Width => Scrolled(screen)[c] = Blank
    BY <1>0, <1>2, TerminalAssumption DEF Scrolled, Cells
  <2> QED BY <1>2, <2>2, <2>3 DEF AdvanceTo, TermTypeOK, BlankBeyond, Screens
<1> QED BY <1>1, <1>2, <1>0

\* Where the cursor is after a backspace: one cell back.
LEMMA Back ==
    ASSUME TermTypeOK, EraseLast, ~(x = 0 /\ y = 0)
    PROVE  /\ x' \in 0 .. (Width - 1) /\ y' \in 0 .. (Height - 1)
           /\ Cursor \in Cells /\ Cursor - 1 \in Cells
           /\ Cursor' = Cursor - 1
           /\ cells' = [cells EXCEPT ![Cursor - 1] = Blank]
<1> USE TerminalAssumption
<1>1. x' = IF x = 0 THEN Width - 1 ELSE x - 1
  BY ColumnBefore DEF EraseLast, TermTypeOK
<1>2. /\ y' = ((IF x' = Width - 1 THEN y - 1 ELSE y) + Height) % Height
      /\ cells' = [cells EXCEPT ![Width * y' + x'] = Blank]
  BY DEF EraseLast
<1>3. x' = Width - 1 <=> x = 0
  BY <1>1 DEF TermTypeOK
<1>4. y' = IF x = 0 THEN y - 1 ELSE y
  <2>1. CASE x = 0
    <3>1. y \in 0 .. (Height - 1) /\ y # 0
      BY <2>1 DEF TermTypeOK
    <3>2. (y - 1 + Height) % Height = y - 1
      BY <3>1, ColumnBefore
    <3> QED BY <1>2, <1>3, <2>1, <3>2
  <2>2. CASE x # 0
    <3>1. y \in 0 .. (Height - 1)
      BY DEF TermTypeOK
    <3>2. CASE y = Height - 1
      BY <1>2, <1>3, <2>2, <3>1, <3>2
    <3>3. CASE y < Height - 1
      <4>1. (y + 1 - 1 + Height) % Height = y
        BY <3>1, <3>3, ColumnBefore
      <4> QED BY <1>2, <1>3, <2>2, <3>1, <3>3, <4>1
    <3> QED BY <3>1, <3>2, <3>3
  <2> QED BY <2>1, <2>2
<1>5. Width * (y - 1) = Width * y - Width /\ Width * y \in Nat
  BY DEF TermTypeOK
<1>6. Width * y' + x' = Cursor - 1
  BY <1>1, <1>4, <1>5 DEF TermTypeOK, Cursor
<1>7. x' \in 0 .. (Width - 1) /\ y' \in 0 .. (Height - 1)
  BY <1>1, <1>4 DEF TermTypeOK
<1>8. Cursor \in Cells
  BY PlaceIsCell DEF TermTypeOK, Cursor
<1>9. Cursor - 1 \in Cells
  BY <1>6, <1>7, PlaceIsCell
<1> QED BY <1>2, <1>6, <1>7, <1>8, <1>9 DEF Cursor

ScreenInv == TermTypeOK /\ BlankBeyond

LEMMA InitEstablishes == TermInit => ScreenInv
BY TerminalAssumption DEF TermInit, ScreenInv, TermTypeOK, BlankBeyond

\* The screen of a step that advances the cursor, and the length it advances
\* to: both characters and new lines, which start from the end of the row.
LEMMA PutAdvances ==
    ASSUME ScreenInv, NEW c \in Chars, Put(c)
    PROVE  /\ [cells EXCEPT ![Cursor] = c] \in Screens
           /\ \A k \in Cells : k >= Cursor + 1 => [cells EXCEPT ![Cursor] = c][k] = Blank
           /\ AdvanceTo([cells EXCEPT ![Cursor] = c], Cursor + 1)
<1>1. Cursor \in Cells
  BY PlaceIsCell DEF ScreenInv, TermTypeOK, Cursor
<1>2. AdvanceTo([cells EXCEPT ![Cursor] = c], Width * y + x + 1)
  BY Advance DEF Put, ScreenInv, TermTypeOK, Cursor
<1> QED BY <1>1, <1>2, TerminalAssumption DEF ScreenInv, TermTypeOK, BlankBeyond, Screens, Cursor, Cells

LEMMA StartLineAdvances ==
    ASSUME ScreenInv, StartLine
    PROVE  /\ cells \in Screens
           /\ \A k \in Cells : k >= Width * y + Width => cells[k] = Blank
           /\ AdvanceTo(cells, Width * y + Width)
<1>1. AdvanceTo(cells, Width * y + (Width - 1) + 1)
  BY Advance, TerminalAssumption DEF StartLine, ScreenInv, TermTypeOK
<1>2. Width * y \in Nat /\ Width * y + (Width - 1) + 1 = Width * y + Width
  BY TerminalAssumption DEF ScreenInv, TermTypeOK
<1> QED BY <1>1, <1>2, TerminalAssumption DEF ScreenInv, TermTypeOK, BlankBeyond, Screens, Cursor, Cells

LEMMA StepPreserves == ScreenInv /\ [TermNext]_tvars => ScreenInv'
<1> SUFFICES ASSUME ScreenInv, [TermNext]_tvars PROVE ScreenInv'
  OBVIOUS
<1>1. ASSUME NEW c \in Chars, Put(c) PROVE ScreenInv'
  <2>1. Cursor + 1 \in 1 .. (Width * Height)
    BY <1>1, PutAdvances DEF AdvanceTo
  <2> HIDE DEF Cursor
  <2> QED BY <1>1, <2>1, PutAdvances, ScrolledBlank DEF ScreenInv
<1>2. ASSUME StartLine PROVE ScreenInv'
  <2>1. Width * y + Width \in 1 .. (Width * Height)
    BY <1>2, StartLineAdvances DEF AdvanceTo
  <2> QED BY <1>2, <2>1, StartLineAdvances, ScrolledBlank DEF ScreenInv
<1>3. ASSUME EraseLast, ~(x = 0 /\ y = 0) PROVE ScreenInv'
  <2>1. /\ Cursor' = Cursor - 1 /\ Cursor - 1 \in Cells /\ Cursor \in Cells
        /\ cells' = [cells EXCEPT ![Cursor - 1] = Blank]
        /\ x' \in 0 .. (Width - 1) /\ y' \in 0 .. (Height - 1)
    BY <1>3, Back DEF ScreenInv
  <2>2. \A k \in Cells : k >= Cursor - 1 => cells'[k] = Blank
    BY <2>1, TerminalAssumption DEF ScreenInv, TermTypeOK, BlankBeyond, Cells
  <2> QED BY <2>1, <2>2 DEF ScreenInv, TermTypeOK, BlankBeyond
<1>4. CASE UNCHANGED tvars
  BY <1>4 DEF ScreenInv, TermTypeOK, BlankBeyond, Cursor, tvars
<1>5. ASSUME EraseLast, x = 0, y = 0 PROVE ScreenInv'
  <2>1. UNCHANGED tvars
    BY <1>5 DEF EraseLast
  <2> QED BY <2>1, <1>4
<1> QED BY <1>1, <1>2, <1>3, <1>4, <1>5 DEF TermNext, PrintChar

\* Nothing is ever on the screen at the cursor or after it, and the cursor and
\* the cells are well typed: writing, new lines, backspaces and scrolling.
THEOREM ScreenInvariant == TermSpec => [](TermTypeOK /\ BlankBeyond)
<1>1. TermSpec => []ScreenInv
  BY InitEstablishes, StepPreserves, PTL DEF TermSpec
<1> QED BY <1>1, PTL DEF ScreenInv

----------------------------------------------------------------------------
(* The terminal implements Tape.                                           *)

\* What is seen of a screen once it has scrolled is the fitted tape.
LEMMA SeenIsFitted ==
    ASSUME NEW screen \in Screens, NEW n \in 1 .. (Width * Height), AdvanceTo(screen, n)
    PROVE  Shown' = Screen!Fit(Seen(screen, n))
<1>0. Width * (Height - 1) = Width * Height - Width /\ Width * Height \in Nat
  BY TerminalAssumption
<1>1. Shown' = Seen(cells', Cursor')
  BY DEF Shown, Seen
<1>2. Len(Seen(screen, n)) = n /\ Seen(screen, n) \in Seq(Chars \cup {Blank})
  <2>1. \A k \in 1 .. n : k - 1 \in Cells
    BY <1>0 DEF Cells
  <2> QED BY <2>1 DEF Seen, Screens
<1>3. CASE n < Width * Height
  BY <1>1, <1>2, <1>3 DEF AdvanceTo, Screen!Fit
<1>4. CASE n = Width * Height
  <2>1. Cursor' = n - Width /\ cells' = Scrolled(screen) /\ n - Width \in Nat
    BY <1>0, <1>4, TerminalAssumption DEF AdvanceTo
  <2>2. Screen!Fit(Seen(screen, n)) = SubSeq(Seen(screen, n), Width + 1, n)
    BY <1>2, <1>4 DEF Screen!Fit
  <2>3. SubSeq(Seen(screen, n), Width + 1, n)
           = [k \in 1 .. (n - Width) |-> Seen(screen, n)[k + Width]]
    BY <1>2, <2>1, TerminalAssumption
  <2>4. ASSUME NEW k \in 1 .. (n - Width)
        PROVE  Seen(screen, n)[k + Width] = Scrolled(screen)[k - 1]
    <3>0. \A m \in 1 .. n : Seen(screen, n)[m] = screen[m - 1]
      BY DEF Seen
    <3>1. /\ k + Width \in 1 .. n /\ k - 1 \in Cells /\ k - 1 < Width * (Height - 1)
          /\ k + Width - 1 = k - 1 + Width
      BY <1>0, <1>4, TerminalAssumption DEF Cells
    <3>2. Seen(screen, n)[k + Width] = screen[k + Width - 1]
      BY <3>0, <3>1, TerminalAssumption
    <3>3. Scrolled(screen)[k - 1] = screen[k - 1 + Width]
      BY <3>1 DEF Scrolled
    <3> QED BY <3>1, <3>2, <3>3
  <2>5. Seen(Scrolled(screen), n - Width)
           = [k \in 1 .. (n - Width) |-> Scrolled(screen)[k - 1]]
    BY DEF Seen
  <2> QED BY <1>1, <2>1, <2>2, <2>3, <2>4, <2>5
<1> QED BY <1>3, <1>4, <1>0

LEMMA ShownIsSeen ==
    ASSUME ScreenInv
    PROVE  /\ Shown = Seen(cells, Cursor) /\ Cursor \in Cells
           /\ Shown \in Seq(Chars \cup {Blank}) /\ Len(Shown) = Cursor
<1>1. Cursor \in Cells
  BY PlaceIsCell DEF ScreenInv, TermTypeOK, Cursor
<1>2. \A k \in 1 .. Cursor : k - 1 \in Cells
  BY <1>1, TerminalAssumption DEF Cells
<1>3. \A k \in 1 .. Cursor : cells[k - 1] \in Chars \cup {Blank}
  BY <1>2 DEF ScreenInv, TermTypeOK
<1>4. Cursor \in Nat
  BY <1>1, TerminalAssumption DEF Cells
<1> HIDE DEF Cursor
<1> QED BY <1>1, <1>3, <1>4 DEF Shown, Seen

\* A character is added to the tape.
LEMMA PutAdds == ASSUME ScreenInv, NEW c \in Chars, Put(c) PROVE Screen!TAdd(c)
<1> DEFINE screen == [cells EXCEPT ![Cursor] = c]
<1>1. /\ screen \in Screens /\ AdvanceTo(screen, Cursor + 1)
      /\ Cursor + 1 \in 1 .. (Width * Height)
  BY PutAdvances DEF AdvanceTo
<1>2. Shown' = Screen!Fit(Seen(screen, Cursor + 1))
  <2> HIDE DEF screen, Cursor
  <2> QED BY <1>1, SeenIsFitted
<1>3. Seen(screen, Cursor + 1) = Append(Shown, c)
  <2>1. /\ Cursor \in Nat /\ Cursor \in Cells /\ cells \in Screens
        /\ Shown = Seen(cells, Cursor) /\ Shown \in Seq(Chars \cup {Blank})
        /\ Len(Shown) = Cursor
    BY ShownIsSeen, TerminalAssumption DEF ScreenInv, TermTypeOK, Screens, Cells
  <2>2. \A k \in 1 .. Cursor : k - 1 \in Cells /\ k - 1 # Cursor
    BY <2>1, TerminalAssumption DEF Cells
  <2> HIDE DEF Cursor
  <2>3. Append(Shown, c) = [k \in 1 .. (Cursor + 1) |-> IF k = Cursor + 1 THEN c ELSE Shown[k]]
    <3> HIDE DEF screen
    <3> DEFINE appended == Append(Shown, c)
    <3>1. /\ appended \in Seq(Chars \cup {Blank}) /\ Len(appended) = Cursor + 1
          /\ \A k \in 1 .. Cursor : appended[k] = Shown[k]
          /\ appended[Cursor + 1] = c
      BY <2>1
    <3> HIDE DEF appended
    <3>4. appended \in [1 .. (Cursor + 1) -> Chars \cup {Blank}]
      BY <2>1, <3>1
    <3>2. appended = [k \in 1 .. (Cursor + 1) |-> appended[k]]
      BY <3>4
    <3>3. \A k \in 1 .. (Cursor + 1) : appended[k] = IF k = Cursor + 1 THEN c ELSE Shown[k]
      BY <2>1, <3>1
    <3> QED BY <3>2, <3>3 DEF appended
  <2>4. ASSUME NEW k \in 1 .. (Cursor + 1)
        PROVE  screen[k - 1] = IF k = Cursor + 1 THEN c ELSE Shown[k]
    <3>1. CASE k = Cursor + 1
      BY <2>1, <3>1 DEF Screens
    <3>2. CASE k # Cursor + 1
      <4>1. k \in 1 .. Cursor
        BY <2>1, <3>2
      <4>2. screen[k - 1] = cells[k - 1]
        BY <2>1, <2>2, <4>1 DEF Screens
      <4>3. Shown[k] = cells[k - 1]
        BY <2>1, <4>1 DEF Seen
      <4> QED BY <3>2, <4>2, <4>3
    <3> QED BY <3>1, <3>2
  <2> QED BY <2>3, <2>4 DEF Seen
<1> QED BY <1>2, <1>3 DEF Screen!TAdd

\* A new line fills the row with blanks, which are on the screen already.
LEMMA StartLineFills == ASSUME ScreenInv, StartLine PROVE Screen!TNewLine
<1> DEFINE n == Width * y + Width
<1>1. cells \in Screens /\ AdvanceTo(cells, n) /\ n \in 1 .. (Width * Height)
  BY StartLineAdvances DEF AdvanceTo
<1>2. Shown' = Screen!Fit(Seen(cells, n))
  <2> HIDE DEF n
  <2> QED BY <1>1, SeenIsFitted
<1>3. /\ Cursor \in Nat /\ Cursor < n
      /\ Shown = Seen(cells, Cursor) /\ Len(Shown) = Cursor
  <2>1. Width * y \in Nat
    BY TerminalAssumption DEF ScreenInv, TermTypeOK
  <2> QED BY <2>1, ShownIsSeen, TerminalAssumption DEF ScreenInv, TermTypeOK, Cursor, Cells
<1>4. Screen!RowEnd = n
  <2>1. Cursor \div Width = y
    BY RowOf DEF ScreenInv, TermTypeOK, Cursor
  <2>2. Width * (y + 1) = n
    BY TerminalAssumption DEF ScreenInv, TermTypeOK
  <2> QED BY <1>3, <2>1, <2>2 DEF Screen!RowEnd
<1>5. ASSUME NEW k \in 1 .. n
      PROVE  cells[k - 1] = IF k <= Len(Shown) THEN Shown[k] ELSE Blank
  <2>1. k - 1 \in Cells
    BY <1>1, TerminalAssumption DEF Cells
  <2>2. CASE k <= Cursor
    BY <1>3, <2>2 DEF Seen
  <2>3. CASE k > Cursor
    BY <1>3, <2>1, <2>3 DEF ScreenInv, BlankBeyond
  <2> QED BY <1>1, <1>3, <2>2, <2>3
<1>6. Seen(cells, n) = [k \in 1 .. n |-> IF k <= Len(Shown) THEN Shown[k] ELSE Blank]
  BY <1>5 DEF Seen
<1> HIDE DEF n
<1> QED BY <1>2, <1>4, <1>6 DEF Screen!TNewLine

\* A backspace takes the last character of the tape.
LEMMA EraseTakes == ASSUME ScreenInv, EraseLast PROVE Screen!TBackspace
<1>1. CASE x = 0 /\ y = 0
  <2>1. Cursor = 0 /\ UNCHANGED tvars
    BY <1>1, TerminalAssumption DEF Cursor, EraseLast
  <2>2. Shown = << >>
    BY <2>1, ShownIsSeen
  <2>3. Shown' = Shown
    BY <2>1 DEF Shown, Cursor, tvars
  <2> QED BY <2>2, <2>3 DEF Screen!TBackspace
<1>2. CASE ~(x = 0 /\ y = 0)
  <2>1. /\ Cursor' = Cursor - 1 /\ Cursor - 1 \in Cells
        /\ cells' = [cells EXCEPT ![Cursor - 1] = Blank]
    BY <1>2, Back DEF ScreenInv
  <2>2. /\ Cursor \in Nat \ {0} /\ Shown = Seen(cells, Cursor)
        /\ Shown \in Seq(Chars \cup {Blank}) /\ Len(Shown) = Cursor /\ cells \in Screens
    BY <2>1, ShownIsSeen, TerminalAssumption DEF Cells, ScreenInv, TermTypeOK, Screens
  <2>3. Shown' = Seen(cells', Cursor - 1)
    BY <2>1 DEF Shown, Seen
  <2> HIDE DEF Cursor
  <2>4. SubSeq(Shown, 1, Cursor - 1) = [k \in 1 .. (Cursor - 1) |-> Shown[k]]
    BY <2>2
  <2>5. ASSUME NEW k \in 1 .. (Cursor - 1)
        PROVE  cells'[k - 1] = Shown[k]
    <3>1. k - 1 \in Cells /\ k - 1 # Cursor - 1 /\ k \in 1 .. Cursor
      BY <2>1, <2>2, TerminalAssumption DEF Cells
    <3>2. Shown[k] = cells[k - 1]
      BY <2>2, <3>1 DEF Seen
    <3>3. cells'[k - 1] = cells[k - 1]
      BY <2>1, <2>2, <3>1 DEF Screens
    <3> QED BY <3>2, <3>3
  <2>6. Shown # << >>
    BY <2>2
  <2>7. Seen(cells', Cursor - 1) = [k \in 1 .. (Cursor - 1) |-> Shown[k]]
    BY <2>5 DEF Seen
  <2>8. Shown' = SubSeq(Shown, 1, Len(Shown) - 1)
    BY <2>2, <2>3, <2>4, <2>7
  <2> QED BY <2>6, <2>8 DEF Screen!TBackspace
<1> QED BY <1>1, <1>2

\* The screen is the tape of Tape, for every size of the screen: what scrolls,
\* what a new line skips and what a backspace takes back, up to the row before.
THEOREM ScreenIsTape == TermSpec => TapeRefinement
<1>1. TermInit => Screen!TInit
  <2> SUFFICES ASSUME TermInit PROVE Shown = << >>
    BY DEF Screen!TInit
  <2>1. ScreenInv /\ Cursor = 0
    BY InitEstablishes, TerminalAssumption DEF TermInit, Cursor
  <2> QED BY <2>1, ShownIsSeen
<1>2. ScreenInv /\ [TermNext]_tvars => [Screen!TNext]_Shown
  <2> SUFFICES ASSUME ScreenInv, [TermNext]_tvars PROVE [Screen!TNext]_Shown
    OBVIOUS
  <2>1. CASE UNCHANGED tvars
    BY <2>1 DEF Shown, Cursor, tvars
  <2>2. ASSUME NEW c \in Chars, Put(c) PROVE Screen!TNext
    BY <2>2, PutAdds DEF Screen!TNext
  <2>3. ASSUME StartLine PROVE Screen!TNext
    BY <2>3, StartLineFills DEF Screen!TNext
  <2>4. ASSUME EraseLast PROVE Screen!TNext
    BY <2>4, EraseTakes DEF Screen!TNext
  <2> QED BY <2>1, <2>2, <2>3, <2>4 DEF TermNext, PrintChar
<1>3. TermSpec => []ScreenInv
  BY InitEstablishes, StepPreserves, PTL DEF TermSpec
<1> QED BY <1>1, <1>2, <1>3, PTL DEF TermSpec, TapeRefinement, Screen!TSpec

----------------------------------------------------------------------------
(* The order of the boot.                                                  *)

StageNames == {Stages[n] : n \in DOMAIN Stages}

\* The places of the stages.
LEMMA Places ==
    /\ At("init") = 1      /\ At("isr") = 2      /\ At("heap") = 3
    /\ At("directory") = 4 /\ At("switch") = 5   /\ At("paging") = 6
    /\ At("process") = 7   /\ At("load") = 8     /\ At("focus") = 9
    /\ At("run") = 10      /\ At("user") = 11
<1>1. DOMAIN Stages = 1 .. 11
  BY DEF Stages
<1>2. \A m, n \in 1 .. 11 : Stages[m] = Stages[n] => m = n
  BY DEF Stages
<1>3. ASSUME NEW m \in 1 .. 11 PROVE At(Stages[m]) = m
  <2>1. At(Stages[m]) \in 1 .. 11 /\ Stages[At(Stages[m])] = Stages[m]
    BY <1>1 DEF At
  <2> QED BY <1>2, <2>1
<1>4. /\ Stages[1] = "init"      /\ Stages[2] = "isr"     /\ Stages[3] = "heap"
      /\ Stages[4] = "directory" /\ Stages[5] = "switch"  /\ Stages[6] = "paging"
      /\ Stages[7] = "process"   /\ Stages[8] = "load"    /\ Stages[9] = "focus"
      /\ Stages[10] = "run"      /\ Stages[11] = "user"
  BY DEF Stages
<1> QED BY <1>3, <1>4

\* What is past at a stage.
LEMMA Passed ==
    ASSUME stage \in StageNames \cup {"panic"}
    PROVE  /\ Past("isr") <=> stage \notin {"panic", "init", "isr"}
           /\ Past("directory") <=> stage \notin {"panic", "init", "isr", "heap", "directory"}
           /\ Past("switch") <=>
                stage \in {"paging", "process", "load", "focus", "run", "user"}
           /\ Past("paging") <=> stage \in {"process", "load", "focus", "run", "user"}
           /\ Past("load") <=> stage \in {"focus", "run", "user"}
           /\ Past("focus") <=> stage \in {"run", "user"}
<1>1. stage \in {"init", "isr", "heap", "directory", "switch", "paging", "process",
                 "load", "focus", "run", "user", "panic"}
  BY DEF StageNames, Stages
<1> QED BY <1>1, Places DEF Past

\* The same of the next stage.
LEMMA PassedNext ==
    ASSUME stage' \in StageNames \cup {"panic"}
    PROVE  /\ Past("switch")' <=>
                stage' \in {"paging", "process", "load", "focus", "run", "user"}
           /\ Past("paging")' <=> stage' \in {"process", "load", "focus", "run", "user"}
           /\ Past("focus")' <=> stage' \in {"run", "user"}
<1>1. stage' \in {"init", "isr", "heap", "directory", "switch", "paging", "process",
                  "load", "focus", "run", "user", "panic"}
  BY DEF StageNames, Stages
<1> QED BY <1>1, Places DEF Past

\* The call after each.
LEMMA Onward ==
    ASSUME stage \in StageNames \ {"user", "panic"}, stage' = Stages[At(stage) + 1]
    PROVE  \/ stage = "init" /\ stage' = "isr"
           \/ stage = "isr" /\ stage' = "heap"
           \/ stage = "heap" /\ stage' = "directory"
           \/ stage = "directory" /\ stage' = "switch"
           \/ stage = "switch" /\ stage' = "paging"
           \/ stage = "paging" /\ stage' = "process"
           \/ stage = "process" /\ stage' = "load"
           \/ stage = "load" /\ stage' = "focus"
           \/ stage = "focus" /\ stage' = "run"
           \/ stage = "run" /\ stage' = "user"
<1>1. stage \in {"init", "isr", "heap", "directory", "switch", "paging", "process",
                 "load", "focus", "run"}
  BY DEF StageNames, Stages
<1>2. /\ Stages[2] = "isr"     /\ Stages[3] = "heap"    /\ Stages[4] = "directory"
      /\ Stages[5] = "switch"  /\ Stages[6] = "paging"  /\ Stages[7] = "process"
      /\ Stages[8] = "load"    /\ Stages[9] = "focus"   /\ Stages[10] = "run"
      /\ Stages[11] = "user"
  BY DEF Stages
<1> QED BY <1>1, <1>2, Places

\* Every stage is one of the list.
LEMMA StageNamesAre ==
    StageNames = {"init", "isr", "heap", "directory", "switch", "paging", "process",
                  "load", "focus", "run", "user"}
BY DEF StageNames, Stages

----------------------------------------------------------------------------
(* The invariant of the console.                                           *)

\* cr3 holds a directory from the switch on, paging is turned on after it, and
\* no key is kept before the focus.
BootInv == /\ Past("switch") \/ stage = "panic" => cr3 # "null"
           /\ paging => Past("paging") \/ stage = "panic"
           /\ buffer # << >> => Past("focus")

\* The shell waits at its first prompt until it is entered; i counts the line
\* that is read, and none of its characters ends it.
ShellInv == /\ stage # "user" => pc = "prompt"
            /\ pc \in {"prompt", "system"} => i = 0 /\ ~spoilt
            /\ pc \in {"read", "echo"} => \A n \in 0 .. (i - 1) : line[n] # End
            /\ pc = "echo" => key \in KeyChars \ {NoKey, NewLine}

\* As EchoIsLine, and still when the key is about to be echoed.
EchoInv == pc \in {"read", "echo"} /\ ~spoilt => EndsWith(Shown, <<Prompt>> \o LineSoFar)

\* The states of the keys follow the codes.
KeysInv == held = {k \in Codes : keystates[k] # "released"}

Inv == ScreenInv /\ TypeOK /\ BootInv /\ ShellInv /\ EchoInv /\ KeysInv

LEMMA InitInv == Init => Inv
<1> SUFFICES ASSUME Init PROVE Inv
  OBVIOUS
<1> USE ConsoleAssumption DEF Init
<1>1. stage = "init" /\ stage \in StageNames
  BY StageNamesAre
<1>2. ScreenInv
  BY InitEstablishes
<1>3. TypeOK
  <2>1. buffer \in Seq(KeyChars) /\ Len(buffer) <= BufferSize
    BY KeyboardAssumption DEF KeyInit
  <2>2. line \in [0 .. (MaxLine - 1) -> KeyChars \cup {End}]
    OBVIOUS
  <2>3. keystates \in [Codes -> {"released", "clicked", "pressed"}] /\ held \subseteq Codes
    BY DEF KeyInit
  <2>4. i \in 0 .. (MaxLine - 1)
    OBVIOUS
  <2> QED BY <1>1, <1>2, <2>1, <2>2, <2>3, <2>4 DEF TypeOK, ScreenInv, StageNames
<1>4. BootInv
  BY <1>1, Passed DEF BootInv, KeyInit
<1>5. ShellInv /\ EchoInv
  BY <1>1 DEF ShellInv, EchoInv
<1>6. KeysInv
  BY DEF KeysInv, KeyInit
<1> QED BY <1>2, <1>3, <1>4, <1>5, <1>6 DEF Inv

\* No step of the machine writes on the screen but a character of print.
LEMMA StepPrints == [Next]_vars => [TermNext]_tvars
<1>1. ASSUME NEW c, PrintChar(c) PROVE TermNext
  <2>1. c \in Chars \cup {NewLine, Backspace}
    BY <1>1 DEF PrintChar
  <2> QED BY <1>1, <2>1 DEF TermNext
<1>2. ASSUME \/ Boot \/ BootFails \/ GetChar \/ SystemReturns \/ Interrupt
      PROVE  UNCHANGED tvars
  BY <1>2 DEF Boot, BootFails, GetChar, SystemReturns, Interrupt
<1>3. ASSUME \/ PrintPrompt \/ Echo \/ EndLine \/ CommandPrints
      PROVE  TermNext
  BY <1>1, <1>3 DEF PrintPrompt, Echo, EndLine, CommandPrints
<1> QED BY <1>2, <1>3 DEF Next, Step, vars

----------------------------------------------------------------------------
(* The boot, and the interrupts that come between its calls.               *)

\* What a call of kernel_main leaves in cr3.
LEMMA BootCr3 ==
    ASSUME Boot
    PROVE  /\ stage = "switch" => cr3' = "kernel"
           /\ stage = "run" => cr3' = "task"
           /\ stage \notin {"switch", "run"} => cr3' = cr3
<1>1. cr3' = CASE stage = "switch" -> "kernel" [] stage = "run" -> "task" [] OTHER -> cr3
  BY DEF Boot
<1>2. CASE stage = "switch"
  BY <1>1, <1>2
<1>3. CASE stage = "run"
  BY <1>1, <1>3
<1>4. CASE stage \notin {"switch", "run"}
  BY <1>1, <1>4
<1> QED BY <1>2, <1>3, <1>4

LEMMA BootPreserves == ASSUME Inv, Boot PROVE TypeOK' /\ BootInv' /\ ShellInv'
<1>1. /\ stage \in StageNames \ {"user", "panic"} /\ stage' = Stages[At(stage) + 1]
      /\ paging' = (paging \/ stage = "paging")
      /\ UNCHANGED <<tvars, keystates, held, buffer, shellvars>>
  BY DEF Boot, Inv, TypeOK, StageNames
<1>2. stage' \in StageNames
  BY <1>1, Onward, StageNamesAre
<1>3. cr3' \in {"null", "kernel", "task"}
  BY BootCr3 DEF Inv, TypeOK
<1>4. paging' \in BOOLEAN
  BY <1>1
<1>5. TypeOK'
  BY <1>1, <1>2, <1>3, <1>4 DEF Inv, TypeOK, TermTypeOK, tvars, shellvars, StageNames
<1>6. BootInv'
  <2>1. Past("switch")' \/ stage' = "panic" => cr3' # "null"
    BY <1>1, <1>2, Passed, PassedNext, Onward, BootCr3, StageNamesAre DEF Inv, BootInv
  <2>2. paging' => Past("paging")' \/ stage' = "panic"
    BY <1>1, <1>2, Passed, PassedNext, Onward, StageNamesAre DEF Inv, BootInv
  <2>3. buffer' # << >> => Past("focus")'
    BY <1>1, <1>2, Passed, PassedNext, Onward, StageNamesAre DEF Inv, BootInv
  <2> QED BY <2>1, <2>2, <2>3 DEF BootInv
<1>7. ShellInv'
  BY <1>1 DEF Inv, ShellInv, shellvars
<1> QED BY <1>5, <1>6, <1>7

LEMMA BootFailsPreserves == ASSUME Inv, BootFails PROVE TypeOK' /\ BootInv' /\ ShellInv'
<1>1. /\ stage = "load" /\ stage' = "panic" /\ stage \in StageNames
      /\ UNCHANGED <<tvars, keystates, held, buffer, paging, cr3, shellvars>>
  BY StageNamesAre DEF BootFails
<1>2. TypeOK'
  BY <1>1 DEF Inv, TypeOK, TermTypeOK, tvars, shellvars, StageNames
<1>3. BootInv'
  BY <1>1, Passed, PassedNext DEF Inv, BootInv
<1>4. ShellInv'
  BY <1>1 DEF Inv, ShellInv, shellvars
<1> QED BY <1>2, <1>3, <1>4

\* What an interrupt leaves in cr3.
LEMMA InterruptCr3 ==
    ASSUME NEW s \in AfterInterrupt, stage \in StageNames
    PROVE  /\ s \in {"null", "kernel", "task"}
           /\ Past("switch") => s # "null"
<1>1. /\ Past("directory") <=> stage \notin {"panic", "init", "isr", "heap", "directory"}
      /\ Past("switch") <=>
           stage \in {"paging", "process", "load", "focus", "run", "user"}
  BY Passed
<1>2. s \in {"null", "kernel", "task"}
  BY DEF AfterInterrupt
<1>3. Past("directory") => s \in {"kernel", "task"}
  BY DEF AfterInterrupt
<1> QED BY <1>1, <1>2, <1>3

\* A listener that takes a character keeps the queue within its size.
LEMMA NotifyTypes ==
    ASSUME buffer \in Seq(KeyChars), Len(buffer) <= BufferSize,
           NEW char \in KeyChars, NEW state, Notify(Listening, char, state)
    PROVE  /\ buffer' \in Seq(KeyChars) /\ Len(buffer') <= BufferSize
           /\ buffer' # << >> => Listening \/ buffer # << >>
<1>1. CASE Listening /\ state = "clicked" /\ Len(buffer) < BufferSize
  <2>1. buffer' = Append(buffer, char)
    BY <1>1 DEF Notify
  <2>2. Len(buffer) + 1 <= BufferSize
    BY <1>1, KeyboardAssumption
  <2> QED BY <1>1, <2>1, <2>2
<1>2. CASE ~(Listening /\ state = "clicked" /\ Len(buffer) < BufferSize)
  BY <1>2 DEF Notify
<1> QED BY <1>1, <1>2

\* The new state of a key.
LEMMA ChangedIs ==
    ASSUME NEW state, NEW released \in BOOLEAN
    PROVE  /\ Changed(state, released) \in {"released", "clicked", "pressed"}
           /\ Changed(state, released) = "released" <=> released
           /\ Changed(state, released) = "clicked" <=> ~released /\ state = "released"
BY DEF Changed

LEMMA InterruptPreserves == ASSUME Inv, Interrupt PROVE TypeOK' /\ BootInv' /\ ShellInv'
<1>1. /\ Past("isr") /\ cr3' \in AfterInterrupt
      /\ UNCHANGED <<tvars, stage, paging, shellvars>>
  BY DEF Interrupt
<1>2. stage \in StageNames
  BY <1>1 DEF Past, Inv, TypeOK, StageNames
<1>3. /\ buffer' \in Seq(KeyChars) /\ Len(buffer') <= BufferSize
      /\ buffer' # << >> => Listening \/ buffer # << >>
      /\ keystates' \in [Codes -> {"released", "clicked", "pressed"}] /\ held' \subseteq Codes
  <2>0. /\ buffer \in Seq(KeyChars) /\ Len(buffer) <= BufferSize
        /\ keystates \in [Codes -> {"released", "clicked", "pressed"}] /\ held \subseteq Codes
    BY DEF Inv, TypeOK
  <2>1. ASSUME NEW k \in Codes, NEW released \in BOOLEAN, ScanCode(k, released, Listening)
        PROVE  <1>3!:
    <3>1. CharOf[k] \in KeyChars
      BY DEF KeyChars
    <3>2. Notify(Listening, CharOf[k], keystates'[k])
      BY <2>1 DEF ScanCode
    <3>3. keystates' = [keystates EXCEPT ![k] = Changed(keystates[k], released)]
      BY <2>1 DEF ScanCode
    <3>4. keystates' \in [Codes -> {"released", "clicked", "pressed"}] /\ held' \subseteq Codes
      <4>1. held' = IF released THEN held \ {k} ELSE held \cup {k}
        BY <2>1 DEF ScanCode
      <4>2. held' \subseteq Codes
        BY <2>0, <4>1
      <4> QED BY <2>0, <3>3, <4>2, ChangedIs
    <3>5. /\ buffer' \in Seq(KeyChars) /\ Len(buffer') <= BufferSize
          /\ buffer' # << >> => Listening \/ buffer # << >>
      BY <2>0, <3>1, <3>2, NotifyTypes
    <3> QED BY <3>4, <3>5
  <2>2. ASSUME BeyondTables(Listening)
        PROVE  <1>3!:
    <3>1. PICK char \in BeyondChars, state \in {"clicked", "pressed"} :
             Notify(Listening, char, state)
      BY <2>2 DEF BeyondTables
    <3>2. char \in KeyChars
      BY DEF KeyChars
    <3>3. /\ buffer' \in Seq(KeyChars) /\ Len(buffer') <= BufferSize
          /\ buffer' # << >> => Listening \/ buffer # << >>
      BY <2>0, <3>1, <3>2, NotifyTypes
    <3> QED BY <2>0, <2>2, <3>3 DEF BeyondTables
  <2> QED BY <2>0, <2>1, <2>2 DEF Interrupt
<1>4. cr3' \in {"null", "kernel", "task"} /\ (Past("switch") => cr3' # "null")
  BY <1>1, <1>2, InterruptCr3
<1>5. TypeOK'
  BY <1>1, <1>3, <1>4 DEF Inv, TypeOK, TermTypeOK, tvars, shellvars
<1>6. BootInv'
  <2>1. /\ Past("switch")' = Past("switch") /\ Past("paging")' = Past("paging")
        /\ Past("focus")' = Past("focus") /\ stage' = stage /\ paging' = paging
    BY <1>1 DEF Past, At
  <2>2. stage # "panic"
    BY <1>1 DEF Past
  <2> QED BY <1>3, <1>4, <2>1, <2>2 DEF Inv, BootInv, Listening
<1>7. ShellInv'
  BY <1>1 DEF Inv, ShellInv, shellvars
<1> QED BY <1>5, <1>6, <1>7

----------------------------------------------------------------------------
(* The steps of the shell.                                                 *)

LinePlaces == 0 .. (MaxLine - 1)

ShellTypes ==
    /\ pc \in {"prompt", "read", "echo", "end", "system"}
    /\ line \in [LinePlaces -> KeyChars \cup {End}]
    /\ i \in LinePlaces
    /\ pc \in {"read", "echo"} => i < MaxLine - 1
    /\ key \in KeyChars \cup {NoKey} /\ spoilt \in BOOLEAN

LEMMA ShellTyped == ASSUME Inv PROVE ShellTypes
BY DEF Inv, TypeOK, ShellTypes, LinePlaces

\* A step of the shell, which takes no more than a character from the queue.
LEMMA ShellStep ==
    ASSUME Inv, ScreenInv', UNCHANGED <<keystates, held, bootvars>>,
           buffer' = buffer \/ (buffer # << >> /\ buffer' = Tail(buffer)), ShellTypes'
    PROVE  TypeOK' /\ BootInv'
<1>1. buffer \in Seq(KeyChars) /\ Len(buffer) <= BufferSize
  BY DEF Inv, TypeOK
<1>2. CASE buffer' = buffer
  <2>1. TypeOK'
    BY <1>2 DEF Inv, ScreenInv, TypeOK, ShellTypes, bootvars, LinePlaces
  <2>2. BootInv'
    BY <1>2 DEF Inv, BootInv, Past, At, bootvars
  <2> QED BY <2>1, <2>2
<1>3. CASE buffer # << >> /\ buffer' = Tail(buffer)
  <2>1. buffer' \in Seq(KeyChars) /\ Len(buffer') <= BufferSize
    BY <1>1, <1>3, KeyboardAssumption
  <2>2. TypeOK'
    BY <2>1 DEF Inv, ScreenInv, TypeOK, ShellTypes, bootvars, LinePlaces
  <2>3. BootInv'
    BY <1>3 DEF Inv, BootInv, Past, At, bootvars
  <2> QED BY <2>2, <2>3
<1> QED BY <1>2, <1>3

LEMMA PrintPromptPreserves ==
    ASSUME Inv, ScreenInv', PrintPrompt PROVE TypeOK' /\ BootInv' /\ ShellInv'
<1>1. /\ stage = "user" /\ pc = "prompt" /\ pc' = "read"
      /\ line' = [n \in DOMAIN line |-> IF n < Cleared THEN End ELSE line[n]]
      /\ UNCHANGED <<keystates, held, buffer, bootvars, i, key, spoilt>>
  BY DEF PrintPrompt, Shell
<1>2. i = 0 /\ stage' = "user"
  BY <1>1 DEF Inv, ShellInv, bootvars
<1>3. line' \in [LinePlaces -> KeyChars \cup {End}]
  BY <1>1, ShellTyped DEF ShellTypes
<1>4. 0 < MaxLine - 1
  BY ConsoleAssumption
<1>5. ShellTypes'
  BY <1>1, <1>2, <1>3, <1>4, ShellTyped DEF ShellTypes
<1>6. ShellInv'
  BY <1>1, <1>2 DEF ShellInv
<1> QED BY <1>1, <1>5, <1>6, ShellStep

\* What readline gets.
Got == IF buffer = << >> THEN NoKey ELSE Head(buffer)

LEMMA GotIs ==
    ASSUME Inv
    PROVE  Got \in KeyChars \cup {NoKey} /\ (buffer # << >> => Got \in KeyChars)
<1>1. buffer \in Seq(KeyChars)
  BY DEF Inv, TypeOK
<1>2. buffer # << >> => Head(buffer) \in KeyChars
  BY <1>1
<1> QED BY <1>2 DEF Got

\* The three answers of getchar.
LEMMA GetCharCases ==
    ASSUME GetChar
    PROVE  /\ stage = "user" /\ pc = "read"
           /\ buffer' = buffer \/ (buffer # << >> /\ buffer' = Tail(buffer))
           /\ UNCHANGED <<tvars, keystates, held, bootvars, i, spoilt>>
           /\ \/ Got = NoKey /\ UNCHANGED <<pc, line, key>>
              \/ /\ Got = NewLine /\ pc' = "end"
                 /\ line' = [line EXCEPT ![i] = End] /\ UNCHANGED key
              \/ /\ Got \notin {NoKey, NewLine} /\ pc' = "echo"
                 /\ key' = Got /\ UNCHANGED line
BY DEF GetChar, Shell, Got

LEMMA GetCharPreserves ==
    ASSUME Inv, ScreenInv', GetChar PROVE TypeOK' /\ BootInv' /\ ShellInv'
<1>1. /\ stage = "user" /\ pc = "read" /\ stage' = "user"
      /\ buffer' = buffer \/ (buffer # << >> /\ buffer' = Tail(buffer))
      /\ UNCHANGED <<keystates, held, bootvars, i, spoilt>>
  BY GetCharCases DEF bootvars
<1>2. ShellTypes
  BY ShellTyped
<1>3. CASE Got = NoKey /\ UNCHANGED <<pc, line, key>>
  <2>1. ShellTypes' /\ ShellInv'
    BY <1>1, <1>2, <1>3 DEF ShellTypes, Inv, ShellInv
  <2> QED BY <1>1, <2>1, ShellStep
<1>4. CASE Got = NewLine /\ pc' = "end" /\ line' = [line EXCEPT ![i] = End] /\ UNCHANGED key
  <2>1. line' \in [LinePlaces -> KeyChars \cup {End}]
    BY <1>2, <1>4 DEF ShellTypes
  <2>2. ShellTypes' /\ ShellInv'
    BY <1>1, <1>2, <1>4, <2>1 DEF ShellTypes, ShellInv
  <2> QED BY <1>1, <2>2, ShellStep
<1>5. CASE Got \notin {NoKey, NewLine} /\ pc' = "echo" /\ key' = Got /\ UNCHANGED line
  <2>1. key' \in KeyChars \ {NoKey, NewLine}
    BY <1>5, GotIs
  <2>2. ShellTypes'
    BY <1>1, <1>2, <1>5, <2>1 DEF ShellTypes
  <2>3. ShellInv'
    BY <1>1, <1>5, <2>1 DEF Inv, ShellInv
  <2> QED BY <1>1, <2>2, <2>3, ShellStep
<1> QED BY <1>3, <1>4, <1>5, GetCharCases

\* The key that is echoed, and the place after it.
LEMMA EchoedKey ==
    ASSUME Inv, pc = "echo"
    PROVE  /\ key \in KeyChars \ {NoKey, NewLine} /\ key \in Chars \cup {Backspace}
           /\ key # End /\ i \in LinePlaces /\ i < MaxLine - 1
           /\ NextI \in LinePlaces /\ NextI <= MaxLine - 1
           /\ Stored \in [LinePlaces -> KeyChars \cup {End}]
           /\ \A n \in 0 .. (NextI - 1) : Stored[n] # End
<1>1. /\ key \in KeyChars \ {NoKey, NewLine} /\ i \in LinePlaces /\ i < MaxLine - 1
      /\ line \in [LinePlaces -> KeyChars \cup {End}]
      /\ \A n \in 0 .. (i - 1) : line[n] # End
  BY ShellTyped DEF Inv, ShellInv, ShellTypes
<1>2. key \in Chars \cup {Backspace} /\ key # End
  BY <1>1, ConsoleAssumption
<1>3. i \in Nat /\ MaxLine \in Nat
  BY <1>1, ConsoleAssumption DEF LinePlaces
<1>4. CASE key = Backspace /\ i >= 1
  <2>1. NextI = i - 1 /\ Stored = [line EXCEPT ![i - 1] = End]
    BY <1>4 DEF NextI, Stored
  <2>2. NextI \in LinePlaces /\ NextI <= MaxLine - 1
    BY <1>1, <1>3, <1>4, <2>1 DEF LinePlaces
  <2>3. Stored \in [LinePlaces -> KeyChars \cup {End}]
    BY <1>1, <2>1
  <2>4. ASSUME NEW n \in 0 .. (NextI - 1) PROVE Stored[n] # End
    <3>1. n \in 0 .. (i - 1) /\ n # i - 1 /\ n \in LinePlaces
      BY <1>1, <1>3, <1>4, <2>1 DEF LinePlaces
    <3>2. Stored[n] = line[n]
      BY <1>1, <2>1, <3>1
    <3> QED BY <1>1, <3>1, <3>2
  <2> QED BY <1>1, <1>2, <2>2, <2>3, <2>4
<1>5. CASE ~(key = Backspace /\ i >= 1)
  <2>1. NextI = i + 1 /\ Stored = [line EXCEPT ![i] = key]
    BY <1>5 DEF NextI, Stored
  <2>2. NextI \in LinePlaces /\ NextI <= MaxLine - 1
    BY <1>1, <1>3, <2>1 DEF LinePlaces
  <2>3. Stored \in [LinePlaces -> KeyChars \cup {End}]
    BY <1>1, <2>1
  <2>4. ASSUME NEW n \in 0 .. (NextI - 1) PROVE Stored[n] # End
    <3>1. n \in LinePlaces /\ (n = i \/ n \in 0 .. (i - 1))
      BY <1>1, <1>3, <2>1 DEF LinePlaces
    <3>2. CASE n = i
      BY <1>1, <1>2, <2>1, <3>2
    <3>3. CASE n \in 0 .. (i - 1)
      <4>1. Stored[n] = line[n]
        BY <1>1, <1>3, <2>1, <3>1, <3>3
      <4> QED BY <1>1, <3>3, <4>1
    <3> QED BY <3>1, <3>2, <3>3
  <2> QED BY <1>1, <1>2, <2>2, <2>3, <2>4
<1> QED BY <1>4, <1>5

LEMMA EchoPreserves ==
    ASSUME Inv, ScreenInv', Echo PROVE TypeOK' /\ BootInv' /\ ShellInv'
<1>1. /\ stage = "user" /\ pc = "echo" /\ i' = NextI /\ key' = NoKey
      /\ spoilt' = (spoilt \/ (key = Backspace /\ i = 0))
      /\ UNCHANGED <<keystates, held, buffer, bootvars>>
      /\ IF NextI = MaxLine - 1
         THEN pc' = "end" /\ line' = [Stored EXCEPT ![NextI] = End]
         ELSE pc' = "read" /\ line' = Stored
  BY DEF Echo, Shell
<1>2. stage' = "user" /\ spoilt' \in BOOLEAN
  BY <1>1 DEF bootvars
<1>3. /\ NextI \in LinePlaces /\ NextI <= MaxLine - 1
      /\ Stored \in [LinePlaces -> KeyChars \cup {End}]
      /\ \A n \in 0 .. (NextI - 1) : Stored[n] # End
  BY <1>1, EchoedKey
<1>4. CASE NextI = MaxLine - 1
  <2>1. line' \in [LinePlaces -> KeyChars \cup {End}] /\ pc' = "end"
    BY <1>1, <1>3, <1>4
  <2>2. ShellTypes' /\ ShellInv'
    BY <1>1, <1>2, <1>3, <2>1 DEF ShellTypes, ShellInv
  <2> QED BY <1>1, <2>2, ShellStep
<1>5. CASE NextI # MaxLine - 1
  <2>1. line' = Stored /\ pc' = "read" /\ NextI < MaxLine - 1
    BY <1>1, <1>3, <1>5, ConsoleAssumption DEF LinePlaces
  <2>2. ShellTypes' /\ ShellInv'
    BY <1>1, <1>2, <1>3, <2>1 DEF ShellTypes, ShellInv
  <2> QED BY <1>1, <2>2, ShellStep
<1> QED BY <1>4, <1>5

LEMMA OtherPreserves ==
    ASSUME Inv, ScreenInv', EndLine \/ SystemReturns \/ CommandPrints
    PROVE  TypeOK' /\ BootInv' /\ ShellInv'
<1>1. ShellTypes
  BY ShellTyped
<1>2. CASE EndLine
  <2>1. /\ stage = "user" /\ pc' = "system" /\ i' = 0 /\ spoilt' = FALSE
        /\ UNCHANGED <<keystates, held, buffer, bootvars, line, key>>
    BY <1>2 DEF EndLine, Shell
  <2>2. 0 \in LinePlaces /\ stage' = "user"
    BY <2>1, ConsoleAssumption DEF LinePlaces, bootvars
  <2>3. ShellTypes' /\ ShellInv'
    BY <1>1, <2>1, <2>2 DEF ShellTypes, ShellInv
  <2> QED BY <2>1, <2>3, ShellStep
<1>3. CASE SystemReturns
  <2>1. /\ stage = "user" /\ pc = "system" /\ pc' = "prompt"
        /\ UNCHANGED <<keystates, held, buffer, bootvars, line, i, key, spoilt>>
    BY <1>3 DEF SystemReturns, Shell
  <2>2. ShellTypes' /\ ShellInv'
    BY <1>1, <2>1 DEF ShellTypes, Inv, ShellInv, bootvars
  <2> QED BY <2>1, <2>2, ShellStep
<1>4. CASE CommandPrints
  <2>1. UNCHANGED <<keystates, held, buffer, bootvars, shellvars>>
    BY <1>4 DEF CommandPrints
  <2>2. ShellTypes' /\ ShellInv'
    BY <1>1, <2>1 DEF ShellTypes, Inv, ShellInv, bootvars, shellvars
  <2> QED BY <2>1, <2>2, ShellStep
<1> QED BY <1>2, <1>3, <1>4

----------------------------------------------------------------------------
(* The line on the screen.                                                 *)

\* As EndsWith, character by character.
Ending(t, s) == /\ Len(s) <= Len(t)
                /\ \A k \in 1 .. Len(s) : t[Len(t) - Len(s) + k] = s[k]

LEMMA EndsWithIs ==
    ASSUME NEW T, NEW t \in Seq(T), NEW s \in Seq(T)
    PROVE  EndsWith(t, s) <=> Ending(t, s)
<1> DEFINE from == Len(t) - Len(s)
           rest == SubSeq(t, from + 1, Len(t))
<1>1. CASE Len(s) > Len(t)
  BY <1>1 DEF EndsWith, Ending
<1>2. CASE Len(s) <= Len(t)
  <2>1. from \in Nat /\ from + Len(s) = Len(t) /\ Len(s) \in Nat
    BY <1>2
  <2>2. rest = [k \in 1 .. Len(s) |-> t[from + k]]
    <3>1. /\ rest \in Seq(T) /\ Len(rest) = Len(s)
          /\ \A k \in 1 .. Len(s) : rest[k] = t[from + k]
      BY <2>1
    <3> HIDE DEF rest, from
    <3>2. rest = [k \in 1 .. Len(s) |-> rest[k]]
      BY <3>1
    <3> QED BY <3>1, <3>2
  <2>3. s = [k \in 1 .. Len(s) |-> s[k]]
    OBVIOUS
  <2> HIDE DEF from
  <2>4. rest = s <=> \A k \in 1 .. Len(s) : t[from + k] = s[k]
    <3> HIDE DEF rest
    <3>1. ASSUME rest = s PROVE \A k \in 1 .. Len(s) : t[from + k] = s[k]
      BY <2>2, <3>1
    <3>2. ASSUME \A k \in 1 .. Len(s) : t[from + k] = s[k] PROVE rest = s
      BY <2>2, <2>3, <3>2
    <3> QED BY <3>1, <3>2
  <2>5. EndsWith(t, s) <=> rest = s
    BY <1>2 DEF EndsWith, from
  <2>6. Ending(t, s) <=> \A k \in 1 .. Len(s) : t[from + k] = s[k]
    BY <1>2 DEF Ending, from
  <2> QED BY <2>4, <2>5, <2>6
<1> QED BY <1>1, <1>2

\* A sequence without its last element.
LEMMA FrontIs ==
    ASSUME NEW T, NEW t \in Seq(T), t # << >>
    PROVE  /\ SubSeq(t, 1, Len(t) - 1) \in Seq(T) /\ Len(t) \in Nat \ {0}
           /\ Len(SubSeq(t, 1, Len(t) - 1)) = Len(t) - 1
           /\ \A k \in 1 .. (Len(t) - 1) : SubSeq(t, 1, Len(t) - 1)[k] = t[k]
<1>1. Len(t) \in Nat \ {0}
  OBVIOUS
<1> DEFINE u == SubSeq(t, 1, Len(t) - 1)
<1>2. u = [k \in 1 .. (Len(t) - 1) |-> t[k]]
  BY <1>1
<1> HIDE DEF u
<1>3. u \in Seq(T) /\ Len(u) = Len(t) - 1
  BY <1>1, <1>2
<1>4. \A k \in 1 .. (Len(t) - 1) : u[k] = t[k]
  BY <1>2
<1> QED BY <1>1, <1>3, <1>4 DEF u

\* What ends a tape still ends it with one more character, or one less.
LEMMA EndingAppended ==
    ASSUME NEW T, NEW t \in Seq(T), NEW s \in Seq(T), NEW c \in T, Ending(t, s)
    PROVE  Ending(Append(t, c), Append(s, c))
<1>1. /\ Len(Append(t, c)) = Len(t) + 1 /\ Len(Append(s, c)) = Len(s) + 1
      /\ Len(t) \in Nat /\ Len(s) \in Nat /\ Len(s) <= Len(t)
  BY DEF Ending
<1>2. ASSUME NEW k \in 1 .. (Len(s) + 1)
      PROVE  Append(t, c)[Len(t) - Len(s) + k] = Append(s, c)[k]
  <2>1. CASE k = Len(s) + 1
    BY <1>1, <2>1
  <2>2. CASE k # Len(s) + 1
    <3>1. k \in 1 .. Len(s) /\ Len(t) - Len(s) + k \in 1 .. Len(t)
      BY <1>1, <2>2
    <3> QED BY <1>1, <3>1 DEF Ending
  <2> QED BY <2>1, <2>2
<1> DEFINE u == Append(t, c)
           v == Append(s, c)
<1>3. /\ Len(u) = Len(t) + 1 /\ Len(v) = Len(s) + 1
      /\ \A k \in 1 .. (Len(s) + 1) : u[Len(t) - Len(s) + k] = v[k]
  BY <1>1, <1>2
<1> HIDE DEF u, v
<1>4. (Len(t) + 1) - (Len(s) + 1) = Len(t) - Len(s)
  BY <1>1
<1>5. Ending(u, v)
  <2>1. Len(v) <= Len(u) /\ Len(u) - Len(v) = Len(t) - Len(s)
    BY <1>1, <1>3, <1>4
  <2>2. \A k \in 1 .. Len(v) : u[Len(u) - Len(v) + k] = v[k]
    BY <1>3, <2>1
  <2> QED BY <2>1, <2>2 DEF Ending
<1> QED BY <1>5 DEF u, v

LEMMA EndingShortened ==
    ASSUME NEW T, NEW t \in Seq(T), NEW s \in Seq(T), Ending(t, s), s # << >>
    PROVE  /\ t # << >>
           /\ Ending(SubSeq(t, 1, Len(t) - 1), SubSeq(s, 1, Len(s) - 1))
<1>1. Len(t) \in Nat \ {0} /\ Len(s) \in Nat \ {0} /\ Len(s) <= Len(t) /\ t # << >>
  BY DEF Ending
<1> DEFINE u == SubSeq(t, 1, Len(t) - 1)
           v == SubSeq(s, 1, Len(s) - 1)
<1>2. /\ Len(u) = Len(t) - 1 /\ \A k \in 1 .. (Len(t) - 1) : u[k] = t[k]
      /\ Len(v) = Len(s) - 1 /\ \A k \in 1 .. (Len(s) - 1) : v[k] = s[k]
  BY <1>1, FrontIs
<1> HIDE DEF u, v
<1>3. ASSUME NEW k \in 1 .. (Len(s) - 1) PROVE u[Len(t) - Len(s) + k] = v[k]
  <2>1. k \in 1 .. Len(s) /\ Len(t) - Len(s) + k \in 1 .. (Len(t) - 1)
    BY <1>1
  <2> QED BY <1>2, <2>1 DEF Ending
<1>4. (Len(t) - 1) - (Len(s) - 1) = Len(t) - Len(s)
  BY <1>1
<1>5. Ending(u, v)
  BY <1>1, <1>2, <1>3, <1>4 DEF Ending
<1> QED BY <1>1, <1>5 DEF u, v

\* Nothing of an ending shorter than the screen without its first row is lost.
LEMMA EndingFits ==
    ASSUME NEW T, NEW t \in Seq(T), NEW s \in Seq(T), Ending(t, s),
           Len(s) <= Width * (Height - 1)
    PROVE  Ending(Screen!Fit(t), s)
<1>1. CASE Len(t) # Width * Height
  BY <1>1 DEF Screen!Fit
<1>2. CASE Len(t) = Width * Height
  <2>1. /\ Width * (Height - 1) = Width * Height - Width /\ Width \in Nat \ {0}
        /\ Len(t) \in Nat /\ Len(s) \in Nat
    BY TerminalAssumption
  <2>2. Len(s) <= Len(t) - Width /\ Width + 1 \in 1 .. (Len(t) + 1) /\ Len(t) - Width \in Nat
    BY <1>2, <2>1
  <2> DEFINE u == SubSeq(t, Width + 1, Len(t))
  <2>3. Len(u) = Len(t) - Width /\ \A k \in 1 .. (Len(t) - Width) : u[k] = t[Width + k]
    BY <2>1, <2>2
  <2>4. Screen!Fit(t) = u
    BY <1>2 DEF Screen!Fit
  <2> HIDE DEF u
  <2>5. ASSUME NEW k \in 1 .. Len(s) PROVE u[Len(u) - Len(s) + k] = s[k]
    <3>1. Len(u) - Len(s) + k \in 1 .. (Len(t) - Width)
      BY <2>1, <2>2, <2>3
    <3>2. Width + (Len(u) - Len(s) + k) = Len(t) - Len(s) + k
      BY <2>1, <2>3
    <3> QED BY <2>3, <3>1, <3>2 DEF Ending
  <2> QED BY <2>2, <2>3, <2>4, <2>5 DEF Ending
<1> QED BY <1>1, <1>2

\* The first characters of a buffer are of a set, or those of another buffer.
Holds(f, n, T) == \A k \in 0 .. (n - 1) : f[k] \in T

Agree(f, g, n) == \A k \in 0 .. (n - 1) : g[k] = f[k]

\* The first characters of a buffer, as a sequence.
LEMMA SeenIs ==
    ASSUME NEW T, NEW f, NEW n \in Nat, Holds(f, n, T)
    PROVE  /\ Seen(f, n) \in Seq(T) /\ Len(Seen(f, n)) = n
           /\ \A k \in 1 .. n : Seen(f, n)[k] = f[k - 1]
<1>1. \A k \in 1 .. n : k - 1 \in 0 .. (n - 1)
  OBVIOUS
<1>2. \A k \in 1 .. n : f[k - 1] \in T
  BY <1>1 DEF Holds
<1>3. \A k \in 1 .. n : Seen(f, n)[k] = f[k - 1]
  BY DEF Seen
<1>4. Seen(f, n) \in [1 .. n -> T]
  BY <1>2 DEF Seen
<1> QED BY <1>3, <1>4

LEMMA SeenSame ==
    ASSUME NEW f, NEW g, NEW n \in Nat, Agree(f, g, n)
    PROVE  Seen(f, n) = Seen(g, n)
<1>1. \A k \in 1 .. n : k - 1 \in 0 .. (n - 1)
  OBVIOUS
<1>2. \A k \in 1 .. n : f[k - 1] = g[k - 1]
  BY <1>1 DEF Agree
<1> QED BY <1>2 DEF Seen

LEMMA SeenAppended ==
    ASSUME NEW T, NEW f, NEW g, NEW n \in Nat, NEW c \in T,
           Holds(f, n, T), Agree(f, g, n), g[n] = c
    PROVE  Seen(g, n + 1) = Append(Seen(f, n), c)
<1>1. /\ Seen(f, n) \in Seq(T) /\ Len(Seen(f, n)) = n
      /\ \A k \in 1 .. n : Seen(f, n)[k] = f[k - 1]
  BY SeenIs
<1>2. ASSUME NEW k \in 0 .. n PROVE g[k] \in T
  <2>1. k = n \/ k \in 0 .. (n - 1)
    OBVIOUS
  <2> QED BY <2>1 DEF Holds, Agree
<1>3. n + 1 \in Nat /\ Holds(g, n + 1, T)
  BY <1>2 DEF Holds
<1>4. /\ Seen(g, n + 1) \in Seq(T) /\ Len(Seen(g, n + 1)) = n + 1
      /\ \A k \in 1 .. (n + 1) : Seen(g, n + 1)[k] = g[k - 1]
  BY <1>3, SeenIs
<1> DEFINE s == Seen(f, n)
           a == Append(s, c)
           b == Seen(g, n + 1)
<1>5. /\ a \in Seq(T) /\ Len(a) = n + 1 /\ a[n + 1] = c
      /\ \A k \in 1 .. n : a[k] = s[k]
  <2>1. s \in Seq(T) /\ Len(s) = n
    BY <1>1
  <2> HIDE DEF s
  <2> QED BY <2>1
<1>6. b \in Seq(T) /\ Len(b) = n + 1 /\ \A k \in 1 .. (n + 1) : b[k] = g[k - 1]
  BY <1>4
<1>7. \A k \in 1 .. n : s[k] = f[k - 1]
  BY <1>1
<1> HIDE DEF a, b, s
<1>8. ASSUME NEW k \in 1 .. (n + 1) PROVE a[k] = b[k]
  <2>1. CASE k = n + 1
    BY <1>5, <1>6, <2>1
  <2>2. CASE k # n + 1
    <3>1. k \in 1 .. n /\ k - 1 \in 0 .. (n - 1)
      BY <2>2
    <3> QED BY <1>5, <1>6, <1>7, <3>1 DEF Agree
  <2> QED BY <2>1, <2>2
<1>9. a = [k \in 1 .. (n + 1) |-> a[k]] /\ b = [k \in 1 .. (n + 1) |-> b[k]]
  BY <1>5, <1>6
<1> QED BY <1>8, <1>9 DEF a, b, s

LEMMA SeenShortened ==
    ASSUME NEW T, NEW f, NEW g, NEW n \in Nat \ {0},
           Holds(f, n, T), Agree(f, g, n - 1)
    PROVE  Seen(g, n - 1) = SubSeq(Seen(f, n), 1, n - 1)
<1>1. /\ Seen(f, n) \in Seq(T) /\ Len(Seen(f, n)) = n
      /\ \A k \in 1 .. n : Seen(f, n)[k] = f[k - 1]
  BY SeenIs
<1> DEFINE s == Seen(f, n)
<1>2. s \in Seq(T) /\ Len(s) = n /\ \A k \in 1 .. n : s[k] = f[k - 1]
  BY <1>1
<1> HIDE DEF s
<1>3. SubSeq(s, 1, n - 1) = [k \in 1 .. (n - 1) |-> s[k]]
  BY <1>2
<1>4. ASSUME NEW k \in 1 .. (n - 1) PROVE s[k] = g[k - 1]
  <2>1. k \in 1 .. n /\ k - 1 \in 0 .. (n - 1 - 1)
    OBVIOUS
  <2> QED BY <1>2, <2>1 DEF Agree
<1> QED BY <1>3, <1>4 DEF Seen, s

\* The line that is read, and the line with the key that is echoed: the key is
\* appended, or takes the last character.
LEMMA LineIs ==
    ASSUME Inv, pc \in {"read", "echo"}
    PROVE  /\ LineSoFar = Seen(line, i) /\ LineSoFar \in Seq(KeyChars \cup {End})
           /\ Len(LineSoFar) = i /\ i \in Nat
           /\ Holds(line, i, KeyChars \cup {End})
<1>1. i \in Nat /\ i \in LinePlaces /\ line \in [LinePlaces -> KeyChars \cup {End}]
  BY ShellTyped, ConsoleAssumption DEF ShellTypes, LinePlaces
<1>2. \A k \in 0 .. (i - 1) : k \in LinePlaces
  BY <1>1, ConsoleAssumption DEF LinePlaces
<1>3. Holds(line, i, KeyChars \cup {End})
  BY <1>1, <1>2 DEF Holds
<1>4. LineSoFar = Seen(line, i)
  BY DEF LineSoFar, Seen
<1> QED BY <1>1, <1>3, <1>4, SeenIs

LEMMA EditedLine ==
    ASSUME Inv, pc = "echo"
    PROVE  /\ key = Backspace /\ i >= 1 =>
                Seen(Stored, NextI) = SubSeq(LineSoFar, 1, Len(LineSoFar) - 1)
           /\ ~(key = Backspace /\ i >= 1) => Seen(Stored, NextI) = Append(LineSoFar, key)
<1>1. /\ LineSoFar = Seen(line, i) /\ i \in Nat
      /\ Holds(line, i, KeyChars \cup {End})
      /\ line \in [LinePlaces -> KeyChars \cup {End}] /\ i \in LinePlaces
      /\ key \in KeyChars \cup {End}
  BY LineIs, EchoedKey, ShellTyped DEF ShellTypes
<1>2. \A k \in 0 .. (i - 1) : k \in LinePlaces
  BY <1>1, ConsoleAssumption DEF LinePlaces
<1>3. CASE key = Backspace /\ i >= 1
  <2>1. NextI = i - 1 /\ Stored = [line EXCEPT ![i - 1] = End] /\ i \in Nat \ {0}
    BY <1>1, <1>3 DEF NextI, Stored
  <2>2. Agree(line, Stored, i - 1)
    <3>1. \A k \in 0 .. (i - 1 - 1) : k \in LinePlaces /\ k # i - 1
      BY <1>1, <1>2
    <3> QED BY <1>1, <2>1, <3>1 DEF Agree
  <2>3. Seen(Stored, i - 1) = SubSeq(Seen(line, i), 1, i - 1)
    <3>1. i \in Nat \ {0} /\ Holds(line, i, KeyChars \cup {End})
      BY <1>1, <2>1
    <3> QED BY <2>2, <3>1, SeenShortened
  <2>4. Len(LineSoFar) = i
    BY LineIs
  <2> QED BY <1>1, <1>3, <2>1, <2>3, <2>4
<1>4. CASE ~(key = Backspace /\ i >= 1)
  <2>1. NextI = i + 1 /\ Stored = [line EXCEPT ![i] = key]
    BY <1>4 DEF NextI, Stored
  <2>2. Stored[i] = key
    BY <1>1, <2>1
  <2>3. Agree(line, Stored, i)
    <3>1. \A k \in 0 .. (i - 1) : k \in LinePlaces /\ k # i
      BY <1>1, <1>2
    <3> QED BY <1>1, <2>1, <3>1 DEF Agree
  <2>4. Seen(Stored, i + 1) = Append(Seen(line, i), key)
    BY <1>1, <2>2, <2>3, SeenAppended
  <2> QED BY <1>1, <1>4, <2>1, <2>4
<1> QED BY <1>3, <1>4

\* What stands in front of the cursor while a line is read.
Prompted(s) == <<Prompt>> \o s

AllChars == Chars \cup {Blank} \cup KeyChars \cup {End}

LEMMA PromptedIs ==
    ASSUME NEW T, Prompt \in T, NEW s \in Seq(T)
    PROVE  /\ Prompted(s) \in Seq(T) /\ Len(Prompted(s)) = Len(s) + 1
           /\ \A c \in T : Prompted(Append(s, c)) = Append(Prompted(s), c)
           /\ s # << >> => Prompted(SubSeq(s, 1, Len(s) - 1))
                             = SubSeq(Prompted(s), 1, Len(Prompted(s)) - 1)
<1> DEFINE t == Prompted(s)
<1>1. t = [k \in 1 .. (Len(s) + 1) |-> IF k = 1 THEN Prompt ELSE s[k - 1]]
  BY DEF Prompted
<1>2. /\ t \in Seq(T) /\ Len(t) = Len(s) + 1 /\ Len(s) \in Nat
      /\ t[1] = Prompt /\ \A k \in 2 .. (Len(s) + 1) : t[k] = s[k - 1]
  <2>1. ASSUME NEW k \in 1 .. (Len(s) + 1)
        PROVE  (IF k = 1 THEN Prompt ELSE s[k - 1]) \in T
    OBVIOUS
  <2>2. t \in [1 .. (Len(s) + 1) -> T]
    BY <1>1, <2>1
  <2>3. t \in Seq(T) /\ Len(t) = Len(s) + 1 /\ Len(s) \in Nat
    <3> HIDE DEF t
    <3> QED BY <2>2
  <2>4. t[1] = Prompt /\ \A k \in 2 .. (Len(s) + 1) : t[k] = s[k - 1]
    <3> HIDE DEF t
    <3> QED BY <1>1, <2>3
  <2> QED BY <2>3, <2>4
<1>3. ASSUME NEW c \in T PROVE Prompted(Append(s, c)) = Append(t, c)
  <2> DEFINE u == Append(s, c)
             a == Prompted(u)
             b == Append(t, c)
  <2>1. u \in Seq(T) /\ Len(u) = Len(s) + 1 /\ u[Len(s) + 1] = c
        /\ \A k \in 1 .. Len(s) : u[k] = s[k]
    OBVIOUS
  <2>2. /\ b \in Seq(T) /\ Len(b) = Len(s) + 2 /\ b[Len(s) + 2] = c
        /\ \A k \in 1 .. (Len(s) + 1) : b[k] = t[k]
    <3> HIDE DEF t
    <3> QED BY <1>2
  <2> HIDE DEF u, t
  <2>3. a = [k \in 1 .. (Len(s) + 2) |-> IF k = 1 THEN Prompt ELSE u[k - 1]]
    BY <1>2, <2>1 DEF Prompted
  <2> HIDE DEF a, b
  <2>4. ASSUME NEW k \in 1 .. (Len(s) + 2)
        PROVE  b[k] = IF k = 1 THEN Prompt ELSE u[k - 1]
    <3>1. CASE k = 1
      BY <1>2, <2>2, <3>1
    <3>2. CASE k = Len(s) + 2
      BY <1>2, <2>1, <2>2, <3>2
    <3>3. CASE k \in 2 .. (Len(s) + 1)
      <4>1. k - 1 \in 1 .. Len(s)
        BY <1>2, <3>3
      <4> QED BY <1>2, <2>1, <2>2, <3>3, <4>1
    <3> QED BY <1>2, <3>1, <3>2, <3>3
  <2>5. b = [k \in 1 .. (Len(s) + 2) |-> b[k]]
    BY <2>2
  <2> QED BY <2>3, <2>4, <2>5 DEF a, b, u
<1>4. ASSUME s # << >>
      PROVE  Prompted(SubSeq(s, 1, Len(s) - 1)) = SubSeq(t, 1, Len(t) - 1)
  <2> DEFINE u == SubSeq(s, 1, Len(s) - 1)
             a == Prompted(u)
             b == SubSeq(t, 1, Len(t) - 1)
  <2>1. /\ u \in Seq(T) /\ Len(u) = Len(s) - 1 /\ Len(s) \in Nat \ {0}
        /\ \A k \in 1 .. (Len(s) - 1) : u[k] = s[k]
    BY <1>4, FrontIs
  <2> HIDE DEF u, t
  <2>2. b = [k \in 1 .. Len(s) |-> t[k]]
    BY <1>2
  <2>3. a = [k \in 1 .. Len(s) |-> IF k = 1 THEN Prompt ELSE u[k - 1]]
    BY <1>2, <2>1 DEF Prompted
  <2> HIDE DEF a, b
  <2>4. ASSUME NEW k \in 1 .. Len(s)
        PROVE  t[k] = IF k = 1 THEN Prompt ELSE u[k - 1]
    <3>1. CASE k = 1
      BY <1>2, <3>1
    <3>2. CASE k # 1
      <4>1. k - 1 \in 1 .. (Len(s) - 1) /\ k \in 2 .. (Len(s) + 1)
        BY <1>2, <3>2
      <4> QED BY <1>2, <2>1, <3>2, <4>1
    <3> QED BY <3>1, <3>2
  <2> QED BY <2>2, <2>3, <2>4 DEF a, b, u
<1> HIDE DEF t
<1>5. /\ t \in Seq(T) /\ Len(t) = Len(s) + 1
      /\ \A c \in T : Prompted(Append(s, c)) = Append(t, c)
      /\ s # << >> => Prompted(SubSeq(s, 1, Len(s) - 1)) = SubSeq(t, 1, Len(t) - 1)
  BY <1>2, <1>3, <1>4, Zenon
<1> QED BY <1>5, Zenon DEF t

\* While the cells in front of the cursor end with s, a character that is
\* printed makes them end with one more, if that is no longer than the screen
\* without a row; and a backspace with one less.
LEMMA PrintedEnding ==
    ASSUME ScreenInv, NEW s \in Seq(AllChars), Ending(Shown, s), NEW c \in Chars,
           PrintChar(c), Len(s) + 1 <= Width * (Height - 1)
    PROVE  Ending(Shown', Append(s, c))
<1>1. Put(c)
  BY TerminalAssumption DEF PrintChar
<1>2. Shown' = Screen!Fit(Append(Shown, c))
  BY <1>1, PutAdds DEF Screen!TAdd
<1>3. Shown \in Seq(AllChars) /\ c \in AllChars
  <2>1. Shown \in Seq(Chars \cup {Blank})
    BY ShownIsSeen
  <2> QED BY <2>1 DEF AllChars
<1>4. Ending(Append(Shown, c), Append(s, c))
  BY <1>3, EndingAppended
<1>5. /\ Append(Shown, c) \in Seq(AllChars) /\ Append(s, c) \in Seq(AllChars)
      /\ Len(Append(s, c)) = Len(s) + 1
  BY <1>3
<1> QED BY <1>2, <1>4, <1>5, EndingFits

LEMMA ErasedEnding ==
    ASSUME ScreenInv, NEW s \in Seq(AllChars), Ending(Shown, s), s # << >>,
           PrintChar(Backspace)
    PROVE  Ending(Shown', SubSeq(s, 1, Len(s) - 1))
<1>1. EraseLast
  BY TerminalAssumption DEF PrintChar
<1>2. Shown' = IF Shown = << >> THEN Shown ELSE SubSeq(Shown, 1, Len(Shown) - 1)
  BY <1>1, EraseTakes DEF Screen!TBackspace
<1>3. Shown \in Seq(AllChars)
  <2>1. Shown \in Seq(Chars \cup {Blank})
    BY ShownIsSeen
  <2> QED BY <2>1 DEF AllChars
<1>4. Shown # << >> /\ Ending(SubSeq(Shown, 1, Len(Shown) - 1), SubSeq(s, 1, Len(s) - 1))
  BY <1>3, EndingShortened
<1> QED BY <1>2, <1>4

\* EchoInv, for the line as it is stored.
LEMMA EchoInvIs ==
    ASSUME Inv, pc \in {"read", "echo"}
    PROVE  /\ Prompted(LineSoFar) \in Seq(AllChars)
           /\ EndsWith(Shown, Prompted(LineSoFar)) <=> Ending(Shown, Prompted(LineSoFar))
           /\ Len(Prompted(LineSoFar)) = i + 1
<1>1. LineSoFar \in Seq(KeyChars \cup {End}) /\ Len(LineSoFar) = i
  BY LineIs
<1>2. LineSoFar \in Seq(AllChars) /\ Prompt \in AllChars
  BY <1>1, ConsoleAssumption DEF AllChars
<1>3. Shown \in Seq(AllChars)
  <2>1. Shown \in Seq(Chars \cup {Blank})
    BY ShownIsSeen DEF Inv
  <2> QED BY <2>1 DEF AllChars
<1>4. Prompted(LineSoFar) \in Seq(AllChars) /\ Len(Prompted(LineSoFar)) = Len(LineSoFar) + 1
  BY <1>2, PromptedIs
<1> QED BY <1>1, <1>3, <1>4, EndsWithIs

\* The steps that leave the line and the screen alone.
LEMMA EchoSame ==
    ASSUME Inv, UNCHANGED <<tvars, line, i, spoilt>>, pc' = pc \/ (pc = "read" /\ pc' = "echo")
    PROVE  EchoInv'
<1>1. Shown' = Shown /\ LineSoFar' = LineSoFar
  BY DEF Shown, Cursor, LineSoFar, tvars
<1> QED BY <1>1 DEF Inv, EchoInv

LEMMA ShownTyped == ScreenInv => Shown \in Seq(AllChars)
<1> SUFFICES ASSUME ScreenInv PROVE Shown \in Seq(AllChars)
  OBVIOUS
<1>1. Shown \in Seq(Chars \cup {Blank})
  BY ShownIsSeen
<1> QED BY <1>1 DEF AllChars

LEMMA ShownTypedNext == ScreenInv' => Shown' \in Seq(AllChars)
<1>1. ScreenInv => Shown \in Seq(AllChars)
  BY ShownTyped
<1>2. (ScreenInv => Shown \in Seq(AllChars))'
  BY <1>1, PTL
<1> QED BY <1>2

LEMMA PromptEcho == ASSUME Inv, PrintPrompt PROVE EchoInv'
<1>1. /\ pc = "prompt" /\ PrintChar(Prompt) /\ i' = i /\ spoilt' = spoilt
      /\ i = 0 /\ ScreenInv
  BY DEF PrintPrompt, Shell, Inv, ShellInv
<1>2. Shown \in Seq(AllChars) /\ << >> \in Seq(AllChars) /\ Prompt \in AllChars
  BY <1>1, ShownTyped, ConsoleAssumption DEF AllChars
<1>3. Ending(Shown, << >>)
  BY <1>2 DEF Ending
<1>4. Len(<< >>) + 1 <= Width * (Height - 1)
  BY TerminalAssumption, ConsoleAssumption
<1>5. Ending(Shown', Append(<< >>, Prompt))
  <2> DEFINE s == << >>
  <2>1. s \in Seq(AllChars) /\ Ending(Shown, s) /\ Len(s) + 1 <= Width * (Height - 1)
    BY <1>2, <1>3, <1>4
  <2> HIDE DEF s
  <2>2. ScreenInv /\ Prompt \in Chars /\ PrintChar(Prompt)
    BY <1>1, ConsoleAssumption
  <2>3. Ending(Shown', Append(s, Prompt))
    BY <2>1, <2>2, PrintedEnding
  <2> QED BY <2>3 DEF s
<1>6. Append(<< >>, Prompt) = <<Prompt>> /\ <<Prompt>> \o LineSoFar' = <<Prompt>>
  BY <1>1 DEF LineSoFar
<1>7. ScreenInv'
  BY <1>1, StepPreserves, StepPrints DEF PrintPrompt, Next, Step
<1>8. Shown' \in Seq(AllChars)
  BY <1>7, ShownTypedNext
<1>9. <<Prompt>> \in Seq(AllChars)
  BY <1>2
<1>10. EndsWith(Shown', <<Prompt>>)
  BY <1>5, <1>6, <1>8, <1>9, EndsWithIs
<1> QED BY <1>6, <1>10 DEF EchoInv

LEMMA EchoEcho == ASSUME Inv, Echo PROVE EchoInv'
<1> SUFFICES ASSUME pc' = "read", ~spoilt' PROVE EndsWith(Shown', Prompted(LineSoFar'))
  <2>1. pc' \in {"read", "end"}
    BY DEF Echo
  <2> QED BY <2>1 DEF EchoInv, Prompted
<1>1. /\ pc = "echo" /\ PrintChar(key) /\ i' = NextI /\ line' = Stored
      /\ ~spoilt /\ ~(key = Backspace /\ i = 0) /\ ScreenInv
  BY DEF Echo, Shell, Inv
<1>2. /\ Prompted(LineSoFar) \in Seq(AllChars) /\ Ending(Shown, Prompted(LineSoFar))
      /\ Len(Prompted(LineSoFar)) = i + 1
  <2>1. EndsWith(Shown, Prompted(LineSoFar))
    BY <1>1 DEF Inv, EchoInv, Prompted
  <2> QED BY <1>1, <2>1, EchoInvIs
<1>3. LineSoFar' = Seen(Stored, NextI)
  BY <1>1 DEF LineSoFar, Seen
<1>4. /\ LineSoFar \in Seq(AllChars) /\ Prompt \in AllChars /\ key \in AllChars
      /\ i \in Nat /\ i < MaxLine - 1 /\ Len(LineSoFar) = i
      /\ key \in Chars \cup {Backspace}
  <2>1. LineSoFar \in Seq(KeyChars \cup {End}) /\ Len(LineSoFar) = i /\ i \in Nat
    BY <1>1, LineIs
  <2>2. LineSoFar \in Seq(AllChars)
    BY <2>1 DEF AllChars
  <2> QED BY <1>1, <2>1, <2>2, EchoedKey, ConsoleAssumption DEF AllChars
<1>5. ASSUME Ending(Shown', Prompted(LineSoFar')), Prompted(LineSoFar') \in Seq(AllChars)
      PROVE  EndsWith(Shown', Prompted(LineSoFar'))
  <2>1. ScreenInv'
    BY <1>1, StepPreserves, StepPrints DEF Next, Step
  <2>2. Shown' \in Seq(AllChars)
    BY <2>1, ShownTypedNext
  <2> QED BY <1>5, <2>2, EndsWithIs
<1>6. CASE key \in Chars
  <2>1. Ending(Shown', Append(Prompted(LineSoFar), key))
    <3>1. i + 2 <= Width * (Height - 1)
      BY <1>4, TerminalAssumption, ConsoleAssumption
    <3>2. Len(Prompted(LineSoFar)) + 1 <= Width * (Height - 1)
      BY <1>2, <1>4, <3>1
    <3> QED BY <1>1, <1>2, <1>6, <3>2, PrintedEnding
  <2>2. key # Backspace
    BY <1>6, TerminalAssumption
  <2>3. LineSoFar' = Append(LineSoFar, key)
    BY <1>1, <1>3, <2>2, EditedLine
  <2>4. /\ Prompted(LineSoFar') = Append(Prompted(LineSoFar), key)
    BY <1>4, <2>3, PromptedIs
  <2>5. Append(Prompted(LineSoFar), key) \in Seq(AllChars)
    BY <1>2, <1>4
  <2> QED BY <1>5, <2>1, <2>4, <2>5
<1>7. CASE key = Backspace
  <2>1. i >= 1
    BY <1>1, <1>4, <1>7
  <2>2. Prompted(LineSoFar) # << >> /\ LineSoFar # << >>
    BY <1>2, <1>4, <2>1
  <2> DEFINE s == SubSeq(Prompted(LineSoFar), 1, Len(Prompted(LineSoFar)) - 1)
  <2>3. Ending(Shown', s)
    BY <1>1, <1>2, <1>7, <2>2, ErasedEnding
  <2>4. LineSoFar' = SubSeq(LineSoFar, 1, Len(LineSoFar) - 1)
    BY <1>1, <1>3, <1>7, <2>1, EditedLine
  <2>5. Prompted(LineSoFar') = s
    <3>1. Prompt \in AllChars /\ LineSoFar \in Seq(AllChars) /\ LineSoFar # << >>
      BY <1>4, <2>2
    <3>2. Prompted(SubSeq(LineSoFar, 1, Len(LineSoFar) - 1)) = s
      BY <3>1, PromptedIs
    <3> QED BY <2>4, <3>2, Zenon
  <2>6. s \in Seq(AllChars)
    BY <1>2, <2>2, FrontIs
  <2> HIDE DEF s
  <2> QED BY <1>5, <2>3, <2>5, <2>6
<1> QED BY <1>4, <1>6, <1>7

\* A code changes the state of its key as it changes what is held.
LEMMA CodeHolds ==
    ASSUME Inv, NEW k \in Codes, NEW released \in BOOLEAN, ScanCode(k, released, Listening)
    PROVE  KeysInv'
<1>1. /\ keystates \in [Codes -> {"released", "clicked", "pressed"}]
      /\ keystates' = [keystates EXCEPT ![k] = Changed(keystates[k], released)]
      /\ held' = IF released THEN held \ {k} ELSE held \cup {k}
      /\ held = {c \in Codes : keystates[c] # "released"}
  BY DEF ScanCode, Inv, TypeOK, KeysInv
<1>2. Changed(keystates[k], released) = "released" <=> released
  BY ChangedIs
<1>3. ASSUME NEW c \in Codes PROVE c \in held' <=> keystates'[c] # "released"
  <2>1. CASE c = k
    <3>1. keystates'[c] = Changed(keystates[k], released)
      BY <1>1, <2>1
    <3>2. c \in held' <=> ~released
      BY <1>1, <2>1
    <3> QED BY <1>2, <3>1, <3>2
  <2>2. CASE c # k
    <3>1. keystates'[c] = keystates[c]
      BY <1>1, <2>2
    <3>2. c \in held' <=> c \in held
      BY <1>1, <2>2
    <3>3. c \in held <=> keystates[c] # "released"
      BY <1>1
    <3> QED BY <3>1, <3>2, <3>3
  <2> QED BY <2>1, <2>2
<1>4. held' \subseteq Codes
  BY <1>1
<1> QED BY <1>3, <1>4 DEF KeysInv

LEMMA KeysFollow == ASSUME Inv, [Next]_vars PROVE KeysInv'
<1>1. CASE UNCHANGED <<keystates, held>>
  BY <1>1 DEF Inv, KeysInv
<1>2. ASSUME NEW k \in Codes, NEW released \in BOOLEAN, ScanCode(k, released, Listening)
      PROVE  KeysInv'
  BY <1>2, CodeHolds
<1>3. CASE Interrupt
  <2>1. CASE BeyondTables(Listening)
    BY <1>1, <2>1 DEF BeyondTables
  <2> QED BY <1>1, <1>2, <1>3, <2>1 DEF Interrupt
<1>4. CASE Boot \/ BootFails \/ PrintPrompt \/ GetChar
  BY <1>1, <1>4 DEF Boot, BootFails, PrintPrompt, GetChar
<1>5. CASE Echo \/ EndLine \/ SystemReturns \/ CommandPrints \/ UNCHANGED vars
  BY <1>1, <1>5 DEF Echo, EndLine, SystemReturns, CommandPrints, vars
<1> QED BY <1>3, <1>4, <1>5 DEF Next, Step

LEMMA NextInv == Inv /\ [Next]_vars => Inv'
<1> SUFFICES ASSUME Inv, [Next]_vars PROVE Inv'
  OBVIOUS
<1>1. ScreenInv'
  BY StepPrints, StepPreserves DEF Inv
<1>0. KeysInv'
  BY KeysFollow
<1>2. CASE Boot
  <2>1. EchoInv'
    BY <1>2, EchoSame DEF Boot, shellvars
  <2> QED BY <1>0, <1>1, <1>2, <2>1, BootPreserves DEF Inv
<1>3. CASE BootFails
  <2>1. EchoInv'
    BY <1>3, EchoSame DEF BootFails, shellvars
  <2> QED BY <1>0, <1>1, <1>3, <2>1, BootFailsPreserves DEF Inv
<1>4. CASE Interrupt
  <2>1. EchoInv'
    BY <1>4, EchoSame DEF Interrupt, shellvars
  <2> QED BY <1>0, <1>1, <1>4, <2>1, InterruptPreserves DEF Inv
<1>5. CASE PrintPrompt
  BY <1>0, <1>1, <1>5, PromptEcho, PrintPromptPreserves DEF Inv
<1>6. CASE GetChar
  <2>1. EchoInv'
    <3>1. CASE pc' = "end"
      BY <3>1 DEF EchoInv
    <3>2. CASE pc' # "end"
      <4>1. UNCHANGED <<tvars, line, i, spoilt>> /\ (pc' = pc \/ (pc = "read" /\ pc' = "echo"))
        BY <1>6, <3>2, GetCharCases
      <4> QED BY <4>1, EchoSame
    <3> QED BY <3>1, <3>2
  <2> QED BY <1>0, <1>1, <1>6, <2>1, GetCharPreserves DEF Inv
<1>7. CASE Echo
  BY <1>0, <1>1, <1>7, EchoEcho, EchoPreserves DEF Inv
<1>8. CASE EndLine \/ SystemReturns \/ CommandPrints
  <2>1. pc' \in {"system", "prompt"}
    BY <1>8 DEF EndLine, SystemReturns, CommandPrints, Shell, shellvars
  <2>2. EchoInv'
    BY <2>1 DEF EchoInv
  <2> QED BY <1>0, <1>1, <1>8, <2>2, OtherPreserves DEF Inv
<1>9. CASE UNCHANGED vars
  <2>1. EchoInv'
    BY <1>9, EchoSame DEF vars, shellvars
  <2>2. TypeOK' /\ BootInv' /\ ShellInv'
    BY <1>9 DEF vars, tvars, bootvars, shellvars, Inv, TypeOK, TermTypeOK, BootInv, ShellInv,
                Past, At
  <2> QED BY <1>0, <1>1, <2>1, <2>2 DEF Inv
<1> QED BY <1>2, <1>3, <1>4, <1>5, <1>6, <1>7, <1>8, <1>9 DEF Next, Step

LEMMA ConsoleInvariant == Spec => []Inv
BY InitInv, NextInv, PTL DEF Spec

\* The screen, the keyboard and the shell are well typed: the place in the line
\* never leaves it, and the queue never outgrows its size.
THEOREM ConsoleTypeCorrect == Spec => []TypeOK
<1>1. Inv => TypeOK
  BY DEF Inv
<1> QED BY <1>1, ConsoleInvariant, PTL

\* Whichever call of kernel_main an interrupt comes after, paging is never on
\* with a null directory, and no key is kept before the shell has the focus.
THEOREM BootSafe == Spec => []BootIsSafe
<1>1. Inv => BootIsSafe
  <2> SUFFICES ASSUME Inv PROVE BootIsSafe
    OBVIOUS
  <2>1. stage \in StageNames \cup {"panic"}
    BY DEF Inv, TypeOK, StageNames
  <2> QED BY <2>1, Passed DEF Inv, BootInv, BootIsSafe
<1> QED BY <1>1, ConsoleInvariant, PTL

\* The line on the screen is the line that readline has: as it scrolls, wraps
\* and is erased, on a screen and with a buffer of any size that holds it.
THEOREM EchoExact == Spec => []EchoIsLine
<1>1. Inv => EchoIsLine
  BY DEF Inv, EchoInv, EchoIsLine
<1> QED BY <1>1, ConsoleInvariant, PTL

\* The console writes on its screen only through print, and so its screen is
\* the tape that Tape promises.
THEOREM ConsoleScreenIsTape == Spec => TapeRefinement
<1>1. Init => TermInit
  BY DEF Init
<1>2. Spec => TermSpec
  BY <1>1, StepPrints, PTL DEF Spec, TermSpec
<1> QED BY <1>2, ScreenIsTape


----------------------------------------------------------------------------
(* What is typed is what is run.                                           *)

\* A line up to its first End.
UpToEnd(f) == LET ends == {n \in DOMAIN f : f[n] = End}
                  length == CHOOSE n \in ends : \A m \in ends : n <= m
              IN  [n \in 1 .. length |-> f[n - 1]]

LEMMA UpToEndIs ==
    ASSUME NEW f, DOMAIN f = LinePlaces, NEW n \in LinePlaces, f[n] = End,
           \A m \in 0 .. (n - 1) : f[m] # End
    PROVE  UpToEnd(f) = Seen(f, n)
<1> DEFINE ends == {m \in DOMAIN f : f[m] = End}
<1>1. n \in ends
  OBVIOUS
<1>2. ASSUME NEW m \in ends PROVE n <= m /\ m \in Int
  BY ConsoleAssumption DEF LinePlaces
<1>3. ASSUME NEW m \in ends, \A l \in ends : m <= l PROVE m = n
  BY <1>1, <1>2, <1>3 DEF LinePlaces
<1>4. (CHOOSE m \in ends : \A l \in ends : m <= l) = n
  BY <1>1, <1>2, <1>3
<1> QED BY <1>4 DEF UpToEnd, Seen

\* The line while the shell waits for a key, and while it echoes one.
LEMMA ReadText ==
    Inv /\ stage = "user" /\ pc = "read" => /\ Edited = LineSoFar /\ ~Whole
                                            /\ Len(Edited) < MaxLine - 1
<1> SUFFICES ASSUME Inv, stage = "user", pc = "read"
             PROVE  Edited = LineSoFar /\ ~Whole /\ Len(Edited) < MaxLine - 1
  OBVIOUS
<1>1. Edited = LineSoFar /\ ~Whole
  BY DEF Edited, Whole, Shell
<1>2. Len(LineSoFar) = i /\ i < MaxLine - 1
  BY LineIs, ShellTyped, ConsoleAssumption DEF ShellTypes, LinePlaces
<1> QED BY <1>1, <1>2

LEMMA EchoText ==
    Inv /\ stage = "user" /\ pc = "echo" => /\ Edited = Seen(Stored, NextI)
                                            /\ Edited = Typed!Edit(LineSoFar, key)
                                            /\ Whole <=> Len(Edited) = MaxLine - 1
<1> SUFFICES ASSUME Inv, stage = "user", pc = "echo"
             PROVE  /\ Edited = Seen(Stored, NextI)
                    /\ Edited = Typed!Edit(LineSoFar, key)
                    /\ Whole <=> Len(Edited) = MaxLine - 1
  OBVIOUS
<1>1. Edited = Seen(Stored, NextI)
  BY DEF Edited, Shell, Seen
<1>2. Edited = Typed!Edit(LineSoFar, key)
  <2>1. LineSoFar \in Seq(KeyChars \cup {End}) /\ Len(LineSoFar) = i /\ i \in Nat
    BY LineIs
  <2>2. LineSoFar # << >> <=> i >= 1
    BY <2>1
  <2>3. CASE key = Backspace /\ i >= 1
    BY <1>1, <2>2, <2>3, EditedLine DEF Typed!Edit
  <2>4. CASE ~(key = Backspace /\ i >= 1)
    BY <1>1, <2>2, <2>4, EditedLine DEF Typed!Edit
  <2> QED BY <2>3, <2>4
<1>3. Len(Seen(Stored, NextI)) = NextI
  <2>1. /\ NextI \in LinePlaces /\ NextI <= MaxLine - 1
        /\ Stored \in [LinePlaces -> KeyChars \cup {End}]
    BY EchoedKey
  <2>2. NextI \in Nat /\ \A n \in 0 .. (NextI - 1) : n \in LinePlaces
    BY <2>1, ConsoleAssumption DEF LinePlaces
  <2>3. Holds(Stored, NextI, KeyChars \cup {End})
    BY <2>1, <2>2 DEF Holds
  <2> QED BY <2>1, <2>2, <2>3, SeenIs
<1>4. Whole <=> NextI = MaxLine - 1
  BY DEF Whole, Shell
<1> QED BY <1>1, <1>2, <1>3, <1>4

LEMMA EchoTextNext ==
    (Inv /\ stage = "user" /\ pc = "echo" => /\ Edited = Seen(Stored, NextI)
                                             /\ Edited = Typed!Edit(LineSoFar, key)
                                             /\ Whole <=> Len(Edited) = MaxLine - 1)'
BY EchoText, PTL

\* An End that is put after the line changes nothing of it.
LEMMA LineEnded ==
    ASSUME NEW f, DOMAIN f = LinePlaces, NEW n \in LinePlaces,
           \A m \in 0 .. (n - 1) : f[m] # End
    PROVE  UpToEnd([f EXCEPT ![n] = End]) = Seen(f, n)
<1> DEFINE g == [f EXCEPT ![n] = End]
<1>1. DOMAIN g = LinePlaces /\ g[n] = End /\ n \in Nat
  BY DEF LinePlaces
<1>2. ASSUME NEW m \in 0 .. (n - 1) PROVE g[m] = f[m]
  <2>1. m \in LinePlaces /\ m # n
    BY ConsoleAssumption DEF LinePlaces
  <2> QED BY <2>1
<1> HIDE DEF g
<1>3. Agree(f, g, n) /\ \A m \in 0 .. (n - 1) : g[m] # End
  BY <1>2 DEF Agree
<1>4. UpToEnd(g) = Seen(g, n)
  BY <1>1, <1>3, UpToEndIs
<1>5. Seen(f, n) = Seen(g, n)
  BY <1>1, <1>3, SeenSame
<1> QED BY <1>4, <1>5 DEF g

----------------------------------------------------------------------------
(* The steps of Typing.                                                    *)

\* A listener keeps the character of a click, unless the queue is full.
LEMMA NotifyOffers ==
    ASSUME NEW char, NEW state, Notify(Listening, char, state)
    PROVE  buffer' = IF state = "clicked" THEN Typed!Offered(char) ELSE buffer
BY DEF Notify, Typed!Offered

LEMMA ScanCodeTypes ==
    ASSUME Inv, NEW k \in Codes, NEW released \in BOOLEAN,
           ScanCode(k, released, Listening), UNCHANGED <<Listening, Edited, Whole>>
    PROVE  Typed!YNext
<1>1. /\ keystates \in [Codes -> {"released", "clicked", "pressed"}]
      /\ keystates' = [keystates EXCEPT ![k] = Changed(keystates[k], released)]
      /\ held' = IF released THEN held \ {k} ELSE held \cup {k}
      /\ k \in held <=> keystates[k] # "released"
      /\ Notify(Listening, CharOf[k], keystates'[k])
  BY DEF ScanCode, Inv, TypeOK, KeysInv
<1>2. keystates'[k] = Changed(keystates[k], released)
  BY <1>1
<1>3. buffer' = IF keystates'[k] = "clicked" THEN Typed!Offered(CharOf[k]) ELSE buffer
  BY <1>1, NotifyOffers
<1>4. CASE released
  <2>1. buffer' = buffer
    BY <1>2, <1>3, <1>4, ChangedIs
  <2>2. Typed!Up(k)
    BY <1>1, <1>4, <2>1 DEF Typed!Up
  <2> QED BY <2>2 DEF Typed!YNext
<1>5. CASE ~released
  <2>1. keystates'[k] = "clicked" <=> k \notin held
    BY <1>1, <1>2, <1>5, ChangedIs
  <2>2. buffer' = IF k \in held THEN buffer ELSE Typed!Offered(CharOf[k])
    BY <1>3, <2>1
  <2>3. Typed!Down(k)
    BY <1>1, <1>5, <2>2 DEF Typed!Down
  <2> QED BY <2>3 DEF Typed!YNext
<1> QED BY <1>4, <1>5

\* Nothing of the line changes but with the shell's own variables.
LEMMA LineSame ==
    ASSUME UNCHANGED <<stage, shellvars>>
    PROVE  UNCHANGED <<Listening, Edited, Whole>>
<1>1. Listening' = Listening
  BY DEF Listening, Past, At
<1>2. Edited' = Edited
  BY DEF Edited, Shell, NextI, Stored, LineGiven, LineSoFar, shellvars
<1>3. Whole' = Whole
  BY DEF Whole, Shell, NextI, shellvars
<1> QED BY <1>1, <1>2, <1>3

LEMMA InterruptTypes == ASSUME Inv, Interrupt PROVE [Typed!YNext]_(Typed!yvars)
<1>1. UNCHANGED <<stage, shellvars>>
  BY DEF Interrupt
<1>2. UNCHANGED <<Listening, Edited, Whole>>
  BY <1>1, LineSame
<1>3. CASE UNCHANGED <<keystates, held, buffer>>
  BY <1>2, <1>3 DEF Typed!yvars
<1>4. CASE BeyondTables(Listening)
  <2>1. PICK char \in BeyondChars, state \in {"clicked", "pressed"} :
           Notify(Listening, char, state)
    BY <1>4 DEF BeyondTables
  <2>2. buffer' \in {buffer, Typed!Offered(char)} /\ held' = held
    BY <1>4, <2>1, NotifyOffers DEF BeyondTables
  <2>3. Typed!Other
    BY <1>2, <2>2 DEF Typed!Other
  <2> QED BY <2>3 DEF Typed!YNext
<1>5. ASSUME NEW k \in Codes, NEW released \in BOOLEAN, ScanCode(k, released, Listening)
      PROVE  Typed!YNext
  BY <1>2, <1>5, ScanCodeTypes
<1> QED BY <1>3, <1>4, <1>5 DEF Interrupt

\* While the shell runs the keyboard is listened to.
LEMMA UserListens ==
    ASSUME stage = "user", stage' = "user" PROVE Listening /\ UNCHANGED Listening
<1>1. Listening
  BY Passed, StageNamesAre DEF Listening
<1>2. UNCHANGED Listening
  BY DEF Listening, Past, At
<1> QED BY <1>1, <1>2

\* readline takes the first of the characters that wait, and edits the line
\* with it; a new line only ends it.
LEMMA GetCharTypes == ASSUME Inv, Inv', GetChar PROVE [Typed!YNext]_(Typed!yvars)
<1>1. /\ stage = "user" /\ pc = "read" /\ stage' = "user" /\ held' = held
      /\ buffer' = IF buffer = << >> THEN buffer ELSE Tail(buffer)
      /\ i' = i
  BY GetCharCases DEF bootvars, GetChar
<1>0. Listening /\ Listening' = Listening
  BY <1>1, UserListens
<1>2. /\ Edited = LineSoFar /\ ~Whole /\ Len(Edited) < MaxLine - 1
      /\ LineSoFar = Seen(line, i) /\ i \in LinePlaces
      /\ DOMAIN line = LinePlaces /\ \A n \in 0 .. (i - 1) : line[n] # End
  BY <1>1, ReadText, LineIs, ShellTyped DEF ShellTypes, Inv, ShellInv
<1>3. /\ Got \in {NoKey, NewLine} => Edited' = Edited
      /\ Got \notin {NoKey, NewLine} => Edited' = Typed!Edit(Edited, Got)
      /\ Whole' <=> Got = NewLine \/ Len(Edited') = MaxLine - 1
  <2>1. CASE Got = NoKey /\ UNCHANGED <<pc, line, key>>
    <3>1. Edited' = Edited /\ Whole' = Whole
      BY <1>1, <2>1 DEF Edited, Whole, Shell, LineSoFar
    <3>2. Got # NewLine /\ Len(Edited') # MaxLine - 1
      BY <1>2, <2>1, <3>1, ConsoleAssumption
    <3> QED BY <1>2, <2>1, <3>1, <3>2
  <2>2. CASE Got = NewLine /\ pc' = "end" /\ line' = [line EXCEPT ![i] = End]
    <3>1. Edited' = UpToEnd(line') /\ Whole'
      BY <1>1, <2>2 DEF Edited, Whole, Shell, LineGiven, UpToEnd
    <3>2. UpToEnd(line') = Seen(line, i)
      BY <1>2, <2>2, LineEnded
    <3> QED BY <1>2, <2>2, <3>1, <3>2
  <2>3. CASE Got \notin {NoKey, NewLine} /\ pc' = "echo" /\ key' = Got /\ UNCHANGED line
    <3>1. LineSoFar' = LineSoFar
      BY <1>1, <2>3 DEF LineSoFar
    <3>2. /\ Edited' = Typed!Edit(LineSoFar, Got)
          /\ Whole' <=> Len(Edited') = MaxLine - 1
      BY <1>1, <2>3, <3>1, EchoTextNext DEF Typed!Edit
    <3> QED BY <1>2, <2>3, <3>2
  <2> QED BY <2>1, <2>2, <2>3, GetCharCases
<1>4. CASE buffer = << >>
  <2>1. Got = NoKey /\ NoKey # NewLine /\ buffer' = buffer
    BY <1>1, <1>4, ConsoleAssumption DEF Got
  <2>2. Edited' = Edited
    BY <1>3, <2>1
  <2>3. Len(Edited') # MaxLine - 1
    BY <1>2, <2>2, ConsoleAssumption
  <2>4. Whole' = Whole
    BY <1>2, <1>3, <2>1, <2>3 DEF Whole
  <2> QED BY <1>0, <1>1, <2>1, <2>2, <2>4 DEF Typed!yvars
<1>5. CASE buffer # << >>
  <2>1. Got = Head(buffer) /\ buffer' = Tail(buffer)
    BY <1>1, <1>5 DEF Got
  <2>2. Whole' = (Head(buffer) = NewLine \/ Len(Edited') = MaxLine - 1)
    BY <1>3, <2>1 DEF Whole
  <2>3. Typed!Take
    BY <1>0, <1>1, <1>2, <1>3, <1>5, <2>1, <2>2 DEF Typed!Take
  <2> QED BY <2>3 DEF Typed!YNext
<1> QED BY <1>4, <1>5

\* The echo changes nothing of the line, and nothing waits for it.
LEMMA EchoTypes == ASSUME Inv, Echo PROVE UNCHANGED Typed!yvars
<1>1. /\ stage = "user" /\ pc = "echo" /\ stage' = "user" /\ i' = NextI
      /\ UNCHANGED <<keystates, held, buffer>>
      /\ UNCHANGED Listening
      /\ IF NextI = MaxLine - 1
         THEN pc' = "end" /\ line' = [Stored EXCEPT ![NextI] = End]
         ELSE pc' = "read" /\ line' = Stored
  BY UserListens DEF Echo, Shell, bootvars
<1>2. /\ Edited = Seen(Stored, NextI) /\ NextI \in LinePlaces
      /\ DOMAIN Stored = LinePlaces /\ \A n \in 0 .. (NextI - 1) : Stored[n] # End
  BY <1>1, EchoText, EchoedKey
<1>3. CASE NextI = MaxLine - 1
  <2>1. Edited' = UpToEnd(line')
    BY <1>1, <1>3 DEF Edited, Shell, LineGiven, UpToEnd
  <2>2. UpToEnd(line') = Seen(Stored, NextI)
    BY <1>1, <1>2, <1>3, LineEnded
  <2>3. Whole /\ Whole'
    BY <1>1, <1>3 DEF Whole, Shell
  <2>4. Whole' = Whole
    BY <2>3 DEF Whole
  <2> QED BY <1>1, <1>2, <2>1, <2>2, <2>4 DEF Typed!yvars
<1>4. CASE NextI # MaxLine - 1
  <2>1. Edited' = Seen(Stored, NextI)
    BY <1>1, <1>4 DEF Edited, Shell, LineSoFar, Seen
  <2>2. ~Whole /\ ~Whole'
    BY <1>1, <1>4 DEF Whole, Shell
  <2>3. Whole' = Whole
    BY <2>2 DEF Whole
  <2> QED BY <1>1, <1>2, <2>1, <2>3 DEF Typed!yvars
<1> QED BY <1>3, <1>4

LEMMA PromptTypes == ASSUME Inv, PrintPrompt PROVE UNCHANGED Typed!yvars
<1>1. /\ stage = "user" /\ pc = "prompt" /\ stage' = "user" /\ pc' = "read"
      /\ i = 0 /\ i' = 0 /\ UNCHANGED <<keystates, held, buffer>>
      /\ UNCHANGED Listening
  BY UserListens DEF PrintPrompt, Shell, bootvars, Inv, ShellInv
<1>2. LineSoFar' = << >>
  BY <1>1 DEF LineSoFar
<1>3. Edited = << >> /\ Edited' = << >> /\ Whole' = Whole
  BY <1>1, <1>2 DEF Edited, Whole, Shell
<1> QED BY <1>1, <1>3 DEF Typed!yvars

\* _switch gives the shell its keyboard; no other call of the boot does
\* anything for who types.
LEMMA BootTypes == ASSUME Inv, Boot \/ BootFails PROVE [Typed!YNext]_(Typed!yvars)
<1>1. /\ stage \in StageNames \ {"user", "panic"} /\ pc = "prompt" /\ pc' = "prompt"
      /\ UNCHANGED <<keystates, held, buffer>>
      /\ stage' = Stages[At(stage) + 1] \/ (stage = "load" /\ stage' = "panic")
  BY StageNamesAre DEF Boot, BootFails, Inv, ShellInv, TypeOK, StageNames, shellvars
<1>2. stage \in StageNames \cup {"panic"} /\ stage' \in StageNames \cup {"panic"}
  BY <1>1, Onward, StageNamesAre
<1>3. Edited = << >> /\ Edited' = << >> /\ ~Whole /\ ~Whole'
  BY <1>1 DEF Edited, Whole, Shell
<1>4. Whole' = Whole
  BY <1>3 DEF Whole
<1>5. /\ Listening <=> stage \in {"run", "user"}
      /\ Listening' <=> stage' \in {"run", "user"}
  BY <1>2, Passed, PassedNext DEF Listening
<1>6. CASE stage = "focus"
  <2>1. stage' = "run"
    BY <1>1, <1>6, Onward
  <2>2. ~Listening /\ Listening' = TRUE
    BY <1>5, <1>6, <2>1 DEF Listening
  <2> QED BY <1>1, <1>3, <1>4, <2>2 DEF Typed!YNext, Typed!Listen
<1>7. CASE stage # "focus"
  <2>1. Listening' <=> Listening
    BY <1>1, <1>5, <1>7, Onward
  <2>2. Listening' = Listening
    BY <2>1 DEF Listening, Past
  <2> QED BY <1>1, <1>3, <1>4, <2>2 DEF Typed!yvars
<1> QED BY <1>6, <1>7

LEMMA NextTypes == ASSUME Inv, Inv', [Next]_vars PROVE [Typed!YNext]_(Typed!yvars)
<1>1. CASE Boot \/ BootFails
  BY <1>1, BootTypes
<1>2. CASE Interrupt
  BY <1>2, InterruptTypes
<1>3. CASE PrintPrompt
  BY <1>3, PromptTypes
<1>4. CASE GetChar
  BY <1>4, GetCharTypes
<1>5. CASE Echo
  BY <1>5, EchoTypes
<1>6. CASE EndLine
  <2>1. /\ stage = "user" /\ pc = "end" /\ stage' = "user" /\ pc' = "system"
        /\ UNCHANGED <<keystates, held, buffer, line>> /\ UNCHANGED Listening
    BY <1>6, UserListens DEF EndLine, Shell, bootvars
  <2>2. Edited' = Edited /\ Whole' = Whole
    BY <2>1 DEF Edited, Whole, Shell, LineGiven
  <2> QED BY <2>1, <2>2 DEF Typed!yvars
<1>7. CASE SystemReturns
  <2>1. /\ stage = "user" /\ pc = "system" /\ stage' = "user" /\ pc' = "prompt"
        /\ UNCHANGED <<keystates, held, buffer>> /\ UNCHANGED Listening
    BY <1>7, UserListens DEF SystemReturns, Shell, bootvars
  <2>2. Edited' = << >> /\ Whole /\ Whole' = FALSE
    BY <2>1 DEF Edited, Whole, Shell
  <2> QED BY <2>1, <2>2 DEF Typed!YNext, Typed!GiveUp
<1>8. CASE CommandPrints \/ UNCHANGED vars
  <2>1. UNCHANGED <<keystates, held, buffer, stage, shellvars>>
    BY <1>8 DEF CommandPrints, vars, bootvars
  <2> QED BY <2>1, LineSame DEF Typed!yvars
<1> QED BY <1>1, <1>2, <1>3, <1>4, <1>5, <1>6, <1>7, <1>8 DEF Next, Step

\* What is typed is what is run: whatever keys are pressed and held while the
\* shell is busy, each character that the queue took edits the line once and in
\* its turn, and system() is given that line, for a queue and a line of any size.
THEOREM ConsoleTypes == Spec => TypingRefinement
<1>1. Init => Typed!YInit
  <2> SUFFICES ASSUME Init PROVE Typed!YInit
    OBVIOUS
  <2>1. held = {} /\ buffer = << >> /\ stage = "init"
    BY DEF Init, KeyInit
  <2>2. Edited = << >> /\ ~Whole
    BY <2>1 DEF Edited, Whole, Shell
  <2>3. ~Listening
    BY <2>1, Passed, StageNamesAre DEF Listening
  <2> QED BY <2>1, <2>2, <2>3 DEF Typed!YInit
<1>2. Inv /\ Inv' /\ [Next]_vars => [Typed!YNext]_(Typed!yvars)
  BY NextTypes
<1> QED BY <1>1, <1>2, ConsoleInvariant, PTL DEF Spec, TypingRefinement, Typed!YSpec
=============================================================================
