------------------------------- MODULE Typing -------------------------------
(***************************************************************************)
(* What the keyboard and the shell promise who types, from when the shell  *)
(* listens on: a key gives its character once for each time it goes down,  *)
(* unless BufferSize characters wait already; the characters wait in       *)
(* order; each edits the line when its turn comes; a line is ended by its  *)
(* new line or by its last character, and only then is it given up.        *)
(***************************************************************************)
EXTENDS Integers, Sequences

CONSTANTS Codes, CharOf, NoKey, BeyondChars, BufferSize,
          NewLine, Backspace, Longest

VARIABLES
    listening,
    down,           \* the keys that are down
    pending,        \* the characters that wait
    text, ended     \* the line as it was edited, and whether it is whole

yvars == <<listening, down, pending, text, ended>>

YInit == ~listening /\ down = {} /\ pending = << >> /\ text = << >> /\ ~ended

Listen == /\ ~listening /\ listening' = TRUE
          /\ UNCHANGED <<down, pending, text, ended>>

Offered(char) == IF listening /\ Len(pending) < BufferSize
                 THEN Append(pending, char) ELSE pending

\* The code of a key that is down already is a repetition.
Down(k) == /\ down' = down \cup {k}
           /\ pending' = IF k \in down THEN pending ELSE Offered(CharOf[k])
           /\ UNCHANGED <<listening, text, ended>>

Up(k) == down' = down \ {k} /\ UNCHANGED <<listening, pending, text, ended>>

\* A key that the driver has no room for.
Other == /\ pending' \in {pending} \cup {Offered(c) : c \in BeyondChars}
         /\ UNCHANGED <<listening, down, text, ended>>

\* A backspace takes the last character; in an empty line it is one.
Edit(t, c) == IF c = Backspace /\ t # << >> THEN SubSeq(t, 1, Len(t) - 1) ELSE Append(t, c)

Take == /\ ~ended /\ pending # << >> /\ pending' = Tail(pending)
        /\ text' = IF Head(pending) \in {NoKey, NewLine} THEN text
                   ELSE Edit(text, Head(pending))
        /\ ended' = (Head(pending) = NewLine \/ Len(text') = Longest)
        /\ UNCHANGED <<listening, down>>

GiveUp == /\ ended /\ ended' = FALSE /\ text' = << >>
          /\ UNCHANGED <<listening, down, pending>>

YNext == Listen \/ (\E k \in Codes : Down(k) \/ Up(k)) \/ Other \/ Take \/ GiveUp

YSpec == YInit /\ [][YNext]_yvars
=============================================================================
