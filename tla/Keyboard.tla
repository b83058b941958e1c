------------------------------ MODULE Keyboard ------------------------------
(***************************************************************************)
(* drivers/keyboard: the PS/2 driver, which keeps a state for each key and *)
(* tells the listeners of every scan code, and the listener of the process *)
(* table, which keeps the characters of the keys that are clicked.  The    *)
(* controller repeats the code of a key while it is held.                  *)
(***************************************************************************)
EXTENDS Integers, Sequences

CONSTANTS
    Codes,          \* the scan codes below KEYS_COUNT
    CharOf,         \* kbdus
    NoKey,          \* the character 0
    BeyondChars,    \* what kbdus[scancode] may be for another scan code
    BufferSize

ASSUME KeyboardAssumption == BufferSize \in Nat

VARIABLES
    keystates,
    buffer,         \* process_t::keyboard of process 0
    held            \* history: the keys that are down, by the codes that came

KeyChars == {CharOf[k] : k \in Codes} \cup BeyondChars

KeyInit == /\ keystates = [k \in Codes |-> "released"]
           /\ buffer = << >> /\ held = {}

\* Mutant of Changed: a key that is let go stays pressed.
ChangedStuck(state, released) == IF ~released /\ state = "released" THEN "clicked" ELSE "pressed"

\* irq_handler: the new state of the key of a scan code.
Changed(state, released) ==
    IF released THEN "released" ELSE IF state = "released" THEN "clicked" ELSE "pressed"

\* Mutant of Notify: a full queue takes another character.
NotifyUnchecked(listening, char, state) ==
    buffer' = IF listening /\ state = "clicked" THEN Append(buffer, char) ELSE buffer

\* keyboard_listener.  The push into a full queue is refused.
Notify(listening, char, state) ==
    buffer' = IF listening /\ state = "clicked" /\ Len(buffer) < BufferSize
              THEN Append(buffer, char) ELSE buffer

\* The interrupt of a scan code of the tables.
ScanCode(k, released, listening) ==
    /\ keystates' = [keystates EXCEPT ![k] = Changed(@, released)]
    /\ held' = IF released THEN held \ {k} ELSE held \cup {k}
    /\ Notify(listening, CharOf[k], keystates'[k])

\* F11, F12 and the prefix of the extended keys: the character and the state
\* are read past the end of kbdus and of keystates, and a byte that belongs to
\* neither is written.  The key may be clicked, with any character.
BeyondTables(listening) ==
    /\ \E char \in BeyondChars, state \in {"clicked", "pressed"} :
         Notify(listening, char, state)
    /\ UNCHANGED <<keystates, held>>
=============================================================================
