--------------------------- MODULE CircularQueue ---------------------------
(***************************************************************************)
(* circular_queue_t of os/ds/circular_queue.h, the keyboard buffer of a    *)
(* process.  The indices are C ints and `size' is a size_t, so an index is *)
(* converted to an unsigned word before the remainder is taken.            *)
(***************************************************************************)
EXTENDS Integers, Sequences

CONSTANTS
    Size,           \* the template argument; KEYBOARD_BUFFER_SIZE
    Word,           \* number of values of a size_t, 2^32
    Elements,
    Unset           \* what a slot holds before the first push into it

\* pop_back steps from slot 0 to the last slot by an unsigned remainder, which
\* is right only when the size divides the word.
ASSUME QueueAssumption ==
    /\ Size \in Nat \ {0}
    /\ Word \in Nat \ {0}
    /\ Word % Size = 0

VARIABLES rear, front, data, ok

qvars == <<rear, front, data, ok>>

Slots == 0 .. (Size - 1)
None  == -1

\* An int used as an operand of % size.
Unsigned(i) == i % Word

Empty == front = None

\* Mutant of Full: the queue is full one element early.
FullEarly == Unsigned(rear + 2) % Size = front

Full  == \/ front = 0 /\ rear = Size - 1
         \/ Unsigned(rear + 1) % Size = front

QInit == /\ rear = None /\ front = None
         /\ data = [s \in Slots |-> Unset]
         /\ ok = TRUE

Push(e) ==
    \/ /\ Full
       /\ ok' = FALSE
       /\ UNCHANGED <<rear, front, data>>
    \/ /\ ~Full
       /\ ok' = TRUE
       /\ IF front = None
          THEN front' = 0 /\ rear' = 0
          ELSE rear' = Unsigned(rear + 1) % Size /\ front' = front
       /\ data' = [data EXCEPT ![rear'] = e]

\* The last element leaves: both indices are reset.  The assertions that the
\* queue is not empty are compiled out (lib/assert.h), and an empty queue
\* takes this branch too.
Reset == front = rear /\ front' = None /\ rear' = None

Pop == /\ \/ Reset
          \/ /\ front # rear
             /\ front' = Unsigned(front + 1) % Size
             /\ rear' = rear
       /\ UNCHANGED <<data, ok>>

PopBack == /\ \/ Reset
              \/ /\ front # rear
                 /\ rear' = Unsigned(rear - 1) % Size
                 /\ front' = front
           /\ UNCHANGED <<data, ok>>

QNext == (\E e \in Elements : Push(e)) \/ Pop \/ PopBack

QSpec == QInit /\ [][QNext]_qvars

----------------------------------------------------------------------------

QTypeOK == /\ rear \in Slots \cup {None}
           /\ front \in Slots \cup {None}
           /\ data \in [Slots -> Elements \cup {Unset}]
           /\ ok \in BOOLEAN

\* The elements in the slots from f to r, around the end of the array.
Count(f, r) == IF f = None THEN 0
               ELSE IF r >= f THEN r - f + 1
               ELSE r - f + 1 + Size

SlotOf(f, k) == IF f + k - 1 < Size THEN f + k - 1 ELSE f + k - 1 - Size

Window(f, r, d) == [k \in 1 .. Count(f, r) |-> d[SlotOf(f, k)]]

Contents == Window(front, rear, data)

\* The queue is a first-in first-out sequence that refuses an element exactly
\* when it holds Size of them: no element is lost, doubled or reordered when
\* the indices go round, and the reset of an emptied queue loses nothing.
Deque == INSTANCE BoundedDeque WITH q <- Contents

QRefinement == Deque!DSpec
=============================================================================
