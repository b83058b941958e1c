---------------------------- MODULE BoundedDeque ----------------------------
(***************************************************************************)
(* What circular_queue_t promises: a sequence of at most Size elements.    *)
(* An element is added at the rear, and refused when the sequence is full; *)
(* elements leave at the front or at the rear; to take one from an empty   *)
(* sequence changes nothing.                                               *)
(***************************************************************************)
EXTENDS Integers, Sequences

CONSTANTS Size, Elements

VARIABLES
    q,              \* the elements, from front to rear
    ok              \* what the last push returned

dvars == <<q, ok>>

DInit == q = << >> /\ ok = TRUE

DPush(e) == IF Len(q) < Size
            THEN q' = Append(q, e) /\ ok' = TRUE
            ELSE q' = q /\ ok' = FALSE

DPop == q' = (IF q = << >> THEN q ELSE Tail(q)) /\ ok' = ok

DPopBack == q' = (IF q = << >> THEN q ELSE SubSeq(q, 1, Len(q) - 1)) /\ ok' = ok

DNext == (\E e \in Elements : DPush(e)) \/ DPop \/ DPopBack

DSpec == DInit /\ [][DNext]_dvars
=============================================================================
