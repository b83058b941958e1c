------------------------ MODULE CircularQueueProofs ------------------------
(***************************************************************************)
(* The circular queue is a bounded deque, for every size that divides the  *)
(* word.                                                                   *)
(***************************************************************************)
EXTENDS CircularQueue, SequenceTheorems, TLAPS

----------------------------------------------------------------------------
(* Index arithmetic.                                                       *)

\* The remainder is unique.
LEMMA Remainder ==
    ASSUME NEW m \in Nat \ {0}, NEW k \in Int, NEW r \in 0 .. (m - 1)
    PROVE  (k * m + r) % m = r
<1> DEFINE x  == k * m + r
           d  == x \div m
           rr == x % m
<1>1. x \in Int
  OBVIOUS
<1>2. d \in Int /\ rr \in 0 .. (m - 1) /\ x = (d * m) + rr
  BY <1>1
<1> HIDE DEF d, rr
<1>3. (k - d) * m = rr - r
  BY <1>2
<1>4. k - d < 1
  <2> SUFFICES ASSUME k - d >= 1 PROVE FALSE
    BY <1>2
  <2>1. (k - d) * m >= m
    BY <1>2
  <2> QED
    BY <1>2, <1>3, <2>1
<1>5. k - d > -1
  <2> SUFFICES ASSUME k - d <= -1 PROVE FALSE
    BY <1>2
  <2>1. (k - d) * m <= -m
    BY <1>2
  <2> QED
    BY <1>2, <1>3, <2>1
<1>6. k = d
  BY <1>2, <1>4, <1>5
<1>7. rr = r
  BY <1>2, <1>3, <1>6
<1> QED
  BY <1>7 DEF rr

\* The size of a queue is no larger than a word can count.
LEMMA SizeFitsWord == Size <= Word
<1>1. ASSUME Word < Size PROVE FALSE
  <2>1. Word % Size = Word
    BY <1>1, QueueAssumption
  <2> QED
    BY <2>1, QueueAssumption
<1> QED
  BY <1>1, QueueAssumption

\* The next slot, and around the end the first one.
LEMMA NextSlot ==
    ASSUME NEW x \in Slots
    PROVE  Unsigned(x + 1) % Size = IF x = Size - 1 THEN 0 ELSE x + 1
<1> USE QueueAssumption, SizeFitsWord DEF Slots
<1>1. CASE x = Size - 1
  <2>1. Unsigned(x + 1) = Size % Word
    BY <1>1 DEF Unsigned
  <2>2. CASE Size = Word
    <3>1. Size % Word = 0
      BY <2>2
    <3>2. 0 % Size = 0
      OBVIOUS
    <3> QED
      BY <1>1, <2>1, <3>1, <3>2
  <2>3. CASE Size < Word
    <3>1. Size % Word = Size
      BY <2>3
    <3>2. Size % Size = 0
      OBVIOUS
    <3> QED
      BY <1>1, <2>1, <3>1, <3>2
  <2> QED
    BY <2>2, <2>3
<1>2. CASE x < Size - 1
  <2>1. (x + 1) % Word = x + 1 /\ (x + 1) % Size = x + 1
    BY <1>2
  <2> QED
    BY <1>2, <2>1 DEF Unsigned
<1> QED
  BY <1>1, <1>2

\* The slot before, and around the start the last one: this is where the size
\* must divide the word.
LEMMA PreviousSlot ==
    ASSUME NEW x \in Slots
    PROVE  Unsigned(x - 1) % Size = IF x = 0 THEN Size - 1 ELSE x - 1
<1> USE QueueAssumption, SizeFitsWord DEF Slots
<1>1. CASE x = 0
  <2>1. (-1) % Word = Word - 1
    OBVIOUS
  <2>2. (Word - 1) % Size = Size - 1
    <3> DEFINE d == Word \div Size
    <3>1. Word = (d * Size) + (Word % Size) /\ d \in Int
      OBVIOUS
    <3>2. Word - 1 = (d - 1) * Size + (Size - 1)
      BY <3>1
    <3>3. d - 1 \in Int /\ Size - 1 \in 0 .. (Size - 1)
      BY <3>1
    <3> HIDE DEF d
    <3>4. ((d - 1) * Size + (Size - 1)) % Size = Size - 1
      BY <3>3, Remainder
    <3> QED
      BY <3>2, <3>4
  <2> QED
    BY <1>1, <2>1, <2>2 DEF Unsigned
<1>2. CASE x > 0
  <2>1. (x - 1) % Word = x - 1 /\ (x - 1) % Size = x - 1
    BY <1>2
  <2> QED
    BY <1>2, <2>1 DEF Unsigned
<1> QED
  BY <1>1, <1>2

----------------------------------------------------------------------------
(* Sequences.                                                              *)

\* A function on 1 .. m is a sequence of length m.
LEMMA FunctionIsSequence ==
    ASSUME NEW S, NEW m \in Nat, NEW f \in [1 .. m -> S]
    PROVE  f \in Seq(S) /\ Len(f) = m
  OBVIOUS

\* Two sequences of equal length that agree everywhere are equal.
LEMMA SameSequence ==
    ASSUME NEW S, NEW s \in Seq(S), NEW t \in Seq(S), Len(s) = Len(t),
           \A k \in 1 .. Len(s) : s[k] = t[k]
    PROVE  s = t
  BY SeqEqual

----------------------------------------------------------------------------
(* The window of slots that holds the elements.                            *)

Values == Elements \cup {Unset}

NextOf(x) == IF x = Size - 1 THEN 0 ELSE x + 1

\* From front to rear there are 1 to Size elements, each in a slot.
LEMMA CountRange ==
    ASSUME NEW f \in Slots, NEW r \in Slots
    PROVE  /\ Count(f, r) \in 1 .. Size
           /\ \A k \in 1 .. Count(f, r) : SlotOf(f, k) \in Slots
  BY QueueAssumption DEF Count, SlotOf, Slots, None

\* The elements from front to rear are a sequence of that many values.
LEMMA WindowType ==
    ASSUME NEW f \in Slots, NEW r \in Slots, NEW d \in [Slots -> Values]
    PROVE  /\ Window(f, r, d) \in Seq(Values)
           /\ Len(Window(f, r, d)) = Count(f, r)
           /\ \A k \in 1 .. Count(f, r) : Window(f, r, d)[k] = d[SlotOf(f, k)]
<1>1. Window(f, r, d) \in [1 .. Count(f, r) -> Values]
  BY CountRange DEF Window
<1>2. Count(f, r) \in Nat
  BY CountRange, QueueAssumption
<1> QED
  BY <1>1, <1>2, FunctionIsSequence DEF Window

\* The window of an empty queue.
LEMMA EmptyWindow ==
    ASSUME NEW r, NEW d
    PROVE  Window(None, r, d) = << >>
  BY DEF Window, Count

\* A queue of one element.
LEMMA OneElement ==
    ASSUME NEW f \in Slots, NEW d \in [Slots -> Values]
    PROVE  Window(f, f, d) = << d[f] >>
<1>1. 1 = Count(f, f) /\ SlotOf(f, 1) = f
  BY QueueAssumption DEF Count, SlotOf, Slots, None
<1>2. << d[f] >> \in Seq(Values) /\ Len(<< d[f] >>) = 1 /\ << d[f] >>[1] = d[f]
  OBVIOUS
<1>3. /\ Window(f, f, d) \in Seq(Values) /\ Len(Window(f, f, d)) = 1
      /\ \A k \in 1 .. 1 : Window(f, f, d)[k] = d[SlotOf(f, k)]
  <2>1. /\ Window(f, f, d) \in Seq(Values)
        /\ Len(Window(f, f, d)) = Count(f, f)
        /\ \A k \in 1 .. Count(f, f) : Window(f, f, d)[k] = d[SlotOf(f, k)]
    BY WindowType
  <2> QED
    BY <1>1, <2>1
<1>4. \A k \in 1 .. 1 : Window(f, f, d)[k] = << d[f] >>[k]
  BY <1>1, <1>2, <1>3
<1> QED
  BY <1>2, <1>3, <1>4, SameSequence

\* The rear moves one slot on, and the element put there is the last.
LEMMA WindowPush ==
    ASSUME NEW f \in Slots, NEW r \in Slots, NEW d \in [Slots -> Values],
           NEW e \in Values, Count(f, r) < Size
    PROVE  Window(f, NextOf(r), [d EXCEPT ![NextOf(r)] = e]) = Append(Window(f, r, d), e)
<1> DEFINE c == Count(f, r)
           w == Window(f, r, d)
           v == Window(f, NextOf(r), [d EXCEPT ![NextOf(r)] = e])
<1>1. /\ NextOf(r) \in Slots /\ c + 1 = Count(f, NextOf(r))
      /\ SlotOf(f, c + 1) = NextOf(r)
      /\ \A k \in 1 .. c : SlotOf(f, k) \in Slots /\ SlotOf(f, k) # NextOf(r)
  BY QueueAssumption DEF NextOf, Count, SlotOf, Slots, None
<1>2. c \in 1 .. Size
  BY CountRange
<1>3. /\ w \in Seq(Values) /\ Len(w) = c
      /\ \A k \in 1 .. c : w[k] = d[SlotOf(f, k)]
  BY WindowType
<1>4. [d EXCEPT ![NextOf(r)] = e] \in [Slots -> Values]
  BY <1>1
<1>5. /\ v \in Seq(Values) /\ Len(v) = c + 1
      /\ \A k \in 1 .. (c + 1) : v[k] = [d EXCEPT ![NextOf(r)] = e][SlotOf(f, k)]
  <2> DEFINE dd == [d EXCEPT ![NextOf(r)] = e]
  <2>1. NextOf(r) \in Slots /\ dd \in [Slots -> Values] /\ v = Window(f, NextOf(r), dd)
    BY <1>1, <1>4
  <2> HIDE DEF v, dd
  <2>2. /\ v \in Seq(Values) /\ Len(v) = Count(f, NextOf(r))
        /\ \A k \in 1 .. Count(f, NextOf(r)) : v[k] = dd[SlotOf(f, k)]
    BY <2>1, WindowType
  <2> QED
    BY <1>1, <2>2 DEF dd
<1> HIDE DEF c, w, v
<1>6. (\A k \in 1 .. c : v[k] = w[k]) /\ v[c + 1] = e
  <2>1. ASSUME NEW k \in 1 .. c PROVE v[k] = w[k]
    <3>1. k \in 1 .. (c + 1)
      BY <1>2
    <3>2. v[k] = [d EXCEPT ![NextOf(r)] = e][SlotOf(f, k)]
      BY <1>5, <3>1
    <3> QED
      BY <1>1, <1>3, <3>2
  <2>2. c + 1 \in 1 .. (c + 1)
    BY <1>2
  <2>3. v[c + 1] = [d EXCEPT ![NextOf(r)] = e][SlotOf(f, c + 1)]
    BY <1>5, <2>2
  <2> QED
    BY <1>1, <2>1, <2>3
<1>7. /\ Append(w, e) \in Seq(Values) /\ Len(Append(w, e)) = c + 1
      /\ \A k \in 1 .. c : Append(w, e)[k] = w[k]
      /\ Append(w, e)[c + 1] = e
  BY <1>3, AppendProperties
<1>8. \A k \in 1 .. (c + 1) : v[k] = Append(w, e)[k]
  BY <1>2, <1>6, <1>7
<1>9. v = Append(w, e)
  BY <1>5, <1>7, <1>8, SameSequence
<1> QED
  BY <1>9 DEF v, w

LEMMA PushAppends ==
    ASSUME front \in Slots, rear \in Slots, data \in [Slots -> Values],
           NEW e \in Values, Count(front, rear) < Size,
           front' = front, rear' = NextOf(rear),
           data' = [data EXCEPT ![NextOf(rear)] = e]
    PROVE  Contents' = Append(Contents, e)
BY WindowPush DEF Contents

\* The front moves one slot on, and the first element is gone.
LEMMA WindowPop ==
    ASSUME NEW f \in Slots, NEW r \in Slots, NEW d \in [Slots -> Values], f # r
    PROVE  Window(NextOf(f), r, d) = Tail(Window(f, r, d)) /\ Window(f, r, d) # << >>
<1> DEFINE c == Count(f, r)
           w == Window(f, r, d)
           v == Window(NextOf(f), r, d)
<1>1. /\ NextOf(f) \in Slots /\ Count(NextOf(f), r) = c - 1
      /\ \A k \in 1 .. (c - 1) : SlotOf(NextOf(f), k) = SlotOf(f, k + 1)
  BY QueueAssumption DEF NextOf, Count, SlotOf, Slots, None
<1>2. c \in 2 .. Size
  BY QueueAssumption DEF Count, Slots, None
<1>3. /\ w \in Seq(Values) /\ Len(w) = c
      /\ \A k \in 1 .. c : w[k] = d[SlotOf(f, k)]
  BY WindowType
<1>4. /\ v \in Seq(Values) /\ Len(v) = c - 1
      /\ \A k \in 1 .. (c - 1) : v[k] = d[SlotOf(NextOf(f), k)]
  <2>1. /\ v \in Seq(Values) /\ Len(v) = Count(NextOf(f), r)
        /\ \A k \in 1 .. Count(NextOf(f), r) : v[k] = d[SlotOf(NextOf(f), k)]
    BY <1>1, WindowType
  <2> QED
    BY <1>1, <2>1, Zenon
<1>5. \A k \in 1 .. (c - 1) : v[k] = w[k + 1]
  BY <1>1, <1>2, <1>3, <1>4
<1> HIDE DEF c, w, v
<1>6. w # << >>
  BY <1>2, <1>3
<1>7. /\ Tail(w) \in Seq(Values) /\ Len(Tail(w)) = c - 1
      /\ \A k \in 1 .. (c - 1) : Tail(w)[k] = w[k + 1]
  BY <1>3, <1>6, HeadTailProperties
<1>8. v = Tail(w)
  BY <1>4, <1>5, <1>7, SameSequence
<1> QED
  BY <1>6, <1>8 DEF v, w

\* The rear moves one slot back, and the last element is gone.
LEMMA WindowPopBack ==
    ASSUME NEW f \in Slots, NEW r \in Slots, NEW d \in [Slots -> Values],
           NEW x \in Slots, NextOf(x) = r, f # r
    PROVE  LET w == Window(f, r, d)
           IN  Window(f, x, d) = SubSeq(w, 1, Len(w) - 1) /\ w # << >>
<1> DEFINE c == Count(f, r)
           w == Window(f, r, d)
           v == Window(f, x, d)
<1>1. Count(f, x) = c - 1
  BY QueueAssumption DEF NextOf, Count, Slots, None
<1>2. c \in 2 .. Size
  BY QueueAssumption DEF Count, Slots, None
<1>3. /\ w \in Seq(Values) /\ Len(w) = c
      /\ \A k \in 1 .. c : w[k] = d[SlotOf(f, k)]
  BY WindowType
<1>4. /\ v \in Seq(Values) /\ Len(v) = c - 1
      /\ \A k \in 1 .. (c - 1) : v[k] = d[SlotOf(f, k)]
  <2>1. /\ v \in Seq(Values) /\ Len(v) = Count(f, x)
        /\ \A k \in 1 .. Count(f, x) : v[k] = d[SlotOf(f, k)]
    BY WindowType
  <2> HIDE DEF c, v
  <2> QED
    BY <1>1, <2>1
<1>5. \A k \in 1 .. (c - 1) : v[k] = w[k]
  BY <1>2, <1>3, <1>4
<1> HIDE DEF c, w, v
<1>6. w # << >>
  BY <1>2, <1>3
<1>7. /\ SubSeq(w, 1, c - 1) \in Seq(Values) /\ Len(SubSeq(w, 1, c - 1)) = c - 1
      /\ \A k \in 1 .. (c - 1) : SubSeq(w, 1, c - 1)[k] = w[k]
  <2>1. \A k \in 1 .. (c - 1) : w[k] \in Values
    BY <1>2, <1>3, ElementOfSeq
  <2>2. 1 \in Int /\ c - 1 \in Int /\ 1 <= c - 1 /\ (c - 1) - 1 + 1 = c - 1
    BY <1>2
  <2>3. /\ SubSeq(w, 1, c - 1) \in Seq(Values)
        /\ Len(SubSeq(w, 1, c - 1)) = (c - 1) - 1 + 1
        /\ \A k \in 1 .. ((c - 1) - 1 + 1) : SubSeq(w, 1, c - 1)[k] = w[1 + k - 1]
    BY <2>1, <2>2, SubSeqProperties
  <2>4. \A k \in 1 .. (c - 1) : 1 + k - 1 = k
    BY <1>2
  <2> QED
    BY <2>2, <2>3, <2>4
<1>8. v = SubSeq(w, 1, c - 1)
  BY <1>4, <1>5, <1>7, SameSequence
<1> QED
  BY <1>3, <1>6, <1>8 DEF v, w

----------------------------------------------------------------------------
(* The invariant and the refinement.                                       *)

QInv == QTypeOK /\ (front = None <=> rear = None)

\* A new queue satisfies the invariant and is the empty deque.
LEMMA InitRefines == QInit => QInv /\ Deque!DInit
<1> SUFFICES ASSUME QInit PROVE QInv /\ Deque!DInit
  OBVIOUS
<1>1. Contents = << >>
  BY EmptyWindow DEF QInit, Contents
<1> QED
  BY <1>1 DEF QInit, QInv, QTypeOK, Deque!DInit, Slots

\* full() holds exactly of a queue of Size elements.
LEMMA FullMeansSize ==
    ASSUME NEW f \in Slots, NEW r \in Slots
    PROVE  (f = 0 /\ r = Size - 1) \/ NextOf(r) = f <=> Count(f, r) = Size
  BY QueueAssumption DEF NextOf, Count, Slots, None

\* push keeps the invariant and appends, or refuses when the queue is full.
LEMMA PushRefines ==
    ASSUME QInv, NEW e \in Elements, Push(e)
    PROVE  QInv' /\ Deque!DPush(e)
<1> USE QueueAssumption
<1>1. CASE front = None
  <2>1. ~Full
    <3>1. rear = -1 /\ front = -1
      BY <1>1 DEF QInv, None
    <3>2. Unsigned(rear + 1) = 0
      <4>1. rear + 1 = 0
        BY <3>1
      <4>2. 0 % Word = 0
        BY DEF QueueAssumption
      <4> QED
        BY <4>1, <4>2 DEF Unsigned
    <3>3. 0 % Size = 0
      BY DEF QueueAssumption
    <3> QED
      BY <3>1, <3>2, <3>3 DEF Full
  <2>2. /\ front' = 0 /\ rear' = 0 /\ ok' = TRUE
        /\ data' = [data EXCEPT ![0] = e]
    BY <1>1, <2>1 DEF Push
  <2>3. 0 \in Slots /\ data' \in [Slots -> Values] /\ data'[0] = e
    BY <2>2, QueueAssumption DEF QInv, QTypeOK, Slots, Values
  <2>4. Contents' = << e >> /\ Contents = << >>
    <3>1. front' = 0 /\ rear' = 0
      BY <2>2
    <3> QED BY <1>1, <2>3, <3>1, EmptyWindow, OneElement DEF Contents
  <2>5. Len(Contents) < Size /\ Contents' = Append(Contents, e)
    BY <2>4
  <2>6. QInv'
    BY <2>2, <2>3 DEF QInv, QTypeOK, Values, None
  <2> QED
    BY <2>2, <2>5, <2>6 DEF Deque!DPush
<1>2. CASE front # None
  <2>1. front \in Slots /\ rear \in Slots /\ data \in [Slots -> Values]
    BY <1>2 DEF QInv, QTypeOK, Values
  <2>2. Unsigned(rear + 1) % Size = NextOf(rear)
    BY <2>1, NextSlot DEF NextOf
  <2>3. Full <=> Count(front, rear) = Size
    BY <2>1, <2>2, FullMeansSize DEF Full
  <2>4. Len(Contents) = Count(front, rear) /\ Count(front, rear) \in 1 .. Size
    BY <2>1, WindowType, CountRange DEF Contents
  <2>5. CASE Full
    <3>1. UNCHANGED <<rear, front, data>> /\ ok' = FALSE
      BY <2>5 DEF Push
    <3>2. Contents' = Contents
      BY <3>1 DEF Contents
    <3>3. ~(Len(Contents) < Size)
      BY <2>3, <2>4, <2>5
    <3> QED
      BY <3>1, <3>2, <3>3 DEF Deque!DPush, QInv, QTypeOK
  <2>6. CASE ~Full
    <3>1. /\ front' = front /\ rear' = NextOf(rear) /\ ok' = TRUE
          /\ data' = [data EXCEPT ![NextOf(rear)] = e]
      BY <1>2, <2>2, <2>6 DEF Push
    <3>2. Count(front, rear) < Size /\ e \in Values
      BY <2>3, <2>4, <2>6 DEF Values
    <3>3. Contents' = Append(Contents, e)
      BY <2>1, <3>1, <3>2, PushAppends, Zenon
    <3>4. NextOf(rear) \in Slots /\ NextOf(rear) # None
      BY <2>1 DEF NextOf, Slots, None
    <3>5. QInv'
      BY <1>2, <2>1, <3>1, <3>2, <3>4 DEF QInv, QTypeOK, Values
    <3> QED
      BY <2>4, <3>1, <3>2, <3>3, <3>5 DEF Deque!DPush
  <2> QED
    BY <2>5, <2>6
<1> QED
  BY <1>1, <1>2

\* The indices are reset: the queue held one element, or none.
LEMMA ResetEmpties ==
    ASSUME QInv, Reset, UNCHANGED <<data, ok>>
    PROVE  /\ QInv' /\ Contents' = << >> /\ ok' = ok
           /\ \/ Contents = << >>
              \/ Contents # << >> /\ Tail(Contents) = << >>
                 /\ SubSeq(Contents, 1, Len(Contents) - 1) = << >>
<1>1. QInv' /\ Contents' = << >> /\ ok' = ok
  BY EmptyWindow DEF Reset, QInv, QTypeOK, Contents
<1>2. CASE front = None
  BY <1>1, <1>2, EmptyWindow DEF Contents
<1>3. CASE front # None
  <2>1. front \in Slots /\ data \in [Slots -> Values] /\ rear = front
    BY <1>3 DEF QInv, QTypeOK, Values, Reset
  <2>2. Contents = << data[front] >>
    BY <2>1, OneElement DEF Contents
  <2>3. Tail(<< data[front] >>) = << >>
    OBVIOUS
  <2>4. Len(<< data[front] >>) - 1 = 0 /\ SubSeq(<< data[front] >>, 1, 0) = << >>
    BY SubSeqEmpty
  <2> QED
    BY <1>1, <2>2, <2>3, <2>4
<1> QED
  BY <1>2, <1>3

\* pop keeps the invariant and removes the head of the deque.
LEMMA PopRefines ==
    ASSUME QInv, Pop
    PROVE  QInv' /\ Deque!DPop
<1>1. CASE Reset
  BY <1>1, ResetEmpties DEF Pop, Deque!DPop
<1>2. CASE ~Reset
  <2>1. /\ front # rear /\ front' = Unsigned(front + 1) % Size
        /\ rear' = rear /\ data' = data /\ ok' = ok
    BY <1>2 DEF Pop
  <2>2. front \in Slots /\ rear \in Slots /\ data \in [Slots -> Values]
    BY <2>1 DEF QInv, QTypeOK, Values
  <2>3. front' = NextOf(front) /\ NextOf(front) \in Slots
    BY <2>1, <2>2, NextSlot, QueueAssumption DEF NextOf, Slots
  <2>4. Contents' = Tail(Contents) /\ Contents # << >>
    BY <2>1, <2>2, <2>3, WindowPop DEF Contents
  <2>5. NextOf(front) # None /\ rear # None
    BY <2>2, <2>3, QueueAssumption DEF Slots, None
  <2>6. QInv'
    BY <2>1, <2>2, <2>3, <2>5 DEF QInv, QTypeOK
  <2> QED
    BY <2>1, <2>4, <2>6 DEF Deque!DPop
<1> QED
  BY <1>1, <1>2

\* pop_back keeps the invariant and removes the last of the deque.
LEMMA PopBackRefines ==
    ASSUME QInv, PopBack
    PROVE  QInv' /\ Deque!DPopBack
<1>1. CASE Reset
  BY <1>1, ResetEmpties DEF PopBack, Deque!DPopBack
<1>2. CASE ~Reset
  <2>1. /\ front # rear /\ rear' = Unsigned(rear - 1) % Size
        /\ front' = front /\ data' = data /\ ok' = ok
    BY <1>2 DEF PopBack
  <2>2. front \in Slots /\ rear \in Slots /\ data \in [Slots -> Values]
    BY <2>1 DEF QInv, QTypeOK, Values
  <2>3. rear' = IF rear = 0 THEN Size - 1 ELSE rear - 1
    BY <2>1, <2>2, PreviousSlot
  <2>4. rear' \in Slots /\ NextOf(rear') = rear
    BY <2>2, <2>3, QueueAssumption DEF NextOf, Slots
  <2>5. Contents' = SubSeq(Contents, 1, Len(Contents) - 1) /\ Contents # << >>
    BY <2>1, <2>2, <2>4, WindowPopBack DEF Contents
  <2>6. front # None /\ rear' # None
    BY <2>2, <2>4, QueueAssumption DEF Slots, None
  <2>7. QInv'
    BY <2>1, <2>2, <2>4, <2>6 DEF QInv, QTypeOK
  <2> QED
    BY <2>1, <2>5, <2>7 DEF Deque!DPopBack
<1> QED
  BY <1>1, <1>2

\* The ring buffer of the kernel is a bounded deque: it neither loses nor
\* reorders a key, whatever the size of the buffer and the width of an index.
THEOREM QueueIsDeque == QSpec => QRefinement
<1>1. QInv /\ [QNext]_qvars => QInv' /\ [Deque!DNext]_(Deque!dvars)
  <2> SUFFICES ASSUME QInv, [QNext]_qvars
               PROVE  QInv' /\ [Deque!DNext]_(Deque!dvars)
    OBVIOUS
  <2>1. CASE UNCHANGED qvars
    BY <2>1 DEF qvars, QInv, QTypeOK, Deque!dvars, Contents
  <2> QED
    BY <2>1, PushRefines, PopRefines, PopBackRefines DEF QNext, Deque!DNext
<1> QED
  BY <1>1, InitRefines, PTL DEF QSpec, QRefinement, Deque!DSpec

\* The indices stay in range, and they are unset together.
THEOREM QueueTypeCorrect == QSpec => []QTypeOK
<1>1. QInv /\ [QNext]_qvars => QInv'
  BY PushRefines, PopRefines, PopBackRefines DEF QNext, qvars, QInv, QTypeOK
<1>2. QInv => QTypeOK
  BY DEF QInv
<1> QED
  BY <1>1, <1>2, InitRefines, PTL DEF QSpec
=============================================================================
