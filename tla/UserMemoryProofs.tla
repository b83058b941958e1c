--------------------------- MODULE UserMemoryProofs ---------------------------
(***************************************************************************)
(* Proofs about UserMemory, for every heap, every number of processes and  *)
(* every set of programs whose headers the assumptions describe: each      *)
(* region has one owner, a process writes nothing but its own memory and   *)
(* finds it in place, and the kernel faults only for a program that calls  *)
(* free().                                                                 *)
(*                                                                         *)
(* The invariant says of each directory what is in it: below the heap what *)
(* map_memory put there, and in the heap the allocations of its process    *)
(* and nothing else that may be written (InDirectory).  It holds because   *)
(* a request is given what nobody has (GrantIsSound), and a process gives  *)
(* back only what nobody else has (OneOwner).                              *)
(***************************************************************************)
EXTENDS UserMemory, WellFoundedInduction, TLAPS

----------------------------------------------------------------------------
(* Division.                                                               *)

\* A quotient is the only number whose multiples enclose the dividend.
LEMMA QuotientIs ==
    ASSUME NEW d \in Nat \ {0}, NEW n \in Nat, NEW q \in Nat,
           d * q <= n, n < d * q + d
    PROVE  n \div d = q
<1> DEFINE k == n \div d
<1>1. k \in Nat /\ d * k <= n /\ n < d * k + d
  BY SMT
<1> HIDE DEF k
<1>2. ASSUME k < q PROVE FALSE
  <2>1. q - (k + 1) \in Nat /\ d * (q - (k + 1)) \in Nat
    BY <1>1, <1>2
  <2>2. d * q = d * k + d + d * (q - (k + 1))
    BY <1>1
  <2>3. d * k \in Nat /\ d * q \in Nat
    BY <1>1
  <2> QED BY <1>1, <2>1, <2>2, <2>3
<1>3. ASSUME q < k PROVE FALSE
  <2>1. k - (q + 1) \in Nat /\ d * (k - (q + 1)) \in Nat
    BY <1>1, <1>3
  <2>2. d * k = d * q + d + d * (k - (q + 1))
    BY <1>1
  <2>3. d * k \in Nat /\ d * q \in Nat
    BY <1>1
  <2> QED BY <1>1, <2>1, <2>2, <2>3
<1>4. k = q
  BY <1>1, <1>2, <1>3
<1> QED BY <1>4 DEF k

\* PageSize and the other numbers.
LEMMA Numbers ==
    /\ PageSize \in Nat \ {0} /\ FirstPage \in Nat \ {0} /\ LastPage \in Nat \ {0}
    /\ LowPages \in Nat \ {0} /\ StackAt \in Nat \ {0} /\ StackPages \in Nat \ {0}
    /\ TaskPages \in Nat \ {0} /\ PathPages \in Nat \ {0} /\ ItemPages \in Nat \ {0}
    /\ MaxProcesses \in Nat \ {0} /\ MaxAllocations \in Nat \ {0}
    /\ LowPages <= StackAt /\ StackAt + StackPages <= FirstPage
BY UserMemoryAssumption

\* The byte k of n bytes lies in one of the pages they are given.
LEMMA ByteInPages ==
    ASSUME NEW n \in Nat, NEW k \in 0 .. (n - 1)
    PROVE  k \div PageSize \in 0 .. (PagesOf(n) - 1) /\ PagesOf(n) \in Nat
<1> DEFINE d == PageSize
           q == k \div d
           m == n + d - 1
           c == m \div d
<1>1. d \in Nat \ {0} /\ m \in Nat
  BY Numbers
<1> HIDE DEF d, m
<1>2. q \in Nat /\ d * q <= k
  BY <1>1, SMT
<1>3. c \in Nat /\ m < d * c + d
  BY <1>1, SMT
<1> HIDE DEF q, c
<1>4. d * q + d <= m
  BY <1>1, <1>2 DEF m
<1>5. ASSUME c < q + 1 PROVE FALSE
  <2>1. q - c \in Nat /\ d * (q - c) \in Nat
    BY <1>1, <1>2, <1>3, <1>5
  <2>2. d * q = d * c + d * (q - c) /\ d * q \in Nat /\ d * c \in Nat
    BY <1>1, <1>2, <1>3
  <2> QED BY <1>1, <1>3, <1>4, <2>1, <2>2 DEF m
<1>6. q \in 0 .. (c - 1)
  BY <1>2, <1>3, <1>5
<1> QED BY <1>3, <1>6 DEF PagesOf, q, c, m, d

\* A number of bytes that is not 0 takes pages.
LEMMA PagesOfType ==
    ASSUME NEW n \in Nat
    PROVE  PagesOf(n) \in Nat /\ (n # 0 => PagesOf(n) \in Nat \ {0})
<1>1. PagesOf(n) \in Nat
  BY Numbers, SMT DEF PagesOf
<1>2. ASSUME n # 0 PROVE PagesOf(n) # 0
  BY <1>2, ByteInPages, 0 \in 0 .. (n - 1)
<1> QED BY <1>1, <1>2

\* The page of a byte, counted from the page where the bytes begin.
LEMMA PageOfByte ==
    ASSUME NEW n \in Nat, NEW k \in Nat
    PROVE  /\ n \div PageSize \in Nat
           /\ n % PageSize \in Nat
           /\ (n + k) \div PageSize = n \div PageSize + ((n % PageSize) + k) \div PageSize
<1> DEFINE d == PageSize
           a == n \div d
           r == n % d
           b == (r + k) \div d
<1>1. d \in Nat \ {0}
  BY Numbers
<1>2. a \in Nat /\ r \in 0 .. (d - 1) /\ n = d * a + r
  BY <1>1, SMT
<1>3. b \in Nat /\ d * b <= r + k /\ r + k < d * b + d
  BY <1>1, <1>2, SMT
<1> HIDE DEF d, a, r, b
<1>4. d * (a + b) = d * a + d * b /\ d * a \in Nat /\ d * b \in Nat
  BY <1>1, <1>2, <1>3
<1>5. d * (a + b) <= n + k /\ n + k < d * (a + b) + d
  BY <1>1, <1>2, <1>3, <1>4
<1>6. (n + k) \div d = a + b
  BY <1>1, <1>2, <1>3, <1>5, QuotientIs
<1> QED BY <1>2, <1>6 DEF a, r, b, d

----------------------------------------------------------------------------
(* The heap.                                                               *)

Ats(h) == {r.at : r \in h}

\* Regions of the heap that do not overlap.
Sound(h) == /\ h \subseteq [at : HeapPages, length : Nat \ {0}]
            /\ \A r \in h : Region(r.at, r.length) \subseteq HeapPages
            /\ \A q, r \in h : q # r =>
                   Region(q.at, q.length) \cap Region(r.at, r.length) = {}

\* A set of naturals that is not empty has a least element.
LEMMA LeastIsIn ==
    ASSUME NEW S, S \subseteq Nat, S # {}
    PROVE  Least(S) \in S
<1>1. \E b \in S : \A c \in S : ~ (<<c, b>> \in OpToRel(<, Nat))
  BY WFMin, NatLessThanWellFounded
<1>2. \E b \in S : \A c \in S : ~ (c < b)
  BY <1>1 DEF OpToRel
<1>3. \E b \in S : \A c \in S : b <= c
  BY <1>2
<1> QED BY <1>3 DEF Least

\* A region begins in itself.
LEMMA FirstIn ==
    ASSUME NEW b \in Nat, NEW n \in Nat \ {0}
    PROVE  b \in Region(b, n)
BY DEF Region

\* A page counted from the start of n others, moved to another start.
LEMMA InRegion ==
    ASSUME NEW b \in Nat, NEW n \in Nat, NEW c \in Nat, NEW v \in c .. (c + n - 1)
    PROVE  b + (v - c) \in Region(b, n)
BY DEF Region

\* In a sound heap two regions begin at two places.
LEMMA AtsApart ==
    ASSUME NEW h, Sound(h), NEW q \in h, NEW r \in h, q.at = r.at
    PROVE  q = r
<1>1. q.at \in Nat /\ q.length \in Nat \ {0} /\ r.length \in Nat \ {0}
  BY Numbers DEF Sound, HeapPages
<1>2. q.at \in Region(q.at, q.length) /\ q.at \in Region(r.at, r.length)
  BY <1>1, FirstIn
<1> QED BY <1>2 DEF Sound

\* A request is given what nobody has.
LEMMA GrantIsSound ==
    ASSUME NEW h, Sound(h), NEW n \in Nat \ {0}, NEW b, b = FirstFit(h, n), b # Null
    PROVE  /\ Sound(Granted(h, b, n))
           /\ b \in HeapPages /\ b \notin Ats(h)
           /\ Ats(Granted(h, b, n)) = Ats(h) \cup {b}
           /\ h \subseteq Granted(h, b, n)
           /\ [at |-> b, length |-> n] \in Granted(h, b, n)
           /\ Region(b, n) \subseteq HeapPages
           /\ \A r \in h : Region(b, n) \cap Region(r.at, r.length) = {}
<1> DEFINE new == [at |-> b, length |-> n]
<1>1. Fits(h, n) # {} /\ Fits(h, n) \subseteq HeapPages
  BY DEF FirstFit, Fits
<1>2. HeapPages \subseteq Nat
  BY Numbers DEF HeapPages
<1>3. b \in Fits(h, n)
  BY <1>1, <1>2, LeastIsIn DEF FirstFit
<1>4. b \in HeapPages /\ Region(b, n) \subseteq HeapPages \ Blocks(h)
  BY <1>3 DEF Fits
<1>5. \A r \in h : Region(b, n) \cap Region(r.at, r.length) = {}
  BY <1>4 DEF Blocks
<1>6. b \notin Ats(h)
  <2>1. SUFFICES ASSUME NEW r \in h, r.at = b PROVE FALSE
    BY DEF Ats
  <2>2. b \in Region(b, n) /\ b \in Region(r.at, r.length)
    BY <2>1, <1>2, <1>4, FirstIn DEF Sound
  <2> QED BY <2>2, <1>5
<1>7. new \in [at : HeapPages, length : Nat \ {0}] /\ new.at = b /\ new.length = n
  BY <1>4
<1>8. Sound(Granted(h, b, n))
  BY <1>4, <1>5, <1>7 DEF Sound, Granted
<1>9. Ats(Granted(h, b, n)) = Ats(h) \cup {b}
  BY <1>7 DEF Ats, Granted
<1> QED BY <1>4, <1>5, <1>6, <1>8, <1>9 DEF Granted

\* What is freed is gone, and no more.
LEMMA FreeIsSound ==
    ASSUME NEW h, Sound(h), NEW freed
    PROVE  /\ Sound(Kfree(h, freed))
           /\ Ats(Kfree(h, freed)) = Ats(h) \ freed
           /\ \A r \in h : r.at \notin freed => r \in Kfree(h, freed)
BY DEF Sound, Kfree, Ats

\* After the request for n blocks that made t of s.
Grown(s, t, n) ==
    /\ t.at \in Seq(Nat) /\ Len(t.at) = Len(s.at) + 1
    /\ \A i \in 1 .. Len(s.at) : t.at[i] = s.at[i]
    /\ Sound(t.heap)
    /\ t.at[Len(t.at)] \in HeapPages /\ t.at[Len(t.at)] \notin Ats(s.heap)
    /\ Ats(t.heap) = Ats(s.heap) \cup {t.at[Len(t.at)]}
    /\ s.heap \subseteq t.heap
    /\ [at |-> t.at[Len(t.at)], length |-> n] \in t.heap

LEMMA RequestGrows ==
    ASSUME NEW s, NEW n \in Nat \ {0}, NEW t, t = Request(s, n), t.served,
           s.at \in Seq(Nat), Sound(s.heap)
    PROVE  Grown(s, t, n)
<1> DEFINE b == FirstFit(s.heap, n)
<1>1. t.heap = Granted(s.heap, b, n) /\ t.at = Append(s.at, b) /\ b # Null
  BY DEF Request
<1> HIDE DEF b
<1>2. /\ Sound(t.heap) /\ b \in HeapPages /\ b \notin Ats(s.heap)
      /\ Ats(t.heap) = Ats(s.heap) \cup {b} /\ s.heap \subseteq t.heap
      /\ [at |-> b, length |-> n] \in t.heap
  BY <1>1, GrantIsSound DEF b
<1>3. b \in Nat
  BY <1>2, Numbers DEF HeapPages
<1>4. t.at \in Seq(Nat) /\ Len(t.at) = Len(s.at) + 1 /\ t.at[Len(t.at)] = b
      /\ \A i \in 1 .. Len(s.at) : t.at[i] = s.at[i]
  BY <1>1, <1>3
<1> QED BY <1>2, <1>4 DEF Grown

\* What a system() takes that succeeds: what it leaves behind and what the new
\* process is given are new and apart, and the heap has the descriptor back.
LEMMA LoadTakes ==
    ASSUME NEW h, Sound(h), NEW p \in Programs, Load(h, p).served
    PROVE  LET l == Load(h, p) IN
           /\ Sound(l.heap) /\ h \subseteq l.heap
           /\ l.argv \in HeapPages /\ l.data \in HeapPages
           /\ l.stack \in HeapPages /\ l.task \in HeapPages
           /\ l.kept \subseteq HeapPages
           /\ Ats(l.heap) = Ats(h) \cup l.kept \cup {l.argv, l.data, l.stack, l.task}
           /\ ({l.argv, l.data, l.stack, l.task} \cup l.kept) \cap Ats(h) = {}
           /\ {l.argv, l.data, l.stack, l.task} \cap l.kept = {}
           /\ l.argv # l.data /\ l.argv # l.stack /\ l.argv # l.task
           /\ l.data # l.stack /\ l.data # l.task /\ l.stack # l.task
           /\ [at |-> l.data, length |-> PagesOf(FileSize[p])] \in l.heap
           /\ [at |-> l.stack, length |-> StackPages] \in l.heap
<1> DEFINE size == PagesOf(FileSize[p])
           s0 == NoRequest(h)
           s1 == Request(s0, 1)
           s2 == Request(s1, PathPages)
           s3 == Request(s2, 1)
           s4 == Request(s3, ItemPages)
           s5 == Request(s4, size)
           e  == [s5 EXCEPT !.heap = Kfree(@, {s5.at[3]})]
           s6 == Request(e, StackPages)
           s7 == Request(s6, TaskPages)
           l  == Load(h, p)
<1> HIDE DEF l, s0, s1, s2, s3, s4, s5, e, s6, s7, size
<1>0. /\ s1 = Request(s0, 1) /\ s2 = Request(s1, PathPages) /\ s3 = Request(s2, 1)
      /\ s4 = Request(s3, ItemPages) /\ s5 = Request(s4, size)
      /\ s6 = Request(e, StackPages) /\ s7 = Request(s6, TaskPages)
  BY DEF s1, s2, s3, s4, s5, s6, s7
<1>1. /\ l.heap = s7.heap /\ l.argv = s7.at[1] /\ l.kept = {s7.at[2], s7.at[4]}
      /\ l.data = s7.at[5] /\ l.stack = s7.at[6] /\ l.task = s7.at[7] /\ s7.served
  <2>1. s4 = Found(Open(Arguments(h)))
    BY DEF s4, s3, s2, s1, s0, Found, Open, Parsed, Arguments
  <2>2. e = ElfLoad(Arguments(h), p)
    BY <2>1 DEF e, s5, size, ElfLoad
  <2>3. s7 = Request(Request(ElfLoad(Arguments(h), p), StackPages), TaskPages)
    BY <2>2 DEF s7, s6
  <2> QED BY <2>3 DEF l, Load
<1>2. size \in Nat \ {0} /\ 1 \in Nat \ {0}
  BY UserMemoryAssumption, PagesOfType DEF size
<1>3. s0.at \in Seq(Nat) /\ Len(s0.at) = 0 /\ s0.heap = h
  BY DEF s0, NoRequest
<1>4. /\ e.at = s5.at /\ e.served = s5.served
      /\ e.heap = Kfree(s5.heap, {s5.at[3]})
  BY DEF e, s5, Request
<1>5. s6.served /\ s5.served /\ s4.served /\ s3.served /\ s2.served /\ s1.served
  <2>1. s6.served
    BY <1>1 DEF s7, Request
  <2>2. s5.served
    BY <1>4, <2>1 DEF s6, Request
  <2>3. s4.served
    BY <2>2 DEF s5, Request
  <2>4. s3.served
    BY <2>3 DEF s4, Request
  <2>5. s2.served
    BY <2>4 DEF s3, Request
  <2>6. s1.served
    BY <2>5 DEF s2, Request
  <2> QED BY <2>1, <2>2, <2>3, <2>4, <2>5, <2>6
<1>6. /\ s1.at \in Seq(Nat) /\ Len(s1.at) = 1 /\ Sound(s1.heap) /\ s0.heap \subseteq s1.heap
      /\ s1.at[1] \in HeapPages /\ s1.at[1] \notin Ats(s0.heap)
      /\ Ats(s1.heap) = Ats(s0.heap) \cup {s1.at[1]}
  <2>1. Grown(s0, s1, 1)
    BY <1>0, <1>2, <1>3, <1>5, RequestGrows
  <2> QED BY <2>1, <1>3 DEF Grown
<1>7. /\ s2.at \in Seq(Nat) /\ Len(s2.at) = 2 /\ Sound(s2.heap) /\ s1.heap \subseteq s2.heap
      /\ s2.at[2] \in HeapPages /\ s2.at[2] \notin Ats(s1.heap)
      /\ Ats(s2.heap) = Ats(s1.heap) \cup {s2.at[2]}
      /\ s2.at[1] = s1.at[1]
  <2>1. Grown(s1, s2, PathPages)
    BY <1>0, <1>5, <1>6, Numbers, RequestGrows
  <2> QED BY <2>1, <1>6 DEF Grown
<1>8. /\ s3.at \in Seq(Nat) /\ Len(s3.at) = 3 /\ Sound(s3.heap) /\ s2.heap \subseteq s3.heap
      /\ s3.at[3] \in HeapPages /\ s3.at[3] \notin Ats(s2.heap)
      /\ Ats(s3.heap) = Ats(s2.heap) \cup {s3.at[3]}
      /\ \A i \in 1 .. 2 : s3.at[i] = s2.at[i]
  <2>1. Grown(s2, s3, 1)
    BY <1>0, <1>2, <1>5, <1>7, RequestGrows
  <2> QED BY <2>1, <1>7 DEF Grown
<1>9. /\ s4.at \in Seq(Nat) /\ Len(s4.at) = 4 /\ Sound(s4.heap) /\ s3.heap \subseteq s4.heap
      /\ s4.at[4] \in HeapPages /\ s4.at[4] \notin Ats(s3.heap)
      /\ Ats(s4.heap) = Ats(s3.heap) \cup {s4.at[4]}
      /\ \A i \in 1 .. 3 : s4.at[i] = s3.at[i]
  <2>1. Grown(s3, s4, ItemPages)
    BY <1>0, <1>5, <1>8, Numbers, RequestGrows
  <2> QED BY <2>1, <1>8 DEF Grown
<1>10. /\ s5.at \in Seq(Nat) /\ Len(s5.at) = 5 /\ Sound(s5.heap) /\ s4.heap \subseteq s5.heap
       /\ s5.at[5] \in HeapPages /\ s5.at[5] \notin Ats(s4.heap)
       /\ Ats(s5.heap) = Ats(s4.heap) \cup {s5.at[5]}
       /\ \A i \in 1 .. 4 : s5.at[i] = s4.at[i]
       /\ [at |-> s5.at[5], length |-> size] \in s5.heap
  <2>1. Grown(s4, s5, size)
    BY <1>0, <1>2, <1>5, <1>9, RequestGrows
  <2> QED BY <2>1, <1>9 DEF Grown
\* fclose gives the third block back; nothing taken before it has its place.
<1>11. /\ Sound(e.heap) /\ Ats(e.heap) = Ats(s5.heap) \ {s5.at[3]}
       /\ \A r \in s5.heap : r.at # s5.at[3] => r \in e.heap
  BY <1>4, <1>10, FreeIsSound
<1>12. /\ s6.at \in Seq(Nat) /\ Len(s6.at) = 6 /\ Sound(s6.heap) /\ e.heap \subseteq s6.heap
       /\ s6.at[6] \in HeapPages /\ s6.at[6] \notin Ats(e.heap)
       /\ Ats(s6.heap) = Ats(e.heap) \cup {s6.at[6]}
       /\ \A i \in 1 .. 5 : s6.at[i] = s5.at[i]
       /\ [at |-> s6.at[6], length |-> StackPages] \in s6.heap
  <2>1. Grown(e, s6, StackPages)
    BY <1>0, <1>4, <1>5, <1>10, <1>11, Numbers, RequestGrows
  <2>2. e.at = s5.at /\ Len(e.at) = 5
    BY <1>4, <1>10
  <2>3. s6.at \in Seq(Nat) /\ Len(s6.at) = 6 /\ \A i \in 1 .. 5 : s6.at[i] = s5.at[i]
    BY <2>1, <2>2 DEF Grown
  <2> QED BY <2>1, <2>3 DEF Grown
<1>13. /\ Sound(s7.heap) /\ s6.heap \subseteq s7.heap
       /\ Len(s7.at) = 7 /\ s7.at[7] \in HeapPages /\ s7.at[7] \notin Ats(s6.heap)
       /\ Ats(s7.heap) = Ats(s6.heap) \cup {s7.at[7]}
       /\ \A i \in 1 .. 6 : s7.at[i] = s6.at[i]
  <2>1. Grown(s6, s7, TaskPages)
    BY <1>0, <1>1, <1>12, Numbers, RequestGrows
  <2> QED BY <2>1, <1>12 DEF Grown
<1> DEFINE b1 == s1.at[1]
           b2 == s2.at[2]
           b3 == s3.at[3]
           b4 == s4.at[4]
           b5 == s5.at[5]
           b6 == s6.at[6]
           b7 == s7.at[7]
<1>14. /\ s5.at[1] = b1 /\ s5.at[2] = b2 /\ s5.at[3] = b3 /\ s5.at[4] = b4
       /\ s7.at[1] = b1 /\ s7.at[2] = b2 /\ s7.at[4] = b4 /\ s7.at[5] = b5 /\ s7.at[6] = b6
  <2>1. /\ 1 \in 1 .. 2 /\ 2 \in 1 .. 2 /\ 1 \in 1 .. 3 /\ 2 \in 1 .. 3 /\ 3 \in 1 .. 3
        /\ \A i \in 1 .. 4 : i \in 1 .. 5 /\ i \in 1 .. 6
        /\ 5 \in 1 .. 5 /\ 5 \in 1 .. 6 /\ 6 \in 1 .. 6
    OBVIOUS
  <2>2. s3.at[1] = b1 /\ s3.at[2] = b2
    BY <1>7, <1>8, <2>1
  <2>3. s4.at[1] = b1 /\ s4.at[2] = b2 /\ s4.at[3] = b3
    BY <1>9, <2>1, <2>2
  <2>4. s5.at[1] = b1 /\ s5.at[2] = b2 /\ s5.at[3] = b3 /\ s5.at[4] = b4
    BY <1>10, <2>3
  <2>5. /\ s6.at[1] = b1 /\ s6.at[2] = b2 /\ s6.at[4] = b4
        /\ s6.at[5] = b5
    BY <1>12, <2>1, <2>4
  <2> QED BY <1>13, <2>1, <2>4, <2>5
<1> HIDE DEF b1, b2, b3, b4, b5, b6, b7
<1>15. /\ Ats(s4.heap) = Ats(h) \cup {b1, b2, b3, b4}
       /\ {b1, b2, b3, b4} \cap Ats(h) = {}
       /\ b1 # b2 /\ b1 # b3 /\ b1 # b4 /\ b2 # b3 /\ b2 # b4 /\ b3 # b4
  <2>1. /\ Ats(s1.heap) = Ats(h) \cup {b1} /\ b1 \notin Ats(h)
        /\ Ats(s2.heap) = Ats(s1.heap) \cup {b2} /\ b2 \notin Ats(s1.heap)
        /\ Ats(s3.heap) = Ats(s2.heap) \cup {b3} /\ b3 \notin Ats(s2.heap)
        /\ Ats(s4.heap) = Ats(s3.heap) \cup {b4} /\ b4 \notin Ats(s3.heap)
    BY <1>3, <1>6, <1>7, <1>8, <1>9 DEF b1, b2, b3, b4
  <2> QED BY <2>1
<1>16. /\ Ats(s5.heap) = Ats(s4.heap) \cup {b5} /\ b5 \notin Ats(s4.heap)
       /\ Ats(e.heap) = Ats(s5.heap) \ {b3}
       /\ Ats(s6.heap) = Ats(e.heap) \cup {b6} /\ b6 \notin Ats(e.heap)
       /\ Ats(s7.heap) = Ats(s6.heap) \cup {b7} /\ b7 \notin Ats(s6.heap)
  BY <1>10, <1>11, <1>12, <1>13, <1>14 DEF b5, b6, b7
<1>17. Ats(e.heap) = Ats(h) \cup {b1, b2, b4, b5}
  BY <1>15, <1>16
<1>18. /\ Ats(s7.heap) = Ats(h) \cup {b2, b4} \cup {b1, b5, b6, b7}
       /\ ({b1, b5, b6, b7} \cup {b2, b4}) \cap Ats(h) = {}
       /\ {b1, b5, b6, b7} \cap {b2, b4} = {}
       /\ b1 # b5 /\ b1 # b6 /\ b1 # b7 /\ b5 # b6 /\ b5 # b7 /\ b6 # b7
  BY <1>15, <1>16, <1>17
<1>19. h \subseteq s7.heap
  <2>1. h \subseteq s5.heap
    BY <1>3, <1>6, <1>7, <1>8, <1>9, <1>10
  <2>2. \A r \in h : r.at # s5.at[3]
    BY <1>14, <1>15 DEF Ats
  <2> QED BY <2>1, <2>2, <1>11, <1>12, <1>13
<1>20. [at |-> b5, length |-> size] \in s7.heap
  <2>1. [at |-> b5, length |-> size] \in s5.heap
    BY <1>10 DEF b5
  <2>2. b5 # s5.at[3]
    BY <1>14, <1>15, <1>16
  <2>3. [at |-> b5, length |-> size] \in e.heap
    BY <1>11, <2>1, <2>2
  <2> QED BY <1>12, <1>13, <2>3
<1>21. [at |-> b6, length |-> StackPages] \in s7.heap
  BY <1>12, <1>13 DEF b6
<1>22. {b1, b2, b4, b5, b6, b7} \subseteq HeapPages
  BY <1>6, <1>7, <1>9, <1>10, <1>12, <1>13 DEF b1, b2, b4, b5, b6, b7
<1>23. /\ l.heap = s7.heap /\ l.argv = b1 /\ l.kept = {b2, b4}
       /\ l.data = b5 /\ l.stack = b6 /\ l.task = b7
  BY <1>1, <1>14 DEF b7
<1> QED BY <1>13, <1>18, <1>19, <1>20, <1>21, <1>22, <1>23 DEF l, size

\* The values of a sequence.
Values(q) == {q[i] : i \in DOMAIN q}

\* What the requests since h took is new, and on top of what was taken.
Adds(h, s) == /\ s.at \in Seq(Nat) /\ Sound(s.heap) /\ h \subseteq s.heap
              /\ Values(s.at) \subseteq HeapPages /\ Values(s.at) \cap Ats(h) = {}
              /\ Ats(s.heap) = Ats(h) \cup Values(s.at)

LEMMA RequestAdds ==
    ASSUME NEW h, NEW s, Adds(h, s), NEW n \in Nat \ {0}, NEW t, t = Request(s, n), t.served
    PROVE  Adds(h, t) /\ s.served
<1>1. Grown(s, t, n)
  BY RequestGrows DEF Adds
<1>2. s.served
  BY DEF Request
<1> DEFINE b == t.at[Len(t.at)]
<1>3. Values(t.at) = Values(s.at) \cup {b}
  <2>1. /\ t.at \in Seq(Nat) /\ s.at \in Seq(Nat) /\ Len(t.at) = Len(s.at) + 1
        /\ \A i \in 1 .. Len(s.at) : t.at[i] = s.at[i]
    BY <1>1 DEF Grown, Adds
  <2>2. /\ DOMAIN t.at = 1 .. Len(t.at) /\ DOMAIN s.at = 1 .. Len(s.at) /\ Len(s.at) \in Nat
    BY <2>1
  <2>3. \A i \in DOMAIN t.at : i \in DOMAIN s.at \/ i = Len(t.at)
    BY <2>1, <2>2
  <2>4. ASSUME NEW a \in Values(t.at) PROVE a \in Values(s.at) \cup {b}
    <3>1. PICK i \in DOMAIN t.at : a = t.at[i]
      BY DEF Values
    <3> QED BY <2>1, <2>2, <2>3, <3>1 DEF Values
  <2>5. ASSUME NEW a \in Values(s.at) \cup {b} PROVE a \in Values(t.at)
    <3>1. Len(t.at) \in DOMAIN t.at /\ DOMAIN s.at \subseteq DOMAIN t.at
      BY <2>1, <2>2
    <3> QED BY <2>1, <2>2, <3>1 DEF Values
  <2> QED BY <2>4, <2>5
<1> HIDE DEF b
<1>4. /\ b \in HeapPages /\ b \notin Ats(s.heap) /\ Ats(t.heap) = Ats(s.heap) \cup {b}
      /\ Sound(t.heap) /\ s.heap \subseteq t.heap /\ t.at \in Seq(Nat)
  BY <1>1 DEF Grown, b
<1> QED BY <1>2, <1>3, <1>4 DEF Adds

\* What a system() takes that fails.
LEMMA FailingTakes ==
    ASSUME NEW h, Sound(h), Failing(h).served
    PROVE  Adds(h, Failing(h))
<1> DEFINE s0 == NoRequest(h)
           s1 == Request(s0, 1)
           s2 == Request(s1, PathPages)
           s3 == Request(s2, 1)
           s4 == Request(s3, PathPages)
           s5 == Request(s4, 1)
<1> HIDE DEF s0, s1, s2, s3, s4, s5
<1>1. /\ s1 = Request(s0, 1) /\ s2 = Request(s1, PathPages) /\ s3 = Request(s2, 1)
      /\ s4 = Request(s3, PathPages) /\ s5 = Request(s4, 1)
  BY DEF s1, s2, s3, s4, s5
<1>2. Failing(h) = IF depth = MaxProcesses THEN s1 ELSE s5
  <2>1. Arguments(h) = s1
    BY DEF Arguments, s1, s0
  <2>2. Open(s1) = s3
    BY DEF Open, Parsed, s3, s2
  <2>3. Open(s3) = s5
    BY DEF Open, Parsed, s5, s4
  <2> QED BY <2>1, <2>2, <2>3 DEF Failing
<1>3. Adds(h, s0)
  BY DEF Adds, s0, NoRequest, Values
<1>4. /\ 1 \in Nat \ {0} /\ PathPages \in Nat \ {0}
      /\ (s5.served => s4.served) /\ (s4.served => s3.served)
      /\ (s3.served => s2.served) /\ (s2.served => s1.served)
  <2>1. s5.served => s4.served
    BY <1>1 DEF Request
  <2>2. s4.served => s3.served
    BY <1>1 DEF Request
  <2>3. s3.served => s2.served
    BY <1>1 DEF Request
  <2>4. s2.served => s1.served
    BY <1>1 DEF Request
  <2> QED BY <2>1, <2>2, <2>3, <2>4, Numbers
<1>5. ASSUME s1.served PROVE Adds(h, s1)
  BY <1>1, <1>3, <1>4, <1>5, RequestAdds
<1>6. ASSUME s2.served PROVE Adds(h, s2)
  BY <1>1, <1>4, <1>5, <1>6, RequestAdds
<1>7. ASSUME s3.served PROVE Adds(h, s3)
  BY <1>1, <1>4, <1>6, <1>7, RequestAdds
<1>8. ASSUME s4.served PROVE Adds(h, s4)
  BY <1>1, <1>4, <1>7, <1>8, RequestAdds
<1>9. ASSUME s5.served PROVE Adds(h, s5)
  BY <1>1, <1>4, <1>8, <1>9, RequestAdds
<1> QED BY <1>2, <1>5, <1>9

----------------------------------------------------------------------------
(* The directories.                                                        *)

EntryType == [frame : Nat, rights : {"none", "read", "write"}]
StackRange == StackAt .. (StackAt + StackPages - 1)

\* new is d, but that the n pages from v on lead to the frames from first on.
Remaps(new, d, v, first, n, rights) ==
    /\ new \in DirectoryType
    /\ \A q \in Pages : q \in v .. (v + n - 1) =>
          new[q].frame = first + (q - v) /\ new[q].rights = rights
    /\ \A q \in Pages : q \notin v .. (v + n - 1) => new[q] = d[q]

\* map_to, page by page.
LEMMA MapToIs ==
    ASSUME NEW d \in DirectoryType, NEW v \in Nat, NEW first \in Nat, NEW n \in Nat,
           NEW rights \in {"none", "read", "write"}, NEW end, end = first + n,
           NEW new, new = MapTo(d, v, first, end, rights)
    PROVE  Remaps(new, d, v, first, n, rights)
<1>1. \A q \in Pages : q \in Nat
  BY Numbers DEF Pages
<1>2. \A q \in Pages : q - v \in 0 .. (end - first - 1) <=> q \in v .. (v + n - 1)
  BY <1>1
<1>3. \A q \in Pages : q \in v .. (v + n - 1) => first + (q - v) \in Nat
  BY <1>1
<1>4. \A q \in Pages : q \in v .. (v + n - 1) =>
         new[q].frame = first + (q - v) /\ new[q].rights = rights /\ new[q] \in EntryType
  BY <1>2, <1>3 DEF MapTo, EntryType
<1>5. \A q \in Pages : q \notin v .. (v + n - 1) => new[q] = d[q]
  BY <1>2 DEF MapTo
<1>6. new = [q \in Pages |-> new[q]]
  BY DEF MapTo
<1>7. \A q \in Pages : d[q] \in EntryType
  BY DEF DirectoryType, EntryType
<1>8. new \in DirectoryType
  BY <1>4, <1>5, <1>6, <1>7 DEF DirectoryType, EntryType
<1> QED BY <1>4, <1>5, <1>8 DEF Remaps

\* What the page v of a process has by the header g.
ByHeader(entry, g, data, v) ==
    /\ entry \in EntryType /\ entry.rights # "none"
    /\ entry.frame = data + g.offset \div PageSize + (v - g.vaddr \div PageSize)

\* The numbers of a header: its pages, and where they are.
LEMMA HeaderIs ==
    ASSUME NEW p \in Programs, NEW i \in DOMAIN Segments[p], NEW g, g = Segments[p][i]
    PROVE  /\ g.vaddr \in Nat /\ g.offset \in Nat /\ g.memsz \in Nat
           /\ g.vaddr \div PageSize \in Nat /\ g.offset \div PageSize \in Nat
           /\ PagesOf(g.offset + g.memsz) \in Nat
           /\ PagesOf(g.offset + g.memsz) >= g.offset \div PageSize
           /\ PagesIn(g) = g.vaddr \div PageSize ..
                 (g.vaddr \div PageSize + PagesOf(g.offset + g.memsz)
                    - g.offset \div PageSize - 1)
           /\ PagesIn(g) \subseteq (StackAt + StackPages) .. (FirstPage - 1)
<1>1. /\ g.vaddr \in Nat /\ g.offset \in Nat /\ g.memsz \in Nat
      /\ PagesIn(g) \subseteq (StackAt + StackPages) .. (FirstPage - 1)
  BY UserMemoryAssumption
<1>2. g.vaddr \div PageSize \in Nat /\ g.offset \div PageSize \in Nat
  BY <1>1, PageOfByte
<1>3. g.offset + g.memsz \in Nat
  BY <1>1
<1>4. PagesOf(g.offset + g.memsz) \in Nat
  BY <1>3, PagesOfType
<1>5. PagesOf(g.offset + g.memsz) >= g.offset \div PageSize
  <2> DEFINE o == g.offset
             m == g.memsz
  <2>1. o \in Nat /\ m \in Nat
    BY <1>1
  <2> HIDE DEF o, m
  <2>2. (o + m + PageSize - 1) \div PageSize >= o \div PageSize
    BY <2>1, Numbers, SMT
  <2> QED BY <2>2 DEF PagesOf, o, m
<1> QED BY <1>1, <1>2, <1>4, <1>5 DEF PagesIn

\* A byte of a header, in the address space and in the file.
LEMMA SegmentByte ==
    ASSUME NEW p \in Programs, NEW i \in DOMAIN Segments[p], NEW g, g = Segments[p][i],
           NEW k \in 0 .. (g.memsz - 1),
           NEW v, v = (g.vaddr + k) \div PageSize
    PROVE  /\ v \in PagesIn(g) /\ v \in LowPages .. (FirstPage - 1)
           /\ g.offset \div PageSize + (v - g.vaddr \div PageSize) = (g.offset + k) \div PageSize
           /\ g.offset \div PageSize \in Nat /\ v - g.vaddr \div PageSize \in Nat
<1> DEFINE from == g.vaddr
           at == g.offset
           size == g.memsz
           a == from \div PageSize
           o == at \div PageSize
           n == PagesOf(at + size)
           q == ((at % PageSize) + k) \div PageSize
           w == (at + k) \div PageSize
<1>1. /\ from \in Nat /\ at \in Nat /\ size \in Nat
      /\ a \in Nat /\ o \in Nat /\ n \in Nat
      /\ PagesIn(g) = a .. (a + n - o - 1)
      /\ PagesIn(g) \subseteq (StackAt + StackPages) .. (FirstPage - 1)
  BY HeaderIs
<1>2. from % PageSize = at % PageSize
  BY UserMemoryAssumption
<1>3. v = (from + k) \div PageSize /\ k \in 0 .. (size - 1)
  OBVIOUS
<1> HIDE DEF from, at, size
<1>4. k \in Nat /\ at + k \in 0 .. (at + size - 1) /\ at + size \in Nat
  <2>1. at \in Nat /\ size \in Nat /\ k \in 0 .. (size - 1)
    BY <1>1, <1>3
  <2>2. k \in Nat /\ at + size \in Nat
    BY <2>1
  <2>3. at + k \in 0 .. (at + size - 1)
    BY <2>1
  <2> QED BY <2>2, <2>3
<1>5. v = a + q
  BY <1>1, <1>2, <1>3, <1>4, PageOfByte
<1>6. w = o + q /\ at % PageSize \in Nat
  BY <1>1, <1>4, PageOfByte
<1>7. q \in Nat
  <2>1. (at % PageSize) + k \in Nat
    BY <1>4, <1>6
  <2> QED BY <2>1, PageOfByte
<1>8. w \in 0 .. (n - 1)
  <2> DEFINE byte == at + k
             bytes == at + size
  <2>1. bytes \in Nat /\ byte \in 0 .. (bytes - 1)
    BY <1>1, <1>4
  <2> HIDE DEF byte, bytes
  <2>2. byte \div PageSize \in 0 .. (PagesOf(bytes) - 1)
    BY <2>1, ByteInPages
  <2> QED BY <2>2 DEF byte, bytes
<1> HIDE DEF a, o, n, q, w
<1>9. v \in a .. (a + n - o - 1) /\ o + (v - a) = w /\ v - a \in Nat
  BY <1>1, <1>5, <1>6, <1>7, <1>8
<1>10. v \in PagesIn(g)
  BY <1>1, <1>9
<1>11. v \in (StackAt + StackPages) .. (FirstPage - 1)
  BY <1>1, <1>10
<1>12. v \in LowPages .. (FirstPage - 1)
  BY <1>11, Numbers
<1> QED BY <1>1, <1>9, <1>10, <1>12 DEF a, o, w, from, at, size

\* One header.
LEMMA SegmentIs ==
    ASSUME NEW p \in Programs, NEW i \in DOMAIN Segments[p], NEW g, g = Segments[p][i],
           NEW data \in Nat, NEW v \in PagesIn(g), v \in Pages
    PROVE  ByHeader(MapSegment(Identity, g, data)[v], g, data, v)
<1> DEFINE a == g.vaddr \div PageSize
           o == g.offset \div PageSize
           n == PagesOf(g.offset + g.memsz)
           rights == IF g.writable THEN "write" ELSE "read"
           m == MapSegment(Identity, g, data)
<1>1. a \in Nat /\ o \in Nat /\ n \in Nat /\ n >= o /\ v \in a .. (a + n - o - 1)
  BY HeaderIs
<1>2. rights \in {"read", "write"}
  OBVIOUS
<1>3. m = MapTo(Identity, a, data + o, data + n, rights)
  BY DEF MapSegment
<1> HIDE DEF a, o, n, rights, m
<1>4. v - a \in 0 .. (data + n - (data + o) - 1) /\ data + o + (v - a) \in Nat
  BY <1>1
<1>5. m[v] = [frame |-> data + o + (v - a), rights |-> rights]
  BY <1>1, <1>3, <1>4 DEF MapTo
<1>6. m[v] \in EntryType /\ m[v].frame = data + o + (v - a) /\ m[v].rights # "none"
  BY <1>2, <1>4, <1>5 DEF EntryType
<1> QED BY <1>6 DEF ByHeader, m, a, o

\* The directory of a new process: its stack and the headers of its program,
\* and every other page as it is, to be read.
NewDirectory(d, p, data, stack) ==
    /\ d \in DirectoryType
    /\ \A v \in Pages : d[v].rights # "none"
    /\ \A v \in Pages : v < StackAt \/ v >= FirstPage =>
          d[v].frame = v /\ d[v].rights = "read"
    /\ \A v \in StackRange : v \in Pages /\ d[v].frame = stack + (v - StackAt)
                                         /\ d[v].rights = "write"
    /\ \A i \in DOMAIN Segments[p] : \A v \in PagesIn(Segments[p][i]) :
          v \in Pages /\ ByHeader(d[v], Segments[p][i], data, v)
    /\ \A v \in Pages : d[v].rights = "write" =>
          \/ v \in StackRange
          \/ \E i \in DOMAIN Segments[p] : v \in PagesIn(Segments[p][i])

LEMMA MapMemoryIs ==
    ASSUME NEW p \in Programs, NEW data \in HeapPages, NEW stack \in HeapPages,
           NEW d, d = MapMemory(p, data, stack)
    PROVE  NewDirectory(d, p, data, stack)
<1> DEFINE Headers(v) == {i \in DOMAIN Segments[p] : v \in PagesIn(Segments[p][i])}
           elf == [v \in Pages |->
                     IF Headers(v) = {} THEN Identity[v]
                     ELSE MapSegment(Identity, Segments[p][CHOOSE i \in Headers(v) : TRUE], data)[v]]
<1>1. d = MapTo(elf, StackAt, stack, stack + StackPages, "write")
  BY DEF MapMemory, MapInto
<1>2. /\ data \in Nat /\ stack \in Nat /\ FirstPage <= LastPage /\ Pages \subseteq Nat
      /\ StackRange \subseteq Pages
  BY Numbers DEF HeapPages, Pages, StackRange
<1>3. \A v \in Pages : /\ Identity[v] \in EntryType /\ Identity[v].frame = v
                       /\ Identity[v].rights = "read"
  BY <1>2 DEF Identity, EntryType
<1>4. ASSUME NEW v \in Pages, NEW i \in DOMAIN Segments[p], v \in PagesIn(Segments[p][i])
      PROVE  ByHeader(elf[v], Segments[p][i], data, v)
  <2>1. \A j \in DOMAIN Segments[p] : v \in PagesIn(Segments[p][j]) => j = i
    BY <1>4, UserMemoryAssumption
  <2>2. Headers(v) = {i}
    BY <1>4, <2>1
  <2>3. elf[v] = MapSegment(Identity, Segments[p][i], data)[v]
    BY <2>2
  <2> HIDE DEF elf
  <2> QED BY <1>2, <1>4, <2>3, SegmentIs
<1>5. ASSUME NEW v \in Pages, \A i \in DOMAIN Segments[p] : v \notin PagesIn(Segments[p][i])
      PROVE  elf[v] = Identity[v]
  BY <1>5
<1>6. elf = [v \in Pages |-> elf[v]]
  OBVIOUS
<1> HIDE DEF elf, Headers
<1>7. \A v \in Pages : elf[v] \in EntryType /\ elf[v].rights # "none"
  BY <1>3, <1>4, <1>5 DEF ByHeader
<1>8. elf \in DirectoryType
  BY <1>6, <1>7 DEF DirectoryType, EntryType
<1>9. Remaps(d, elf, StackAt, stack, StackPages, "write")
  BY <1>1, <1>2, <1>8, Numbers, MapToIs
<1>10. d \in DirectoryType
  BY <1>9 DEF Remaps
<1>11. \A v \in StackRange : d[v].frame = stack + (v - StackAt) /\ d[v].rights = "write"
  BY <1>2, <1>9 DEF Remaps, StackRange
<1>12. \A v \in Pages : v \notin StackRange => d[v] = elf[v]
  BY <1>9 DEF Remaps, StackRange
<1>13. \A i \in DOMAIN Segments[p] : \A v \in PagesIn(Segments[p][i]) :
          v \in Pages /\ v \notin StackRange /\ v >= StackAt /\ v < FirstPage
  <2> SUFFICES ASSUME NEW i \in DOMAIN Segments[p], NEW v \in PagesIn(Segments[p][i])
               PROVE  v \in Pages /\ v \notin StackRange /\ v >= StackAt /\ v < FirstPage
    OBVIOUS
  <2>1. v \in (StackAt + StackPages) .. (FirstPage - 1)
    BY HeaderIs
  <2> QED BY <1>2, <2>1, Numbers DEF Pages, StackRange
<1>14. ASSUME NEW v \in Pages, v < StackAt \/ v >= FirstPage
       PROVE  d[v].frame = v /\ d[v].rights = "read"
  <2>1. v \notin StackRange
    BY <1>2, <1>14, Numbers DEF StackRange
  <2>2. \A i \in DOMAIN Segments[p] : v \notin PagesIn(Segments[p][i])
    BY <1>2, <1>13, <1>14, Numbers
  <2> QED BY <1>3, <1>5, <1>12, <2>1, <2>2
<1>15. ASSUME NEW i \in DOMAIN Segments[p], NEW v \in PagesIn(Segments[p][i])
       PROVE  v \in Pages /\ ByHeader(d[v], Segments[p][i], data, v)
  BY <1>4, <1>12, <1>13
<1>16. ASSUME NEW v \in Pages, d[v].rights = "write", v \notin StackRange
       PROVE  \E i \in DOMAIN Segments[p] : v \in PagesIn(Segments[p][i])
  BY <1>3, <1>5, <1>12, <1>16
<1>17. \A v \in Pages : d[v].rights # "none"
  BY <1>7, <1>11, <1>12
<1> QED BY <1>2, <1>10, <1>11, <1>14, <1>15, <1>16, <1>17 DEF NewDirectory

----------------------------------------------------------------------------
(* The processes.                                                          *)

\* What the process table knows of one process: the regions it was given, ...
Addresses(P) == {P.allocations[i].address : i \in 1 .. MaxAllocations} \ {Null}
Own(P) == Addresses(P) \cup {P.argv, P.data, P.stack, P.task}

\* ... no two of them the same, ...
Apart(P) ==
    /\ P.argv # P.data /\ P.argv # P.stack /\ P.argv # P.task
    /\ P.data # P.stack /\ P.data # P.task /\ P.stack # P.task
    /\ Addresses(P) \cap {P.argv, P.data, P.stack, P.task} = {}
    /\ \A i, j \in 1 .. MaxAllocations :
          i # j /\ P.allocations[i].address # Null =>
              P.allocations[i].address # P.allocations[j].address

\* ... each as long as it asked for, ...
Known(h, P) ==
    /\ [at |-> P.data, length |-> PagesOf(FileSize[P.program])] \in h
    /\ [at |-> P.stack, length |-> StackPages] \in h
    /\ \A i \in 1 .. MaxAllocations : P.allocations[i].address # Null =>
          /\ P.allocations[i].size \in Sizes
          /\ [at |-> P.allocations[i].address, length |-> PagesOf(P.allocations[i].size)] \in h

\* ... and its directory: below the heap what map_memory put there, but for
\* the first pages, which free(0) may take; in the heap the allocations.
Allocated(P, i) == Region(P.allocations[i].address, PagesOf(P.allocations[i].size))

InDirectory(d, P) ==
    /\ \A v \in Pages : v < FirstPage =>
          \/ d[v] = MapMemory(P.program, P.data, P.stack)[v]
          \/ v < LowPages /\ d[v].rights = "none"
    /\ \A i \in 1 .. MaxAllocations : P.allocations[i].address # Null =>
          \A v \in Allocated(P, i) : d[v].frame = v /\ d[v].rights = "write"
    /\ \A v \in Pages : v >= FirstPage /\ d[v].rights = "write" =>
          /\ d[v].frame = v
          /\ \E i \in 1 .. MaxAllocations : /\ P.allocations[i].address # Null
                                            /\ v \in Allocated(P, i)
    /\ \A v \in Pages : d[v].rights = "none" => P.program \in Freers

\* The heap has no page 0.
LEMMA NullIsNoPage == Null \notin HeapPages /\ HeapPages \subseteq Nat /\ HeapPages \subseteq Pages
BY Numbers DEF Null, HeapPages, Pages

\* A process that was loaded.
LEMMA ProcessIs ==
    ASSUME NEW h, Sound(h), NEW p \in Programs, Load(h, p).served,
           NEW l, l = Load(h, p), NEW P, P = Process(p, l)
    PROVE  /\ P \in ProcessType /\ P.program = p /\ P.data = l.data /\ P.stack = l.stack
           /\ Own(P) = {l.argv, l.data, l.stack, l.task}
           /\ Apart(P) /\ Known(l.heap, P)
           /\ InDirectory(MapMemory(p, l.data, l.stack), P)
<1>1. /\ l.argv \in HeapPages /\ l.data \in HeapPages
      /\ l.stack \in HeapPages /\ l.task \in HeapPages
      /\ l.argv # l.data /\ l.argv # l.stack /\ l.argv # l.task
      /\ l.data # l.stack /\ l.data # l.task /\ l.stack # l.task
      /\ [at |-> l.data, length |-> PagesOf(FileSize[p])] \in l.heap
      /\ [at |-> l.stack, length |-> StackPages] \in l.heap
  BY LoadTakes
<1>2. NoAllocations \in [1 .. MaxAllocations -> AllocationType]
  BY DEF NoAllocations, AllocationType
<1>3. /\ P.program = p /\ P.argv = l.argv /\ P.data = l.data /\ P.stack = l.stack
      /\ P.task = l.task /\ P.allocations = NoAllocations /\ P \in ProcessType
  BY <1>1, <1>2 DEF Process, ProcessType
<1>4. \A i \in 1 .. MaxAllocations : P.allocations[i].address = Null
  BY <1>3 DEF NoAllocations
<1>5. Addresses(P) = {}
  BY <1>4 DEF Addresses
<1>6. Own(P) = {l.argv, l.data, l.stack, l.task}
  BY <1>3, <1>5 DEF Own
<1>7. Apart(P)
  BY <1>1, <1>3, <1>4, <1>5 DEF Apart
<1>8. Known(l.heap, P)
  BY <1>1, <1>3, <1>4 DEF Known
<1> DEFINE d == MapMemory(p, l.data, l.stack)
<1>9. NewDirectory(d, p, l.data, l.stack)
  BY <1>1, MapMemoryIs
<1> HIDE DEF d
<1>10. /\ \A v \in Pages : v >= FirstPage => d[v].rights = "read"
       /\ \A v \in Pages : d[v].rights # "none"
  BY <1>9 DEF NewDirectory
<1>11. InDirectory(d, P)
  <2>1. d = MapMemory(P.program, P.data, P.stack)
    BY <1>3 DEF d
  <2> QED BY <1>4, <1>10, <2>1 DEF InDirectory
<1> QED BY <1>3, <1>6, <1>7, <1>8, <1>11 DEF d

\* Q is P with another entry in its table.
Enters(Q, P, i, e) == Q = [P EXCEPT !.allocations = [@ EXCEPT ![i] = e]]

\* The same after a malloc ...
LEMMA AllocatesIs ==
    ASSUME NEW P \in ProcessType, Apart(P), NEW i \in 1 .. MaxAllocations,
           P.allocations[i].address = Null,
           NEW b \in HeapPages, b \notin Own(P), NEW size \in Sizes,
           NEW Q, Enters(Q, P, i, [address |-> b, size |-> size])
    PROVE  /\ Q \in ProcessType /\ Own(Q) = Own(P) \cup {b} /\ Apart(Q)
           /\ Q.program = P.program /\ Q.data = P.data /\ Q.stack = P.stack
           /\ Q.allocations[i].address = b /\ Q.allocations[i].size = size
           /\ \A j \in 1 .. MaxAllocations : j # i => Q.allocations[j] = P.allocations[j]
<1>1. P.allocations \in [1 .. MaxAllocations -> AllocationType]
  BY DEF ProcessType
<1>2. [address |-> b, size |-> size] \in AllocationType
  BY DEF AllocationType
<1>3. Q.allocations = [P.allocations EXCEPT ![i] = [address |-> b, size |-> size]]
  BY DEF ProcessType, Enters
<1>4. /\ Q.program = P.program /\ Q.argv = P.argv /\ Q.data = P.data
      /\ Q.stack = P.stack /\ Q.task = P.task
  BY DEF ProcessType, Enters
<1>5. Q.allocations \in [1 .. MaxAllocations -> AllocationType]
  BY <1>1, <1>2, <1>3
<1>6. Q \in ProcessType
  BY <1>5 DEF ProcessType, Enters
<1>7. /\ Q.allocations[i].address = b /\ Q.allocations[i].size = size
      /\ \A j \in 1 .. MaxAllocations : j # i => Q.allocations[j] = P.allocations[j]
  <2>1. Q.allocations[i] = [address |-> b, size |-> size]
    BY <1>1, <1>3
  <2>2. \A j \in 1 .. MaxAllocations : j # i => Q.allocations[j] = P.allocations[j]
    BY <1>1, <1>3
  <2> QED BY <2>1, <2>2
<1>8. Addresses(Q) = Addresses(P) \cup {b}
  BY <1>7, NullIsNoPage DEF Addresses
<1>9. Own(Q) = Own(P) \cup {b}
  BY <1>4, <1>8 DEF Own
<1>10. Apart(Q)
  BY <1>4, <1>7, <1>8, NullIsNoPage DEF Apart, Own, Addresses
<1> QED BY <1>4, <1>6, <1>7, <1>9, <1>10

\* ... and after a free, which may be of the null pointer.
LEMMA FreesIs ==
    ASSUME NEW P \in ProcessType, Apart(P), NEW i \in 1 .. MaxAllocations,
           NEW a, a = P.allocations[i].address,
           NEW e, e = [P.allocations[i] EXCEPT !.address = Null],
           NEW Q, Enters(Q, P, i, e)
    PROVE  /\ Q \in ProcessType /\ Own(Q) = Own(P) \ {a} /\ Apart(Q)
           /\ Q.program = P.program /\ Q.data = P.data /\ Q.stack = P.stack
           /\ Q.allocations[i].address = Null
           /\ \A j \in 1 .. MaxAllocations : j # i => Q.allocations[j] = P.allocations[j]
<1>1. /\ P.allocations \in [1 .. MaxAllocations -> AllocationType]
      /\ P.argv \in HeapPages /\ P.data \in HeapPages
      /\ P.stack \in HeapPages /\ P.task \in HeapPages
  BY DEF ProcessType
<1>2. e \in AllocationType /\ e.address = Null
  BY <1>1 DEF AllocationType
<1>3. Q.allocations = [P.allocations EXCEPT ![i] = e]
  BY DEF ProcessType, Enters
<1>4. /\ Q.program = P.program /\ Q.argv = P.argv /\ Q.data = P.data
      /\ Q.stack = P.stack /\ Q.task = P.task
  BY DEF ProcessType, Enters
<1>5. Q.allocations \in [1 .. MaxAllocations -> AllocationType]
  <2> DEFINE A == AllocationType
  <2>1. P.allocations \in [1 .. MaxAllocations -> A] /\ e \in A
    BY <1>1, <1>2
  <2> HIDE DEF A
  <2>2. Q.allocations \in [1 .. MaxAllocations -> A]
    BY <1>3, <2>1
  <2> QED BY <2>2 DEF A
<1>6. Q \in ProcessType
  BY <1>5 DEF ProcessType, Enters
<1>7. /\ Q.allocations[i].address = Null
      /\ \A j \in 1 .. MaxAllocations : j # i => Q.allocations[j] = P.allocations[j]
  BY <1>1, <1>2, <1>3
<1>8. Addresses(Q) = Addresses(P) \ {a}
  <2>1. ASSUME NEW j \in 1 .. MaxAllocations, j # i, P.allocations[j].address # Null
        PROVE  P.allocations[j].address # a
    BY <2>1 DEF Apart
  <2> QED BY <1>7, <2>1 DEF Addresses
<1>9. a \notin {P.argv, P.data, P.stack, P.task}
  BY <1>1, NullIsNoPage DEF Apart, Addresses
<1>10. Own(Q) = Own(P) \ {a}
  BY <1>4, <1>8, <1>9 DEF Own
<1>11. Apart(Q)
  BY <1>4, <1>7, <1>8 DEF Apart
<1> QED BY <1>4, <1>6, <1>7, <1>10, <1>11

\* malloc maps a block that is no other's: what was mapped stays mapped.
LEMMA MappedIs ==
    ASSUME NEW h, Sound(h), NEW P \in ProcessType, Known(h, P),
           NEW d \in DirectoryType, InDirectory(d, P),
           NEW size \in Sizes, NEW n, n = PagesOf(size), NEW b, b = FirstFit(h, n), b # Null,
           NEW i \in 1 .. MaxAllocations, P.allocations[i].address = Null,
           NEW Q, Q.program = P.program, Q.data = P.data, Q.stack = P.stack,
           Q.allocations[i].address = b, Q.allocations[i].size = size,
           \A j \in 1 .. MaxAllocations : j # i => Q.allocations[j] = P.allocations[j],
           NEW new, new = MapTo(d, b, b, b + n, "write")
    PROVE  /\ new \in DirectoryType /\ InDirectory(new, Q)
           /\ Known(Granted(h, b, n), Q)
<1>1. n \in Nat \ {0}
  BY UserMemoryAssumption, PagesOfType
<1>2. /\ h \subseteq Granted(h, b, n) /\ [at |-> b, length |-> n] \in Granted(h, b, n)
      /\ Region(b, n) \subseteq HeapPages /\ b \in HeapPages
      /\ \A r \in h : Region(b, n) \cap Region(r.at, r.length) = {}
  BY <1>1, GrantIsSound
<1>3. b \in Nat /\ Region(b, n) = b .. (b + n - 1)
  BY <1>2, NullIsNoPage DEF Region
<1>4. Remaps(new, d, b, b, n, "write")
  BY <1>1, <1>3, MapToIs
<1>5. /\ new \in DirectoryType
      /\ \A v \in Pages : v \in Region(b, n) => new[v].frame = b + (v - b) /\ new[v].rights = "write"
      /\ \A v \in Pages : v \notin Region(b, n) => new[v] = d[v]
  BY <1>3, <1>4 DEF Remaps
<1>6. Region(b, n) \subseteq Pages /\ \A v \in Region(b, n) : v \in Nat /\ v >= FirstPage
  BY <1>2, NullIsNoPage, Numbers DEF HeapPages
<1>7. \A v \in Region(b, n) : new[v].frame = v /\ new[v].rights = "write"
  <2> SUFFICES ASSUME NEW v \in Region(b, n)
               PROVE  new[v].frame = v /\ new[v].rights = "write"
    OBVIOUS
  <2>1. b + (v - b) = v
    BY <1>3, <1>6
  <2> QED BY <1>5, <1>6, <2>1
<1>8. Allocated(Q, i) = Region(b, n)
  BY DEF Allocated
<1>9. \A j \in 1 .. MaxAllocations : j # i => Allocated(Q, j) = Allocated(P, j)
  BY DEF Allocated
<1>10. ASSUME NEW j \in 1 .. MaxAllocations, P.allocations[j].address # Null
       PROVE  Allocated(P, j) \cap Region(b, n) = {} /\ Allocated(P, j) \subseteq Pages
  <2> DEFINE r == [at |-> P.allocations[j].address, length |-> PagesOf(P.allocations[j].size)]
  <2>1. r \in h
    BY <1>10 DEF Known
  <2>2. Allocated(P, j) = Region(r.at, r.length)
    BY DEF Allocated
  <2> HIDE DEF r
  <2> QED BY <1>2, <2>1, <2>2, NullIsNoPage DEF Sound
<1>11. Known(Granted(h, b, n), Q)
  BY <1>2 DEF Known
<1>12. ASSUME NEW v \in Pages, v < FirstPage
       PROVE  \/ new[v] = MapMemory(Q.program, Q.data, Q.stack)[v]
              \/ v < LowPages /\ new[v].rights = "none"
  <2>1. v \notin Region(b, n)
    BY <1>6, <1>12, Numbers
  <2>2. new[v] = d[v]
    BY <1>5, <2>1
  <2> QED BY <1>12, <2>2 DEF InDirectory
<1>13. ASSUME NEW j \in 1 .. MaxAllocations, Q.allocations[j].address # Null,
              NEW v \in Allocated(Q, j)
       PROVE  new[v].frame = v /\ new[v].rights = "write"
  <2>1. CASE j = i
    BY <1>7, <1>8, <2>1
  <2>2. CASE j # i
    <3>1. P.allocations[j].address # Null /\ v \in Allocated(P, j)
      BY <1>9, <1>13, <2>2
    <3>2. v \in Pages /\ v \notin Region(b, n)
      BY <1>10, <3>1
    <3>3. d[v].frame = v /\ d[v].rights = "write"
      BY <3>1 DEF InDirectory
    <3> QED BY <1>5, <3>2, <3>3
  <2> QED BY <2>1, <2>2
<1>14. ASSUME NEW v \in Pages, v >= FirstPage, new[v].rights = "write"
       PROVE  /\ new[v].frame = v
              /\ \E j \in 1 .. MaxAllocations : /\ Q.allocations[j].address # Null
                                                /\ v \in Allocated(Q, j)
  <2>1. CASE v \in Region(b, n)
    BY <1>7, <1>8, <2>1
  <2>2. CASE v \notin Region(b, n)
    <3>1. new[v] = d[v]
      BY <1>5, <2>2
    <3>2. PICK j \in 1 .. MaxAllocations : /\ P.allocations[j].address # Null
                                           /\ v \in Allocated(P, j)
      BY <1>14, <3>1 DEF InDirectory
    <3>3. d[v].frame = v
      BY <1>14, <3>1 DEF InDirectory
    <3>4. j # i
      BY <3>2
    <3> QED BY <1>9, <3>1, <3>2, <3>3, <3>4
  <2> QED BY <2>1, <2>2
<1>15. ASSUME NEW v \in Pages, new[v].rights = "none"
       PROVE  Q.program \in Freers
  <2>1. v \notin Region(b, n)
    BY <1>7, <1>15
  <2> QED BY <1>5, <1>15, <2>1 DEF InDirectory
<1>16. InDirectory(new, Q)
  BY <1>12, <1>13, <1>14, <1>15 DEF InDirectory
<1> QED BY <1>5, <1>11, <1>16

\* An entry of the table of allocations holds numbers.
LEMMA EntryNumbers ==
    ASSUME NEW e \in AllocationType
    PROVE  e.address \in Nat /\ e.size \in Nat
<1>1. e.address \in HeapPages \cup {Null} /\ e.size \in Sizes \cup {0}
  BY DEF AllocationType
<1>2. HeapPages \cup {Null} \subseteq Nat /\ Sizes \cup {0} \subseteq Nat
  BY NullIsNoPage, UserMemoryAssumption DEF Null
<1> QED BY <1>1, <1>2

\* free unmaps the block it gives back, or as much from page 0 on: no other
\* allocation, and nothing of the program's.
LEMMA UnmappedIs ==
    ASSUME NEW h, Sound(h), NEW P \in ProcessType, Known(h, P), Apart(P), P.program \in Freers,
           NEW d \in DirectoryType, InDirectory(d, P),
           NEW i \in 1 .. MaxAllocations, NEW a, a = P.allocations[i].address,
           NEW n, n = PagesOf(P.allocations[i].size),
           NEW Q, Q.program = P.program, Q.data = P.data, Q.stack = P.stack,
           Q.allocations[i].address = Null,
           \A j \in 1 .. MaxAllocations : j # i => Q.allocations[j] = P.allocations[j],
           NEW new, new = MapTo(d, a, a, a + n, "none")
    PROVE  /\ new \in DirectoryType /\ InDirectory(new, Q)
           /\ Known(Kfree(h, {a}), Q)
<1>1. /\ P.allocations[i] \in AllocationType
      /\ P.data \in HeapPages /\ P.stack \in HeapPages
  BY DEF ProcessType
<1>2. a \in Nat /\ P.allocations[i].size \in Nat
  BY <1>1, EntryNumbers
<1>3. n \in Nat /\ n <= LowPages
  <2>1. CASE P.allocations[i].size = 0
    <3>1. PageSize - 1 \in Nat /\ PageSize - 1 < PageSize
      BY Numbers
    <3>2. PagesOf(0) = 0
      <4>1. (PageSize - 1) \div PageSize = 0
        BY <3>1, Numbers, QuotientIs
      <4>2. 0 + PageSize - 1 = PageSize - 1
        BY Numbers
      <4> QED BY <4>1, <4>2 DEF PagesOf
    <3> QED BY <2>1, <3>2, Numbers
  <2>2. CASE P.allocations[i].size \in Sizes
    BY <1>2, <2>2, PagesOfType, UserMemoryAssumption
  <2> QED BY <1>1, <2>1, <2>2 DEF AllocationType
<1>4. Remaps(new, d, a, a, n, "none")
  BY <1>2, <1>3, MapToIs
<1>5. /\ new \in DirectoryType
      /\ \A v \in Pages : v \in Region(a, n) => new[v].rights = "none"
      /\ \A v \in Pages : v \notin Region(a, n) => new[v] = d[v]
  BY <1>4 DEF Remaps, Region
<1>6. ASSUME a # Null
      PROVE  Region(a, n) \subseteq HeapPages /\ [at |-> a, length |-> n] \in h
  <2> DEFINE r == [at |-> a, length |-> n]
  <2>1. r \in h /\ r.at = a /\ r.length = n
    BY <1>6 DEF Known
  <2> HIDE DEF r
  <2>2. Region(r.at, r.length) \subseteq HeapPages
    BY <2>1 DEF Sound
  <2> QED BY <2>1, <2>2 DEF r
<1>7. ASSUME a = Null
      PROVE  \A v \in Region(a, n) : v \in Nat /\ v < LowPages
  BY <1>3, <1>7, Numbers DEF Region, Null
<1>8. ASSUME NEW j \in 1 .. MaxAllocations, j # i, P.allocations[j].address # Null
      PROVE  Allocated(P, j) \cap Region(a, n) = {} /\ Allocated(P, j) \subseteq HeapPages
  <2> DEFINE r == [at |-> P.allocations[j].address, length |-> PagesOf(P.allocations[j].size)]
             q == [at |-> a, length |-> n]
  <2>1. r \in h /\ r.at # a
    BY <1>8 DEF Known, Apart
  <2>2. Allocated(P, j) = Region(r.at, r.length)
    BY DEF Allocated
  <2>3. q.at = a /\ q.length = n
    OBVIOUS
  <2> HIDE DEF r, q
  <2>4. Region(r.at, r.length) \subseteq HeapPages
    BY <2>1 DEF Sound
  <2>5. CASE a = Null
    BY <1>7, <2>2, <2>4, <2>5, Numbers DEF HeapPages
  <2>6. CASE a # Null
    <3>1. q \in h /\ q # r
      BY <1>6, <2>1, <2>3, <2>6 DEF q
    <3> QED BY <2>1, <2>2, <2>3, <2>4, <3>1 DEF Sound
  <2> QED BY <2>5, <2>6
<1>9. \A j \in 1 .. MaxAllocations : j # i => Allocated(Q, j) = Allocated(P, j)
  BY DEF Allocated
<1>10. Known(Kfree(h, {a}), Q)
  <2>1. P.data # a /\ P.stack # a
    BY <1>1, NullIsNoPage DEF Apart, Addresses
  <2>2. \A j \in 1 .. MaxAllocations : j # i /\ P.allocations[j].address # Null =>
           P.allocations[j].address # a
    BY DEF Apart
  <2> QED BY <2>1, <2>2 DEF Known, Kfree
<1>11. ASSUME NEW v \in Pages, v < FirstPage
       PROVE  \/ new[v] = MapMemory(Q.program, Q.data, Q.stack)[v]
              \/ v < LowPages /\ new[v].rights = "none"
  <2>1. CASE v \in Region(a, n)
    <3>1. a = Null
      BY <1>6, <1>11, <2>1, Numbers DEF HeapPages
    <3> QED BY <1>5, <1>7, <2>1, <3>1
  <2>2. CASE v \notin Region(a, n)
    <3>1. new[v] = d[v]
      BY <1>5, <2>2
    <3>2. \/ d[v] = MapMemory(P.program, P.data, P.stack)[v]
          \/ v < LowPages /\ d[v].rights = "none"
      BY <1>11 DEF InDirectory
    <3> QED BY <3>1, <3>2
  <2> QED BY <2>1, <2>2
<1>12. ASSUME NEW j \in 1 .. MaxAllocations, Q.allocations[j].address # Null,
              NEW v \in Allocated(Q, j)
       PROVE  new[v].frame = v /\ new[v].rights = "write"
  <2>1. j # i /\ P.allocations[j].address # Null /\ v \in Allocated(P, j)
    BY <1>9, <1>12
  <2>2. v \in Pages /\ v \notin Region(a, n)
    BY <1>8, <2>1, NullIsNoPage
  <2>3. d[v].frame = v /\ d[v].rights = "write"
    BY <2>1 DEF InDirectory
  <2> QED BY <1>5, <2>2, <2>3
<1>13. ASSUME NEW v \in Pages, v >= FirstPage, new[v].rights = "write"
       PROVE  /\ new[v].frame = v
              /\ \E j \in 1 .. MaxAllocations : /\ Q.allocations[j].address # Null
                                                /\ v \in Allocated(Q, j)
  <2>1. v \notin Region(a, n) /\ new[v] = d[v] /\ d[v].rights = "write"
    BY <1>5, <1>13
  <2>2. /\ d[v].frame = v
        /\ \E j \in 1 .. MaxAllocations : /\ P.allocations[j].address # Null
                                          /\ v \in Allocated(P, j)
    <3>1. \A w \in Pages : w >= FirstPage /\ d[w].rights = "write" =>
            /\ d[w].frame = w
            /\ \E j \in 1 .. MaxAllocations : /\ P.allocations[j].address # Null
                                              /\ w \in Allocated(P, j)
      BY DEF InDirectory
    <3> QED BY <1>13, <2>1, <3>1
  <2>3. PICK j \in 1 .. MaxAllocations : /\ P.allocations[j].address # Null
                                         /\ v \in Allocated(P, j)
    BY <2>2
  <2>4. j # i
    BY <2>1, <2>3 DEF Allocated
  <2> QED BY <1>9, <2>1, <2>2, <2>3, <2>4
<1>14. InDirectory(new, Q)
  BY <1>11, <1>12, <1>13 DEF InDirectory
<1> QED BY <1>5, <1>10, <1>14

----------------------------------------------------------------------------
(* The invariant.                                                          *)

\* Every region is lost or belongs to one of the n processes of pr, and to one
\* only.
Owners(h, l, n, pr) ==
    /\ Ats(h) = l \cup UNION {Own(pr[s]) : s \in 0 .. (n - 1)}
    /\ \A s \in 0 .. (n - 1) : Own(pr[s]) \cap l = {} /\ Apart(pr[s])
    /\ \A s, t \in 0 .. (n - 1) : s # t => Own(pr[s]) \cap Own(pr[t]) = {}

IInv == /\ TypeOK
        /\ Sound(held)
        /\ Owners(held, lost, depth, proc)
        /\ \A s \in Live : Known(held, proc[s]) /\ InDirectory(pages[s], proc[s])
        /\ OnlyFreersFault

\* What is taken and forgotten is lost.
LEMMA OwnersLose ==
    ASSUME NEW h, NEW l, NEW n \in Nat, NEW pr, Owners(h, l, n, pr),
           NEW new, new \cap Ats(h) = {}, NEW h2, Ats(h2) = Ats(h) \cup new
    PROVE  Owners(h2, l \cup new, n, pr)
<1>1. \A s \in 0 .. (n - 1) : Own(pr[s]) \subseteq Ats(h)
  BY DEF Owners
<1>2. Ats(h2) = (l \cup new) \cup UNION {Own(pr[s]) : s \in 0 .. (n - 1)}
  BY DEF Owners
<1>3. \A s \in 0 .. (n - 1) : Own(pr[s]) \cap (l \cup new) = {} /\ Apart(pr[s])
  BY <1>1 DEF Owners
<1> QED BY <1>2, <1>3 DEF Owners

\* A process is given a region.
LEMMA OwnersGive ==
    ASSUME NEW h, NEW l, NEW n \in Nat, NEW pr, Owners(h, l, n, pr),
           NEW b, b \notin Ats(h), NEW h2, Ats(h2) = Ats(h) \cup {b},
           NEW s \in 0 .. (n - 1), NEW pr2, Own(pr2[s]) = Own(pr[s]) \cup {b}, Apart(pr2[s]),
           \A t \in 0 .. (n - 1) : t # s => pr2[t] = pr[t]
    PROVE  Owners(h2, l, n, pr2)
<1>1. \A t \in 0 .. (n - 1) : Own(pr[t]) \subseteq Ats(h)
  BY DEF Owners
<1>2. l \subseteq Ats(h)
  BY DEF Owners
<1>3. \A t \in 0 .. (n - 1) : Own(pr2[t]) = IF t = s THEN Own(pr[s]) \cup {b} ELSE Own(pr[t])
  OBVIOUS
<1>4. ASSUME NEW a \in Ats(h2)
      PROVE  a \in l \cup UNION {Own(pr2[t]) : t \in 0 .. (n - 1)}
  BY <1>3, <1>4 DEF Owners
<1>5. ASSUME NEW a \in l \cup UNION {Own(pr2[t]) : t \in 0 .. (n - 1)}
      PROVE  a \in Ats(h2)
  BY <1>1, <1>2, <1>3, <1>5
<1>6. Ats(h2) = l \cup UNION {Own(pr2[t]) : t \in 0 .. (n - 1)}
  BY <1>4, <1>5
<1>7. \A t \in 0 .. (n - 1) : Own(pr2[t]) \cap l = {} /\ Apart(pr2[t])
  BY <1>2, <1>3 DEF Owners
<1>8. \A t, u \in 0 .. (n - 1) : t # u => Own(pr2[t]) \cap Own(pr2[u]) = {}
  BY <1>1, <1>3 DEF Owners
<1> QED BY <1>6, <1>7, <1>8 DEF Owners

\* A process gives a region back, or the null pointer.
LEMMA OwnersTake ==
    ASSUME NEW h, NEW l, NEW n \in Nat, NEW pr, Owners(h, l, n, pr),
           NEW s \in 0 .. (n - 1), NEW b, b \in Own(pr[s]) \/ b \notin Ats(h),
           NEW h2, Ats(h2) = Ats(h) \ {b},
           NEW pr2, Own(pr2[s]) = Own(pr[s]) \ {b}, Apart(pr2[s]),
           \A t \in 0 .. (n - 1) : t # s => pr2[t] = pr[t]
    PROVE  Owners(h2, l, n, pr2)
<1>1. \A t \in 0 .. (n - 1) : Own(pr[t]) \subseteq Ats(h)
  BY DEF Owners
<1>2. l \subseteq Ats(h) /\ b \notin l /\ \A t \in 0 .. (n - 1) : t # s => b \notin Own(pr[t])
  BY <1>1 DEF Owners
<1>3. \A t \in 0 .. (n - 1) : Own(pr2[t]) = Own(pr[t]) \ {b}
  BY <1>2
<1>4. ASSUME NEW a \in Ats(h2)
      PROVE  a \in l \cup UNION {Own(pr2[t]) : t \in 0 .. (n - 1)}
  BY <1>3, <1>4 DEF Owners
<1>5. ASSUME NEW a \in l \cup UNION {Own(pr2[t]) : t \in 0 .. (n - 1)}
      PROVE  a \in Ats(h2)
  BY <1>1, <1>2, <1>3, <1>5
<1>6. Ats(h2) = l \cup UNION {Own(pr2[t]) : t \in 0 .. (n - 1)}
  BY <1>4, <1>5
<1>7. \A t \in 0 .. (n - 1) : Own(pr2[t]) \cap l = {} /\ Apart(pr2[t])
  BY <1>3 DEF Owners
<1>8. \A t, u \in 0 .. (n - 1) : t # u => Own(pr2[t]) \cap Own(pr2[u]) = {}
  BY <1>3 DEF Owners
<1> QED BY <1>6, <1>7, <1>8 DEF Owners

\* A process comes with regions of its own.
LEMMA OwnersJoin ==
    ASSUME NEW h, NEW l, NEW n \in Nat, NEW pr, Owners(h, l, n, pr),
           NEW own, NEW kept, (own \cup kept) \cap Ats(h) = {}, own \cap kept = {},
           NEW h2, Ats(h2) = Ats(h) \cup kept \cup own,
           NEW pr2, Own(pr2[n]) = own, Apart(pr2[n]),
           \A t \in 0 .. (n - 1) : pr2[t] = pr[t]
    PROVE  Owners(h2, l \cup kept, n + 1, pr2)
<1>1. 0 .. (n + 1 - 1) = (0 .. (n - 1)) \cup {n}
  OBVIOUS
<1>2. n \notin 0 .. (n - 1)
  OBVIOUS
<1> DEFINE old == 0 .. (n - 1)
           all == 0 .. (n + 1 - 1)
<1>3. all = old \cup {n} /\ n \notin old
  BY <1>1, <1>2
<1>4. /\ \A t \in old : Own(pr[t]) \subseteq Ats(h)
      /\ l \subseteq Ats(h)
      /\ \A t \in old : Own(pr[t]) \cap l = {} /\ Apart(pr[t])
      /\ \A s, t \in old : s # t => Own(pr[s]) \cap Own(pr[t]) = {}
  BY DEF Owners
<1>5. Ats(h) = l \cup UNION {Own(pr[s]) : s \in old}
  BY DEF Owners
<1>6. \A t \in old : pr2[t] = pr[t]
  OBVIOUS
<1> HIDE DEF old, all
<1>7. ASSUME NEW a \in Ats(h2)
      PROVE  a \in (l \cup kept) \cup UNION {Own(pr2[t]) : t \in all}
  BY <1>3, <1>5, <1>6, <1>7
<1>8. ASSUME NEW a \in (l \cup kept) \cup UNION {Own(pr2[t]) : t \in all}
      PROVE  a \in Ats(h2)
  BY <1>3, <1>4, <1>6, <1>8
<1>9. Ats(h2) = (l \cup kept) \cup UNION {Own(pr2[t]) : t \in all}
  BY <1>7, <1>8
<1>10. \A t \in all : Own(pr2[t]) \cap (l \cup kept) = {} /\ Apart(pr2[t])
  BY <1>3, <1>4, <1>6
<1>11. \A s, t \in all : s # t => Own(pr2[s]) \cap Own(pr2[t]) = {}
  BY <1>3, <1>4, <1>6
<1> QED BY <1>9, <1>10, <1>11 DEF Owners, all

\* The last process leaves with everything it has.
LEMMA OwnersLeave ==
    ASSUME NEW h, NEW l, NEW n \in Nat, NEW pr, Owners(h, l, n + 1, pr),
           NEW h2, Ats(h2) = Ats(h) \ Own(pr[n]),
           NEW pr2, \A t \in 0 .. (n - 1) : pr2[t] = pr[t]
    PROVE  Owners(h2, l, n, pr2)
<1> DEFINE old == 0 .. (n - 1)
           all == 0 .. (n + 1 - 1)
<1>1. all = old \cup {n} /\ n \notin old
  OBVIOUS
<1>2. /\ \A t \in all : Own(pr[t]) \cap l = {} /\ Apart(pr[t])
      /\ \A s, t \in all : s # t => Own(pr[s]) \cap Own(pr[t]) = {}
      /\ Ats(h) = l \cup UNION {Own(pr[s]) : s \in all}
  BY DEF Owners
<1>3. \A t \in old : pr2[t] = pr[t]
  OBVIOUS
<1> HIDE DEF old, all
<1>4. ASSUME NEW a \in Ats(h2)
      PROVE  a \in l \cup UNION {Own(pr2[t]) : t \in old}
  <2>1. CASE a \in l
    BY <2>1
  <2>2. CASE a \notin l
    <3>1. PICK t \in all : a \in Own(pr[t])
      BY <1>2, <1>4, <2>2
    <3>2. t \in old
      BY <1>1, <1>4, <3>1
    <3> QED BY <1>3, <3>1, <3>2
  <2> QED BY <2>1, <2>2
<1>5. ASSUME NEW a \in l \cup UNION {Own(pr2[t]) : t \in old}
      PROVE  a \in Ats(h2)
  <2>1. CASE a \in l
    BY <1>1, <1>2, <2>1
  <2>2. CASE a \notin l
    <3>1. PICK t \in old : a \in Own(pr2[t])
      BY <1>5, <2>2
    <3>2. a \in Own(pr[t]) /\ t \in all /\ n \in all /\ t # n
      BY <1>1, <1>3, <3>1
    <3> QED BY <1>2, <3>2
  <2> QED BY <2>1, <2>2
<1>6. Ats(h2) = l \cup UNION {Own(pr2[t]) : t \in old}
  BY <1>4, <1>5
<1>7. /\ \A t \in old : Own(pr2[t]) \cap l = {} /\ Apart(pr2[t])
      /\ \A s, t \in old : s # t => Own(pr2[s]) \cap Own(pr2[t]) = {}
  BY <1>1, <1>2, <1>3
<1> QED BY <1>6, <1>7 DEF Owners, old

\* A longer list of regions says as much.
LEMMA KnownGrows ==
    ASSUME NEW h, NEW P, Known(h, P), NEW h2, h \subseteq h2
    PROVE  Known(h2, P)
BY DEF Known

\* So does one without the regions of others.
LEMMA KnownStays ==
    ASSUME NEW h, NEW P, Known(h, P), NEW freed, freed \cap Own(P) = {}
    PROVE  Known(Kfree(h, freed), P)
<1>1. P.data \notin freed /\ P.stack \notin freed
  BY DEF Own
<1>2. \A i \in 1 .. MaxAllocations : P.allocations[i].address # Null =>
         P.allocations[i].address \notin freed
  BY DEF Own, Addresses
<1> QED BY <1>1, <1>2 DEF Known, Kfree

\* The slots in use, and their types.
LEMMA LiveIs ==
    ASSUME IInv
    PROVE  /\ depth \in Nat \ {0} /\ depth <= MaxProcesses
           /\ Live \subseteq Slots /\ Current \in Live /\ Live = 0 .. (depth - 1)
           /\ \A s \in Slots : proc[s] \in ProcessType /\ pages[s] \in DirectoryType
           /\ proc = [s \in Slots |-> proc[s]] /\ pages = [s \in Slots |-> pages[s]]
           /\ \A s \in Live : Own(proc[s]) \subseteq Ats(held) /\ Apart(proc[s])
           /\ lost \subseteq Ats(held) /\ Ats(held) \subseteq HeapPages
<1>1. /\ depth \in 1 .. MaxProcesses /\ proc \in [Slots -> ProcessType]
      /\ pages \in [Slots -> DirectoryType] /\ held \subseteq [at : HeapPages, length : Nat \ {0}]
  BY DEF IInv, TypeOK
<1>2. depth \in Nat \ {0} /\ depth <= MaxProcesses
  BY <1>1, Numbers
<1>3. Live \subseteq Slots /\ Current \in Live
  BY <1>2, Numbers DEF Live, Slots, Current
<1>4. Owners(held, lost, depth, proc)
  BY DEF IInv
<1>5. /\ \A s \in Live : Own(proc[s]) \subseteq Ats(held) /\ Apart(proc[s])
      /\ lost \subseteq Ats(held)
  BY <1>4 DEF Owners, Live
<1>6. Ats(held) \subseteq HeapPages
  BY <1>1 DEF Ats
<1> QED BY <1>1, <1>2, <1>3, <1>5, <1>6 DEF Live

\* What a step by the process that runs must show of the process that runs.
LEMMA CurrentKeeps ==
    ASSUME IInv, Running, NEW P \in ProcessType, NEW d \in DirectoryType,
           proc' = [proc EXCEPT ![Current] = P], pages' = [pages EXCEPT ![Current] = d],
           Known(held', P), InDirectory(d, P),
           \A s \in Live : s # Current => Known(held', proc[s]),
           Sound(held'), lost' \subseteq HeapPages, Owners(held', lost', depth, proc'),
           UNCHANGED <<depth, mode>>
    PROVE  IInv'
<1>1. /\ Live' = Live /\ Current' = Current /\ Current \in Slots /\ Live \subseteq Slots
      /\ Current \in Live
  BY LiveIs DEF Live, Current
<1>2. proc \in [Slots -> ProcessType] /\ pages \in [Slots -> DirectoryType]
  BY DEF IInv, TypeOK
<1>3. proc' \in [Slots -> ProcessType] /\ pages' \in [Slots -> DirectoryType]
  <2>1. proc' \in [Slots -> ProcessType]
    BY <1>1, <1>2
  <2>2. pages' \in [Slots -> DirectoryType]
    BY <1>1, <1>2
  <2> QED BY <2>1, <2>2
<1>4. TypeOK'
  <2>1. held' \subseteq [at : HeapPages, length : Nat \ {0}]
    BY DEF Sound
  <2> QED BY <1>3, <2>1 DEF IInv, TypeOK
<1>5. ASSUME NEW s \in Live
      PROVE  Known(held', proc'[s]) /\ InDirectory(pages'[s], proc'[s])
  <2>1. CASE s = Current
    <3>1. proc'[s] = P /\ pages'[s] = d
      BY <1>1, <1>2, <2>1
    <3> QED BY <3>1
  <2>2. CASE s # Current
    <3>1. proc'[s] = proc[s] /\ pages'[s] = pages[s]
      BY <1>1, <1>2, <2>2
    <3> QED BY <2>2, <3>1 DEF IInv
  <2> QED BY <2>1, <2>2
<1>6. OnlyFreersFault'
  BY DEF OnlyFreersFault, Running
<1> QED BY <1>1, <1>4, <1>5, <1>6 DEF IInv

\* malloc: the block is lost, or the process has it.
LEMMA MallocKeeps ==
    ASSUME IInv, NEW size \in Sizes, Malloc(size)
    PROVE  IInv'
<1> DEFINE n == PagesOf(size)
           P == proc[Current]
<1>1. PICK b \in HeapPages :
         /\ Granting(n, b)
         /\ \/ /\ Entries(Null) = {} /\ lost' = lost \cup {b}
               /\ UNCHANGED <<proc, pages>>
            \/ /\ Entries(Null) # {}
               /\ pages' = [pages EXCEPT ![Current] = MapTo(@, b, b, b + n, "write")]
               /\ proc' = [proc EXCEPT ![Current].allocations[Least(Entries(Null))] =
                                            [address |-> b, size |-> size]]
               /\ UNCHANGED lost
         /\ UNCHANGED <<depth, mode>>
  BY DEF Malloc
<1>2. n \in Nat \ {0}
  BY UserMemoryAssumption, PagesOfType
<1>3. Running /\ b = FirstFit(held, n) /\ b # Null /\ held' = Granted(held, b, n)
  BY <1>1 DEF Granting
<1>4. Sound(held)
  BY DEF IInv
<1> HIDE DEF n
<1>5. /\ Sound(held') /\ b \notin Ats(held) /\ Ats(held') = Ats(held) \cup {b}
      /\ held \subseteq held'
  BY <1>2, <1>3, <1>4, GrantIsSound
<1>6. /\ Current \in Live /\ Live \subseteq Slots /\ Live = 0 .. (depth - 1) /\ depth \in Nat
      /\ P \in ProcessType /\ pages[Current] \in DirectoryType /\ Apart(P)
      /\ lost \subseteq HeapPages /\ Own(P) \subseteq Ats(held)
      /\ proc = [s \in Slots |-> proc[s]] /\ pages = [s \in Slots |-> pages[s]]
  BY LiveIs
<1>7. Owners(held, lost, depth, proc) /\ Known(held, P) /\ InDirectory(pages[Current], P)
  BY <1>6 DEF IInv
<1>8. \A s \in Live : Known(held', proc[s])
  BY <1>5, KnownGrows DEF IInv
<1>9. CASE Entries(Null) = {}
  <2>1. lost' = lost \cup {b} /\ UNCHANGED <<proc, pages>>
    BY <1>1, <1>9
  <2>2. Owners(held', lost', depth, proc')
    <3>1. {b} \cap Ats(held) = {}
      BY <1>5
    <3>2. Owners(held', lost \cup {b}, depth, proc)
      BY <1>5, <1>6, <1>7, <3>1, OwnersLose
    <3> QED BY <2>1, <3>2
  <2>3. proc' = [proc EXCEPT ![Current] = P] /\ pages' = [pages EXCEPT ![Current] = pages[Current]]
    BY <1>6, <2>1
  <2> HIDE DEF P
  <2>4. lost' \subseteq HeapPages
    BY <1>6, <2>1
  <2>5. Known(held', P)
    BY <1>6, <1>8 DEF P
  <2> QED BY <1>1, <1>3, <1>5, <1>6, <1>7, <1>8, <2>2, <2>3, <2>4, <2>5, CurrentKeeps
<1>10. CASE Entries(Null) # {}
  <2> DEFINE i == Least(Entries(Null))
             Q == [P EXCEPT !.allocations = [@ EXCEPT ![i] = [address |-> b, size |-> size]]]
             new == MapTo(pages[Current], b, b, b + n, "write")
  <2>1. i \in 1 .. MaxAllocations /\ P.allocations[i].address = Null
    <3>1. Entries(Null) \subseteq 1 .. MaxAllocations
      BY DEF Entries
    <3>2. i \in Entries(Null)
      BY <1>10, <3>1, Numbers, LeastIsIn
    <3> QED BY <3>1, <3>2 DEF Entries, Allocations
  <2>2. /\ pages' = [pages EXCEPT ![Current] = new] /\ lost' = lost
        /\ proc' = [proc EXCEPT ![Current] = Q]
    BY <1>1, <1>10
  <2> HIDE DEF i, P, Q, new
  <2>3. /\ Q \in ProcessType /\ Own(Q) = Own(P) \cup {b} /\ Apart(Q)
        /\ Q.program = P.program /\ Q.data = P.data /\ Q.stack = P.stack
        /\ Q.allocations[i].address = b /\ Q.allocations[i].size = size
        /\ \A j \in 1 .. MaxAllocations : j # i => Q.allocations[j] = P.allocations[j]
    <3>1. b \notin Own(P)
      BY <1>5, <1>6
    <3>2. Enters(Q, P, i, [address |-> b, size |-> size])
      BY DEF Enters, Q
    <3> QED BY <1>6, <2>1, <3>1, <3>2, AllocatesIs
  <2>4. new \in DirectoryType /\ InDirectory(new, Q) /\ Known(held', Q)
    BY <1>3, <1>4, <1>6, <1>7, <2>1, <2>3, MappedIs DEF new, n
  <2>5. /\ proc'[Current] = Q
        /\ \A t \in Live : t # Current => proc'[t] = proc[t]
    BY <1>6, <2>2
  <2>6. Owners(held', lost', depth, proc')
    <3>1. /\ Current \in 0 .. (depth - 1)
          /\ Own(proc'[Current]) = Own(proc[Current]) \cup {b} /\ Apart(proc'[Current])
          /\ \A t \in 0 .. (depth - 1) : t # Current => proc'[t] = proc[t]
      BY <1>6, <2>3, <2>5 DEF P
    <3>2. /\ depth \in Nat /\ Owners(held, lost, depth, proc)
          /\ b \notin Ats(held) /\ Ats(held') = Ats(held) \cup {b}
      BY <1>5, <1>6, <1>7
    <3>3. Owners(held', lost, depth, proc')
      BY <3>1, <3>2, OwnersGive
    <3> QED BY <2>2, <3>3
  <2> QED BY <1>1, <1>3, <1>5, <1>6, <1>8, <2>2, <2>3, <2>4, <2>6, CurrentKeeps
<1> QED BY <1>9, <1>10

\* free: the region was the process's, or there was none.
LEMMA FreeKeeps ==
    ASSUME IInv, NEW address \in HeapPages \cup {Null}, Free(address)
    PROVE  IInv'
<1> DEFINE P == proc[Current]
           i == Least(Entries(address))
           n == PagesOf(P.allocations[i].size)
           e == [P.allocations[i] EXCEPT !.address = Null]
           Q == [P EXCEPT !.allocations = [@ EXCEPT ![i] = e]]
           new == MapTo(pages[Current], address, address, address + n, "none")
<1>1. /\ Running /\ P.program \in Freers /\ Entries(address) # {}
      /\ UNCHANGED <<lost, depth, mode>> /\ held' = Kfree(held, {address})
  BY DEF Free
<1>2. pages' = [pages EXCEPT ![Current] = new]
  BY DEF Free, Allocations
<1>3. proc' = [proc EXCEPT ![Current] = Q]
  BY DEF Free
<1>4. i \in 1 .. MaxAllocations /\ address = P.allocations[i].address
  <2>1. Entries(address) \subseteq 1 .. MaxAllocations
    BY DEF Entries
  <2>2. i \in Entries(address)
    BY <1>1, <2>1, Numbers, LeastIsIn
  <2> QED BY <2>1, <2>2 DEF Entries, Allocations
<1>5. Enters(Q, P, i, e)
  BY DEF Enters
<1> HIDE DEF P, i, Q, new
<1>6. /\ Current \in Live /\ Live \subseteq Slots /\ Live = 0 .. (depth - 1) /\ depth \in Nat
      /\ P \in ProcessType /\ pages[Current] \in DirectoryType /\ Apart(P)
      /\ lost \subseteq HeapPages /\ Own(P) \subseteq Ats(held) /\ Ats(held) \subseteq HeapPages
      /\ proc = [s \in Slots |-> proc[s]]
  BY LiveIs DEF P
<1>7. /\ Owners(held, lost, depth, proc) /\ Sound(held)
      /\ Known(held, P) /\ InDirectory(pages[Current], P)
  BY <1>6 DEF IInv, P
<1>8. /\ Q \in ProcessType /\ Own(Q) = Own(P) \ {address} /\ Apart(Q)
      /\ Q.program = P.program /\ Q.data = P.data /\ Q.stack = P.stack
      /\ Q.allocations[i].address = Null
      /\ \A j \in 1 .. MaxAllocations : j # i => Q.allocations[j] = P.allocations[j]
  BY <1>4, <1>5, <1>6, FreesIs
<1> HIDE DEF e
<1>9. new \in DirectoryType /\ InDirectory(new, Q) /\ Known(held', Q)
  BY <1>1, <1>4, <1>6, <1>7, <1>8, UnmappedIs DEF new
<1>10. Sound(held') /\ Ats(held') = Ats(held) \ {address}
  BY <1>1, <1>7, FreeIsSound
<1>11. address \in Own(P) \/ address \notin Ats(held)
  <2>1. CASE address = Null
    BY <1>6, <2>1, NullIsNoPage
  <2>2. CASE address # Null
    BY <1>4, <2>2 DEF Own, Addresses
  <2> QED BY <2>1, <2>2
<1>12. ASSUME NEW s \in Live, s # Current
       PROVE  Known(held', proc[s])
  <2>1. Own(proc[s]) \cap Own(P) = {} /\ Own(proc[s]) \subseteq Ats(held)
    BY <1>6, <1>7, <1>12, LiveIs DEF Owners, P
  <2>2. {address} \cap Own(proc[s]) = {}
    BY <1>11, <2>1
  <2>3. Known(held, proc[s])
    BY DEF IInv
  <2> QED BY <1>1, <2>2, <2>3, KnownStays
<1>13. Owners(held', lost', depth, proc')
  <2>1. /\ proc'[Current] = Q
        /\ \A t \in Live : t # Current => proc'[t] = proc[t]
    BY <1>3, <1>6
  <2>2. /\ Current \in 0 .. (depth - 1)
        /\ address \in Own(proc[Current]) \/ address \notin Ats(held)
        /\ Own(proc'[Current]) = Own(proc[Current]) \ {address} /\ Apart(proc'[Current])
        /\ \A t \in 0 .. (depth - 1) : t # Current => proc'[t] = proc[t]
    BY <1>6, <1>8, <1>11, <2>1 DEF P
  <2>3. /\ depth \in Nat /\ Owners(held, lost, depth, proc)
        /\ Ats(held') = Ats(held) \ {address}
    BY <1>6, <1>7, <1>10
  <2>4. Owners(held', lost, depth, proc')
    BY <2>2, <2>3, OwnersTake
  <2> QED BY <1>1, <2>4
<1>14. lost' \subseteq HeapPages
  BY <1>1, <1>6
<1> QED BY <1>1, <1>2, <1>3, <1>8, <1>9, <1>10, <1>12, <1>13, <1>14, CurrentKeeps

\* A call that takes memory and forgets it.
LEMMA LosingKeeps ==
    ASSUME IInv, NEW new, new \subseteq HeapPages, new \cap Ats(held) = {},
           held \subseteq held', Sound(held'), Ats(held') = Ats(held) \cup new,
           lost' = lost \cup new, UNCHANGED <<depth, proc, pages, mode>>
    PROVE  IInv'
<1>1. Live' = Live /\ Current' = Current
  BY DEF Live, Current
<1>2. depth \in Nat /\ Owners(held, lost, depth, proc)
  BY LiveIs DEF IInv
<1>3. Owners(held', lost \cup new, depth, proc)
  BY <1>2, OwnersLose
<1>4. \A s \in Live : Known(held', proc[s]) /\ InDirectory(pages[s], proc[s])
  BY KnownGrows DEF IInv
<1>5. TypeOK'
  BY DEF IInv, TypeOK, Sound
<1>6. OnlyFreersFault'
  BY <1>1 DEF IInv, OnlyFreersFault
<1> QED BY <1>1, <1>3, <1>4, <1>5, <1>6 DEF IInv

LEMMA ReadStringKeeps ==
    ASSUME IInv, ReadString
    PROVE  IInv'
<1>1. PICK tmp \in HeapPages : Granting(1, tmp) /\ lost' = lost \cup {tmp}
  BY DEF ReadString
<1>2. /\ tmp = FirstFit(held, 1) /\ tmp # Null /\ held' = Granted(held, tmp, 1)
      /\ UNCHANGED <<depth, proc, pages, mode>>
  BY <1>1 DEF Granting, ReadString
<1>3. Sound(held) /\ 1 \in Nat \ {0}
  BY DEF IInv
<1>4. /\ Sound(held') /\ tmp \notin Ats(held) /\ Ats(held') = Ats(held) \cup {tmp}
      /\ held \subseteq held'
  BY <1>2, <1>3, GrantIsSound
<1>5. {tmp} \subseteq HeapPages /\ {tmp} \cap Ats(held) = {}
  BY <1>4
<1> QED BY <1>1, <1>2, <1>4, <1>5, LosingKeeps

\* system, when it returns an error.
LEMMA SystemFailsKeeps ==
    ASSUME IInv, SystemFails
    PROVE  IInv'
<1>1. PICK tmp \in HeapPages :
         /\ Running /\ tmp = FirstFit(held, 1)
         /\ LET f == Failing(Granted(held, tmp, 1)) IN
            /\ f.served /\ Mapped(f.cleared)
            /\ held' = f.heap
            /\ lost' = lost \cup {tmp} \cup {f.at[i] : i \in DOMAIN f.at}
         /\ UNCHANGED <<depth, proc, pages, mode>>
  BY DEF SystemFails
<1> DEFINE h == Granted(held, tmp, 1)
           f == Failing(h)
<1>2. /\ f.served /\ held' = f.heap /\ lost' = lost \cup {tmp} \cup Values(f.at)
      /\ tmp = FirstFit(held, 1)
  BY <1>1 DEF Values
<1>3. Sound(held) /\ 1 \in Nat \ {0} /\ tmp # Null
  BY NullIsNoPage DEF IInv
<1>4. Sound(h) /\ tmp \notin Ats(held) /\ Ats(h) = Ats(held) \cup {tmp} /\ held \subseteq h
  BY <1>2, <1>3, GrantIsSound
<1> HIDE DEF h
<1>5. Adds(h, f)
  BY <1>2, <1>4, FailingTakes
<1> HIDE DEF f
<1> DEFINE new == {tmp} \cup Values(f.at)
<1>6. /\ new \subseteq HeapPages /\ new \cap Ats(held) = {}
      /\ Ats(held') = Ats(held) \cup new /\ lost' = lost \cup new
      /\ Sound(held') /\ held \subseteq held'
  BY <1>2, <1>4, <1>5 DEF Adds
<1> HIDE DEF new
<1> QED BY <1>1, <1>6, LosingKeeps

\* system: a process comes, the others keep what they have.
LEMMA SystemEntersKeeps ==
    ASSUME IInv, NEW p \in Programs, SystemEnters(p)
    PROVE  IInv'
<1>1. PICK tmp \in HeapPages :
         /\ Running /\ depth < MaxProcesses
         /\ tmp = FirstFit(held, 1)
         /\ LET l == Load(Granted(held, tmp, 1), p) IN
            /\ l.served /\ Mapped(l.cleared)
            /\ held' = l.heap
            /\ lost' = lost \cup {tmp} \cup l.kept
            /\ proc' = [proc EXCEPT ![depth] = Process(p, l)]
            /\ pages' = [pages EXCEPT ![depth] = MapMemory(p, l.data, l.stack)]
  BY DEF SystemEnters
<1> DEFINE h == Granted(held, tmp, 1)
           l == Load(h, p)
           P == Process(p, l)
           d == MapMemory(p, l.data, l.stack)
<1>2. /\ l.served /\ held' = l.heap /\ lost' = lost \cup {tmp} \cup l.kept
      /\ proc' = [proc EXCEPT ![depth] = P] /\ pages' = [pages EXCEPT ![depth] = d]
      /\ tmp = FirstFit(held, 1) /\ Running /\ depth < MaxProcesses
  BY <1>1
<1>3. depth' = depth + 1 /\ mode' = mode
  BY DEF SystemEnters
<1>4. Sound(held) /\ 1 \in Nat \ {0} /\ tmp # Null
  BY NullIsNoPage DEF IInv
<1>5. Sound(h) /\ tmp \notin Ats(held) /\ Ats(h) = Ats(held) \cup {tmp} /\ held \subseteq h
  BY <1>2, <1>4, GrantIsSound
<1> HIDE DEF h
<1>6. /\ P \in ProcessType /\ Own(P) = {l.argv, l.data, l.stack, l.task}
      /\ Apart(P) /\ Known(held', P) /\ InDirectory(d, P)
  BY <1>2, <1>5, ProcessIs
<1>7. /\ Sound(held') /\ h \subseteq held' /\ l.kept \subseteq HeapPages
      /\ Ats(held') = Ats(h) \cup l.kept \cup {l.argv, l.data, l.stack, l.task}
      /\ ({l.argv, l.data, l.stack, l.task} \cup l.kept) \cap Ats(h) = {}
      /\ {l.argv, l.data, l.stack, l.task} \cap l.kept = {}
  BY <1>2, <1>5, LoadTakes
<1>8. NewDirectory(d, p, l.data, l.stack)
  BY <1>2, <1>5, LoadTakes, MapMemoryIs
<1>9. d \in DirectoryType
  BY <1>8 DEF NewDirectory
<1> HIDE DEF P, d, l
<1>10. /\ Live \subseteq Slots /\ Live = 0 .. (depth - 1) /\ depth \in Nat
       /\ proc = [s \in Slots |-> proc[s]] /\ pages = [s \in Slots |-> pages[s]]
       /\ lost \subseteq HeapPages
  BY LiveIs
<1>11. depth \in Slots /\ depth \notin Live /\ Live' = Live \cup {depth}
  <2>1. depth \in Nat /\ MaxProcesses \in Nat /\ depth < MaxProcesses
    BY <1>2, <1>10, Numbers
  <2>2. depth \in Slots
    BY <2>1 DEF Slots
  <2>3. depth \notin 0 .. (depth - 1)
    BY <2>1
  <2>4. 0 .. (depth + 1 - 1) = (0 .. (depth - 1)) \cup {depth}
    BY <2>1
  <2> QED BY <1>3, <2>2, <2>3, <2>4 DEF Live
<1>12. /\ proc'[depth] = P /\ pages'[depth] = d
       /\ \A s \in Live : proc'[s] = proc[s] /\ pages'[s] = pages[s]
  BY <1>2, <1>10, <1>11
<1>13. Owners(held', lost', depth', proc')
  <2> DEFINE own == {l.argv, l.data, l.stack, l.task}
             new == {tmp} \cup l.kept
  <2>1. /\ (own \cup new) \cap Ats(held) = {} /\ Ats(held') = Ats(held) \cup new \cup own
        /\ own \cap new = {}
    BY <1>5, <1>7
  <2>2. Own(proc'[depth]) = own /\ Apart(proc'[depth])
    BY <1>6, <1>12
  <2>3. \A t \in 0 .. (depth - 1) : proc'[t] = proc[t]
    BY <1>10, <1>12
  <2>4. Owners(held, lost, depth, proc) /\ depth \in Nat /\ lost' = lost \cup new
    BY <1>2, <1>10 DEF IInv
  <2> HIDE DEF own, new
  <2>5. Owners(held', lost \cup new, depth + 1, proc')
    BY <2>1, <2>2, <2>3, <2>4, OwnersJoin
  <2> QED BY <1>3, <2>4, <2>5
<1>14. ASSUME NEW s \in Live'
       PROVE  Known(held', proc'[s]) /\ InDirectory(pages'[s], proc'[s])
  <2>1. CASE s = depth
    BY <1>6, <1>12, <2>1
  <2>2. CASE s \in Live
    <3>1. Known(held, proc[s]) /\ InDirectory(pages[s], proc[s])
      BY <2>2 DEF IInv
    <3>2. held \subseteq held'
      BY <1>5, <1>7
    <3>3. Known(held', proc[s])
      BY <3>1, <3>2, KnownGrows
    <3> QED BY <1>12, <2>2, <3>1, <3>3
  <2> QED BY <1>11, <1>14, <2>1, <2>2
<1>15. TypeOK'
  <2>1. proc \in [Slots -> ProcessType] /\ pages \in [Slots -> DirectoryType]
    BY DEF IInv, TypeOK
  <2>2. proc' \in [Slots -> ProcessType]
    BY <1>2, <1>6, <1>11, <2>1
  <2>3. pages' \in [Slots -> DirectoryType]
    BY <1>2, <1>9, <1>11, <2>1
  <2>4. lost' \subseteq HeapPages
    BY <1>2, <1>7, <1>10
  <2>5. depth' \in 1 .. MaxProcesses
    BY <1>2, <1>3, <1>10, Numbers
  <2> QED BY <1>3, <1>7, <2>2, <2>3, <2>4, <2>5 DEF IInv, TypeOK, Sound
<1>16. OnlyFreersFault'
  BY <1>2, <1>3 DEF OnlyFreersFault, Running
<1> QED BY <1>7, <1>13, <1>14, <1>15, <1>16 DEF IInv

\* exit: what the process had is nobody else's.
LEMMA ExitKeeps ==
    ASSUME IInv, Exit
    PROVE  IInv'
<1> DEFINE P == proc[Current]
           Q == [P EXCEPT !.allocations = Emptied(@)]
<1>1. /\ Running /\ depth > 1 /\ held' = Kfree(held, OwnedBy(Current))
      /\ depth' = depth - 1 /\ UNCHANGED <<lost, pages, mode>>
  BY DEF Exit
<1>2. proc' = [proc EXCEPT ![Current] = Q]
  BY DEF Exit
<1>3. /\ Current \in Live /\ Live \subseteq Slots /\ Live = 0 .. (depth - 1) /\ depth \in Nat
      /\ P \in ProcessType /\ Own(P) \subseteq Ats(held)
      /\ proc = [s \in Slots |-> proc[s]] /\ lost \subseteq HeapPages
  BY LiveIs
<1>4. OwnedBy(Current) = Own(P)
  <2>1. \A i \in 1 .. 4 : i = 1 \/ i = 2 \/ i = 3 \/ i = 4
    OBVIOUS
  <2>2. {Pointers(Current)[i] : i \in 1 .. 4} = {P.argv, P.data, P.stack, P.task}
    BY <2>1 DEF Pointers
  <2>3. AllocatedBy(Current) = Addresses(P)
    BY DEF AllocatedBy, Addresses
  <2> QED BY <2>2, <2>3 DEF OwnedBy, Own
<1>5. Q \in ProcessType
  <2>1. P.allocations \in [1 .. MaxAllocations -> AllocationType]
    BY <1>3 DEF ProcessType
  <2>2. ASSUME NEW i \in 1 .. MaxAllocations
        PROVE  [P.allocations[i] EXCEPT !.address = Null] \in AllocationType
    BY <2>1 DEF AllocationType
  <2>3. Emptied(P.allocations) \in [1 .. MaxAllocations -> AllocationType]
    BY <2>1, <2>2 DEF Emptied
  <2>4. Q = [P EXCEPT !.allocations = Emptied(P.allocations)]
    OBVIOUS
  <2> HIDE DEF P, Q
  <2> QED BY <1>3, <2>3, <2>4 DEF ProcessType
<1> HIDE DEF P, Q
<1>6. /\ Sound(held') /\ Ats(held') = Ats(held) \ Own(P)
      /\ held' = Kfree(held, Own(P))
  BY <1>1, <1>4, FreeIsSound DEF IInv
<1>7. /\ Live' = 0 .. (Current - 1) /\ Live' \subseteq Live /\ Current \notin Live'
      /\ depth' = Current /\ Current \in Nat /\ depth = Current + 1
  BY <1>1, <1>3 DEF Live, Current
<1>8. \A s \in Live' : proc'[s] = proc[s]
  BY <1>2, <1>3, <1>7
<1>9. Owners(held', lost', depth', proc')
  <2>1. /\ Owners(held, lost, Current + 1, proc)
        /\ Ats(held') = Ats(held) \ Own(proc[Current])
        /\ \A t \in 0 .. (Current - 1) : proc'[t] = proc[t]
    BY <1>6, <1>7, <1>8 DEF IInv, P
  <2>2. Owners(held', lost, Current, proc')
    BY <1>7, <2>1, OwnersLeave
  <2> QED BY <1>1, <1>7, <2>2
<1>10. ASSUME NEW s \in Live'
       PROVE  Known(held', proc'[s]) /\ InDirectory(pages'[s], proc'[s])
  <2>1. s \in Live /\ s # Current
    BY <1>7
  <2>2. Known(held, proc[s]) /\ InDirectory(pages[s], proc[s])
    BY <2>1 DEF IInv
  <2>3. Own(P) \cap Own(proc[s]) = {}
    BY <1>3, <2>1 DEF IInv, Owners, P
  <2>4. Known(held', proc[s])
    BY <1>6, <2>2, <2>3, KnownStays
  <2> QED BY <1>1, <1>8, <2>2, <2>4
<1>11. TypeOK'
  <2>1. proc' \in [Slots -> ProcessType]
    BY <1>2, <1>3, <1>5 DEF IInv, TypeOK
  <2>2. depth' \in 1 .. MaxProcesses
    BY <1>1, <1>3, Numbers DEF IInv, TypeOK
  <2> QED BY <1>1, <1>6, <2>1, <2>2 DEF IInv, TypeOK, Sound
<1>12. OnlyFreersFault'
  BY <1>1 DEF OnlyFreersFault, Running
<1> QED BY <1>6, <1>9, <1>10, <1>11, <1>12 DEF IInv

\* A page fault in the kernel needs a hole in the caller's directory.
LEMMA KernelFaultsKeeps ==
    ASSUME IInv, KernelFaults
    PROVE  IInv'
<1>1. mode' = "faulted" /\ UNCHANGED <<held, lost, depth, proc, pages>>
  BY DEF KernelFaults
<1>2. \E set : ~Mapped(set)
  BY DEF KernelFaults
<1>3. PICK v \in Pages : pages[Current][v].rights = "none"
  BY <1>2 DEF Mapped, Holes
<1>4. proc[Current].program \in Freers
  BY <1>3, LiveIs DEF IInv, InDirectory
<1>5. OnlyFreersFault'
  BY <1>1, <1>4 DEF OnlyFreersFault, Current
<1>6. TypeOK'
  BY <1>1 DEF IInv, TypeOK
<1>7. Live' = Live
  BY <1>1 DEF Live
<1> QED BY <1>1, <1>5, <1>6, <1>7 DEF IInv

LEMMA SpendsKeeps ==
    ASSUME IInv, Spends
    PROVE  IInv'
<1>1. mode' = "spent" /\ UNCHANGED <<held, lost, depth, proc, pages>>
  BY DEF Spends
<1>2. TypeOK' /\ OnlyFreersFault'
  BY <1>1 DEF IInv, TypeOK, OnlyFreersFault
<1>3. Live' = Live
  BY <1>1 DEF Live
<1> QED BY <1>1, <1>2, <1>3 DEF IInv

\* The machine has booted: the heap was empty, and the shell is loaded.
LEMMA InitKeeps ==
    ASSUME Init
    PROVE  IInv
<1> DEFINE h == {}
           l == Load(h, Shell)
           P == Process(Shell, l)
           d == MapMemory(Shell, l.data, l.stack)
<1>1. /\ held = l.heap /\ lost = l.kept /\ depth = 1 /\ mode = "user"
      /\ proc = [s \in Slots |-> P]
      /\ pages = [s \in Slots |-> IF s = 0 THEN d ELSE Identity]
  BY DEF Init, MapMemory
<1>2. Sound(h) /\ Ats(h) = {}
  BY DEF Sound, Ats
<1>3. l.served /\ Shell \in Programs
  BY ShellAssumption, UserMemoryAssumption
<1> HIDE DEF h
<1>4. /\ P \in ProcessType /\ Own(P) = {l.argv, l.data, l.stack, l.task}
      /\ Apart(P) /\ Known(held, P) /\ InDirectory(d, P)
  BY <1>1, <1>2, <1>3, ProcessIs
<1>5. /\ Sound(held) /\ l.kept \subseteq HeapPages
      /\ Ats(held) = Ats(h) \cup l.kept \cup {l.argv, l.data, l.stack, l.task}
      /\ {l.argv, l.data, l.stack, l.task} \cap l.kept = {}
  BY <1>1, <1>2, <1>3, LoadTakes
<1>6. NewDirectory(d, Shell, l.data, l.stack)
  BY <1>2, <1>3, LoadTakes, MapMemoryIs
<1>7. d \in DirectoryType /\ Identity \in DirectoryType
  <2>1. Pages \subseteq Nat
    BY Numbers DEF Pages
  <2> QED BY <1>6, <2>1 DEF NewDirectory, Identity, DirectoryType
<1> HIDE DEF P, d, l
<1>8. Live = {0} /\ 0 \in Slots
  BY <1>1, Numbers DEF Live, Slots
<1>9. proc[0] = P /\ pages[0] = d
  BY <1>1, <1>8
<1>10. TypeOK
  <2>1. proc \in [Slots -> ProcessType]
    BY <1>1, <1>4
  <2>2. pages \in [Slots -> DirectoryType]
    BY <1>1, <1>7
  <2>3. depth \in 1 .. MaxProcesses
    BY <1>1, Numbers
  <2> QED BY <1>1, <1>5, <2>1, <2>2, <2>3 DEF TypeOK, Sound
<1>11. Owners(held, lost, depth, proc)
  <2>1. 0 .. (depth - 1) = {0}
    BY <1>1
  <2>2. UNION {Own(proc[s]) : s \in {0}} = Own(P)
    BY <1>9
  <2>3. Ats(held) = lost \cup Own(P) /\ Own(P) \cap lost = {}
    BY <1>1, <1>2, <1>4, <1>5
  <2> QED BY <1>4, <1>9, <2>1, <2>2, <2>3 DEF Owners
<1>12. OnlyFreersFault
  BY <1>1 DEF OnlyFreersFault
<1> QED BY <1>4, <1>5, <1>8, <1>9, <1>10, <1>11, <1>12 DEF IInv

LEMMA NextKeeps ==
    ASSUME IInv, [Next]_vars
    PROVE  IInv'
<1>1. CASE \E size \in Sizes : Malloc(size)
  BY <1>1, MallocKeeps
<1>2. CASE \E address \in HeapPages \cup {Null} : Free(address)
  BY <1>2, FreeKeeps
<1>3. CASE ReadString
  BY <1>3, ReadStringKeeps
<1>4. CASE System
  BY <1>4, SystemEntersKeeps, SystemFailsKeeps DEF System
<1>5. CASE KernelFaults
  BY <1>5, KernelFaultsKeeps
<1>6. CASE Exit
  BY <1>6, ExitKeeps
<1>7. CASE Spends
  BY <1>7, SpendsKeeps
<1>8. CASE UNCHANGED vars
  <2>1. UNCHANGED <<held, lost, depth, proc, pages, mode>>
    BY <1>8 DEF vars
  <2>2. TypeOK' /\ OnlyFreersFault' /\ Live' = Live
    BY <2>1 DEF IInv, TypeOK, OnlyFreersFault, Current, Live
  <2> QED BY <2>1, <2>2 DEF IInv
<1> QED BY <1>1, <1>2, <1>3, <1>4, <1>5, <1>6, <1>7, <1>8 DEF Next

LEMMA Invariance == Spec => []IInv
<1>1. Init => IInv
  BY InitKeeps
<1>2. IInv /\ [Next]_vars => IInv'
  BY NextKeeps
<1> QED BY <1>1, <1>2, PTL DEF Spec

----------------------------------------------------------------------------
(* The theorems.                                                           *)

\* The heap, the table and the directories have their types.
THEOREM UserMemoryTypeCorrect == Spec => []TypeOK
<1>1. IInv => TypeOK
  BY DEF IInv
<1> QED BY <1>1, Invariance, PTL

\* The kernel takes a page fault only for a program that calls free().
THEOREM KernelFaultsForFreers == Spec => []OnlyFreersFault
<1>1. IInv => OnlyFreersFault
  BY DEF IInv
<1> QED BY <1>1, Invariance, PTL

\* What the model calls a process's own is what Own says.
LEMMA OwnIs ==
    ASSUME NEW s
    PROVE  /\ OwnedBy(s) = Own(proc[s]) /\ AllocatedBy(s) = Addresses(proc[s])
           /\ {Pointers(s)[i] : i \in 1 .. 4} =
                 {proc[s].argv, proc[s].data, proc[s].stack, proc[s].task}
           /\ Apart(proc[s]) => \A i, j \in 1 .. 4 : i # j => Pointers(s)[i] # Pointers(s)[j]
<1>1. \A i \in 1 .. 4 : i = 1 \/ i = 2 \/ i = 3 \/ i = 4
  OBVIOUS
<1>2. {Pointers(s)[i] : i \in 1 .. 4} = {proc[s].argv, proc[s].data, proc[s].stack, proc[s].task}
  BY <1>1 DEF Pointers
<1>3. AllocatedBy(s) = Addresses(proc[s])
  BY DEF AllocatedBy, Addresses
<1>4. OwnedBy(s) = Own(proc[s])
  BY <1>2, <1>3 DEF OwnedBy, Own
<1>5. /\ Pointers(s)[1] = proc[s].argv /\ Pointers(s)[2] = proc[s].data
      /\ Pointers(s)[3] = proc[s].stack /\ Pointers(s)[4] = proc[s].task
  BY DEF Pointers
<1>6. ASSUME Apart(proc[s]), NEW i \in 1 .. 4, NEW j \in 1 .. 4, i # j
      PROVE  Pointers(s)[i] # Pointers(s)[j]
  BY <1>1, <1>5, <1>6 DEF Apart
<1> QED BY <1>2, <1>3, <1>4, <1>6

\* Every region of the heap is lost or has one owner: no pointer is left to
\* what was given back, and nothing that a process was given outlives it.
THEOREM RegionsHaveOneOwner == Spec => []OneOwner
<1>1. ASSUME IInv PROVE OneOwner
  <2>1. Owners(held, lost, depth, proc)
    BY <1>1 DEF IInv
  <2>2. {r.at : r \in held} = lost \cup UNION {OwnedBy(s) : s \in Live}
    <3>1. {OwnedBy(s) : s \in Live} = {Own(proc[s]) : s \in 0 .. (depth - 1)}
      BY OwnIs DEF Live
    <3> QED BY <2>1, <3>1 DEF Owners, Ats
  <2>3. ASSUME NEW s \in Live
        PROVE  /\ OwnedBy(s) \cap lost = {}
               /\ \A t \in Live \ {s} : OwnedBy(s) \cap OwnedBy(t) = {}
               /\ Apart(proc[s])
    BY <2>1, OwnIs DEF Owners, Live
  <2>4. ASSUME NEW s \in Live
        PROVE  /\ AllocatedBy(s) \cap {Pointers(s)[i] : i \in 1 .. 4} = {}
               /\ \A i, j \in 1 .. 4 : i # j => Pointers(s)[i] # Pointers(s)[j]
               /\ \A i, j \in 1 .. MaxAllocations :
                     i # j /\ proc[s].allocations[i].address # Null =>
                         proc[s].allocations[i].address # proc[s].allocations[j].address
    BY <2>3, OwnIs DEF Apart
  <2> QED BY <2>2, <2>3, <2>4 DEF OneOwner
<1> QED BY <1>1, Invariance, PTL

\* What a process may write is its stack, its program or one of its
\* allocations, whatever was given back and taken again.
THEOREM ProcessesWriteTheirOwn == Spec => []WritesOwn
<1>1. ASSUME IInv PROVE WritesOwn
  <2> SUFFICES ASSUME NEW s \in Live, InFile(proc[s].program),
                      NEW v \in Pages, pages[s][v].rights = "write"
               PROVE  pages[s][v].frame \in UsableBy(s)
    BY DEF WritesOwn
  <2> DEFINE P == proc[s]
             d == pages[s]
             f == d[v].frame
             m == MapMemory(P.program, P.data, P.stack)
             usable == AllocatedBy(s) \cup {P.data, P.stack}
  <2>1. P \in ProcessType /\ Known(held, P) /\ InDirectory(d, P)
    BY <1>1, LiveIs DEF IInv
  <2>2. P.program \in Programs /\ P.data \in HeapPages /\ P.stack \in HeapPages
    BY <2>1 DEF ProcessType
  <2>3. ASSUME NEW r \in held, r.at \in usable, f \in Region(r.at, r.length)
        PROVE  f \in UsableBy(s)
    BY <2>3 DEF UsableBy, Blocks
  <2>4. AllocatedBy(s) = Addresses(P)
    BY OwnIs
  <2>5. NewDirectory(m, P.program, P.data, P.stack)
    BY <2>2, MapMemoryIs
  <2> SUFFICES f \in UsableBy(s)
    OBVIOUS
  <2> HIDE DEF P, d, f, m, usable
  <2>6. CASE v >= FirstPage
    <3>1. PICK i \in 1 .. MaxAllocations : P.allocations[i].address # Null /\ v \in Allocated(P, i)
      BY <2>1, <2>6 DEF InDirectory, d
    <3>2. f = v
      BY <2>1, <2>6 DEF InDirectory, d, f
    <3> DEFINE r == [at |-> P.allocations[i].address, length |-> PagesOf(P.allocations[i].size)]
    <3>3. r \in held /\ r.at \in usable
      BY <2>1, <2>4, <3>1 DEF Known, Addresses, usable
    <3>4. f \in Region(r.at, r.length)
      BY <3>1, <3>2 DEF Allocated
    <3> HIDE DEF r
    <3> QED BY <2>3, <3>3, <3>4
  <2>7. CASE v < FirstPage
    <3>1. d[v] = m[v] /\ m[v].rights = "write"
      BY <2>1, <2>7 DEF InDirectory, d, m
    <3>2. CASE v \in StackRange
      <4> DEFINE r == [at |-> P.stack, length |-> StackPages]
      <4>1. r \in held /\ r.at \in usable
        BY <2>1 DEF Known, usable
      <4>2. f = P.stack + (v - StackAt)
        BY <2>5, <3>1, <3>2 DEF NewDirectory, f
      <4>3. f \in Region(r.at, r.length)
        <5>1. P.stack \in Nat
          BY <2>2, NullIsNoPage
        <5> QED BY <3>2, <4>2, <5>1, Numbers, InRegion DEF StackRange
      <4> HIDE DEF r
      <4> QED BY <2>3, <4>1, <4>3
    <3>3. CASE v \notin StackRange
      <4>1. PICK i \in DOMAIN Segments[P.program] : v \in PagesIn(Segments[P.program][i])
        BY <2>5, <3>1, <3>3 DEF NewDirectory
      <4> DEFINE g == Segments[P.program][i]
                 r == [at |-> P.data, length |-> PagesOf(FileSize[P.program])]
                 o == g.offset \div PageSize
                 a == g.vaddr \div PageSize
                 n == PagesOf(g.offset + g.memsz)
                 size == PagesOf(FileSize[P.program])
      <4>2. r \in held /\ r.at \in usable
        BY <2>1 DEF Known, usable
      <4>3. ByHeader(m[v], g, P.data, v)
        BY <2>5, <4>1 DEF NewDirectory
      <4>4. f = P.data + o + (v - a)
        BY <3>1, <4>3 DEF ByHeader, f
      <4>5. a \in Nat /\ o \in Nat /\ n \in Nat /\ n >= o /\ v \in a .. (a + n - o - 1)
        BY <2>2, <4>1, HeaderIs
      <4>6. n <= size
        BY DEF InFile, P
      <4>7. size \in Nat
        BY <2>2, UserMemoryAssumption, PagesOfType
      <4> HIDE DEF g, o, a, n, size
      <4>8. f \in Region(P.data, size)
        <5>1. P.data \in Nat
          BY <2>2, NullIsNoPage
        <5>2. o + (v - a) \in 0 .. (size - 1)
          BY <4>5, <4>6, <4>7
        <5>3. f = P.data + (o + (v - a))
          BY <4>4, <4>5, <5>1
        <5> DEFINE k == o + (v - a)
        <5> HIDE DEF k
        <5> QED BY <4>7, <5>1, <5>2, <5>3 DEF k, Region
      <4>9. f \in Region(r.at, r.length)
        BY <4>8 DEF size
      <4> HIDE DEF r
      <4> QED BY <2>3, <4>2, <4>9
    <3> QED BY <3>2, <3>3
  <2> QED BY <2>6, <2>7, Numbers DEF Pages
<1> QED BY <1>1, Invariance, PTL

\* A process finds its stack, its allocations and its program where it was
\* told they are.
THEOREM MemoryStaysInPlace == Spec => []MemoryInPlace
<1>1. ASSUME IInv PROVE MemoryInPlace
  <2> SUFFICES ASSUME NEW s \in Live
               PROVE  /\ \A k \in 0 .. (StackPages - 1) :
                            Leads(s, StackAt + k, proc[s].stack + k, "write")
                      /\ \A i \in 1 .. MaxAllocations : LET a == proc[s].allocations[i] IN
                            a.address # Null => \A k \in 0 .. (a.size - 1) :
                                LET v == a.address + k \div PageSize IN Leads(s, v, v, "write")
                      /\ \A i \in DOMAIN Segments[proc[s].program] :
                            LET g == Segments[proc[s].program][i] IN
                            \A k \in 0 .. (g.memsz - 1) :
                                pages[s][(g.vaddr + k) \div PageSize].frame =
                                    proc[s].data + (g.offset + k) \div PageSize
    BY DEF MemoryInPlace
  <2> DEFINE P == proc[s]
             d == pages[s]
             m == MapMemory(P.program, P.data, P.stack)
  <2>1. P \in ProcessType /\ Known(held, P) /\ InDirectory(d, P) /\ d \in DirectoryType
    BY <1>1, LiveIs DEF IInv
  <2>2. P.program \in Programs /\ P.data \in HeapPages /\ P.stack \in HeapPages
    BY <2>1 DEF ProcessType
  <2>3. NewDirectory(m, P.program, P.data, P.stack)
    BY <2>2, MapMemoryIs
  <2>4. ASSUME NEW v \in Pages, NEW frame, NEW rights,
               d[v].frame = frame, d[v].rights = rights
        PROVE  Leads(s, v, frame, rights)
    BY <2>1, <2>4 DEF Leads, DirectoryType
  <2> HIDE DEF m
  <2>5. ASSUME NEW v \in Pages, v < FirstPage, v >= LowPages
        PROVE  d[v] = m[v]
    BY <2>1, <2>5, Numbers DEF InDirectory, m, Pages
  <2>6. ASSUME NEW k \in 0 .. (StackPages - 1)
        PROVE  Leads(s, StackAt + k, P.stack + k, "write")
    <3> DEFINE v == StackAt + k
    <3>1. v \in StackRange /\ v < FirstPage /\ v >= LowPages /\ v - StackAt = k
      BY Numbers DEF StackRange
    <3>2. v \in Pages /\ m[v].frame = P.stack + (v - StackAt) /\ m[v].rights = "write"
      BY <2>3, <3>1 DEF NewDirectory
    <3> HIDE DEF v, P, d
    <3>3. d[v].frame = P.stack + k /\ d[v].rights = "write"
      BY <2>5, <3>1, <3>2
    <3> QED BY <2>4, <3>2, <3>3 DEF v
  <2>7. ASSUME NEW i \in 1 .. MaxAllocations, P.allocations[i].address # Null,
               NEW k \in 0 .. (P.allocations[i].size - 1),
               NEW v, v = P.allocations[i].address + k \div PageSize
        PROVE  Leads(s, v, v, "write")
    <3>1. P.allocations[i] \in AllocationType
      BY <2>1 DEF ProcessType
    <3>2. P.allocations[i].address \in Nat /\ P.allocations[i].size \in Nat
      BY <3>1, EntryNumbers
    <3>3. /\ k \div PageSize \in 0 .. (PagesOf(P.allocations[i].size) - 1)
          /\ PagesOf(P.allocations[i].size) \in Nat
      BY <3>2, ByteInPages
    <3>4. v \in Allocated(P, i)
      <4> DEFINE address == P.allocations[i].address
                 n == PagesOf(P.allocations[i].size)
                 q == k \div PageSize
      <4>1. address \in Nat /\ n \in Nat /\ q \in 0 .. (n - 1) /\ v = address + q
        BY <2>7, <3>2, <3>3
      <4> HIDE DEF address, n, q
      <4>2. v \in Region(address, n)
        BY <4>1 DEF Region
      <4> QED BY <4>2 DEF Allocated, address, n
    <3>5. d[v].frame = v /\ d[v].rights = "write"
      BY <2>1, <2>7, <3>4 DEF InDirectory
    <3>6. v \in Pages
      <4> DEFINE r == [at |-> P.allocations[i].address, length |-> PagesOf(P.allocations[i].size)]
      <4>1. r \in held
        BY <2>1, <2>7 DEF Known
      <4>2. v \in Region(r.at, r.length)
        BY <3>4 DEF Allocated
      <4> HIDE DEF r
      <4> QED BY <1>1, <4>1, <4>2, NullIsNoPage DEF IInv, Sound
    <3> QED BY <2>4, <3>5, <3>6
  <2>8. ASSUME NEW i \in DOMAIN Segments[P.program], NEW g, g = Segments[P.program][i],
               NEW k \in 0 .. (g.memsz - 1)
        PROVE  d[(g.vaddr + k) \div PageSize].frame = P.data + (g.offset + k) \div PageSize
    <3> DEFINE v == (g.vaddr + k) \div PageSize
    <3>1. /\ v \in PagesIn(g) /\ v \in LowPages .. (FirstPage - 1)
          /\ g.offset \div PageSize + (v - g.vaddr \div PageSize) = (g.offset + k) \div PageSize
          /\ g.offset \div PageSize \in Nat /\ v - g.vaddr \div PageSize \in Nat
      BY <2>2, <2>8, SegmentByte
    <3> HIDE DEF v
    <3>2. v \in Pages /\ ByHeader(m[v], g, P.data, v)
      BY <2>3, <2>8, <3>1 DEF NewDirectory
    <3>3. d[v] = m[v]
      BY <2>5, <3>1, <3>2, Numbers
    <3>4. d[v].frame = P.data + g.offset \div PageSize + (v - g.vaddr \div PageSize)
      BY <3>2, <3>3 DEF ByHeader
    <3>5. P.data \in Nat
      BY <2>2, NullIsNoPage
    <3> HIDE DEF P, d
    <3>6. d[v].frame = P.data + (g.offset \div PageSize + (v - g.vaddr \div PageSize))
      BY <3>1, <3>4, <3>5
    <3> QED BY <3>1, <3>6 DEF v
  <2> QED BY <2>6, <2>7, <2>8
<1> QED BY <1>1, Invariance, PTL
=============================================================================
