------------------------- MODULE CommandLineProofs -------------------------
(***************************************************************************)
(* Proofs about Directories and CommandLine, for every volume, every set   *)
(* of characters, every size of argv and every limit on the open files.    *)
(*                                                                         *)
(* The operators come first: numbers in their order, the names of entries, *)
(* the parts of a path, the words of a line.  The words are a recursive    *)
(* function: Solution solves its equation without recursion, and there is  *)
(* no other solution, since a word leads only to later ones.               *)
(*                                                                         *)
(* CmdInv is inductive.  It says of the search in progress what was asked  *)
(* for and what was found, of the walk that every part of the path led on  *)
(* to an entry of the directory before it, of memory which directory each  *)
(* open file and the search hold, and of every program in the chain that   *)
(* it was opened by the first word of its line.                            *)
(***************************************************************************)
EXTENDS CommandLine, FiniteSetTheorems, TLAPS

----------------------------------------------------------------------------
(* Numbers in their order.                                                 *)

\* A set of numbers has a least one.
LEMMA SomeLeast ==
    ASSUME NEW S \in SUBSET Nat, S # {}
    PROVE  \E x \in S : \A y \in S : x <= y
<1> DEFINE R == OpToRel(<, Nat)
<1>1. IsWellFoundedOn(R, Nat)
  BY NatLessThanWellFounded
<1>2. \A x, y \in Nat : <<y, x>> \in R <=> y < x
  BY DEF OpToRel
<1> HIDE DEF R
<1>3. PICK x \in S : \A y \in S : ~ (<<y, x>> \in R)
  BY <1>1, WFMin
<1>4. \A y \in S : y \in Nat
  OBVIOUS
<1>5. ASSUME NEW y \in S PROVE x <= y
  <2>1. x \in Nat /\ y \in Nat
    BY <1>4
  <2>2. ~ (y < x)
    BY <1>2, <1>3, <2>1
  <2> QED BY <2>1, <2>2
<1> QED BY <1>5

LEMMA LeastIs ==
    ASSUME NEW S \in SUBSET Nat, S # {}
    PROVE  Least(S) \in S /\ \A y \in S : Least(S) <= y
BY SomeLeast DEF Least

LEMMA LeastIsOnly ==
    ASSUME NEW S \in SUBSET Nat, NEW x \in S, \A y \in S : x <= y
    PROVE  Least(S) = x
<1>1. Least(S) \in S /\ \A y \in S : Least(S) <= y
  BY LeastIs
<1>2. x \in Nat /\ Least(S) \in Nat /\ x <= Least(S) /\ Least(S) <= x
  BY <1>1
<1> QED BY <1>2

\* Of a set of numbers, how many are below one.
Below(S, k) == {j \in S : j < k}
Rank(S, k) == Cardinality(Below(S, k))

LEMMA RankIs ==
    ASSUME NEW S \in SUBSET Nat, IsFiniteSet(S)
    PROVE  /\ Cardinality(S) \in Nat
           /\ \A k : Rank(S, k) \in 0 .. Cardinality(S)
           /\ \A k \in S : Rank(S, k) \in 0 .. (Cardinality(S) - 1)
           /\ \A k, l \in Nat : k <= l => Rank(S, k) <= Rank(S, l)
           /\ \A k \in S, l \in Nat : k < l => Rank(S, k) < Rank(S, l)
<1>1. Cardinality(S) \in Nat /\ \A j \in S : j \in Nat
  BY FS_CardinalityType
<1>2. ASSUME NEW k PROVE /\ IsFiniteSet(Below(S, k)) /\ Rank(S, k) \in Nat
                         /\ Rank(S, k) <= Cardinality(S)
                         /\ Rank(S, k) = Cardinality(S) => Below(S, k) = S
  <2>1. Below(S, k) \in SUBSET S
    BY DEF Below
  <2> QED BY <2>1, FS_Subset, FS_CardinalityType DEF Rank
<1>3. ASSUME NEW k \in S PROVE Rank(S, k) # Cardinality(S)
  <2>1. k \in Nat /\ k \notin Below(S, k)
    BY <1>1 DEF Below
  <2> QED BY <1>2, <2>1
<1>4. ASSUME NEW k \in Nat, NEW l \in Nat, k <= l PROVE Rank(S, k) <= Rank(S, l)
  <2>1. ASSUME NEW j \in S, j < k PROVE j < l
    BY <1>1, <1>4, <2>1
  <2>2. Below(S, k) \in SUBSET Below(S, l)
    BY <2>1 DEF Below
  <2> QED BY <1>2, <2>2, FS_Subset DEF Rank
<1>5. ASSUME NEW k \in S, NEW l \in Nat, k < l PROVE Rank(S, k) < Rank(S, l)
  <2>1. Below(S, k) \in SUBSET Below(S, l) /\ Below(S, k) # Below(S, l)
    <3>1. ASSUME NEW j \in S, j < k PROVE j < l
      BY <1>1, <1>5, <3>1
    <3>2. k \in Nat /\ ~ (k < k)
      BY <1>1
    <3>3. k \in Below(S, l) /\ k \notin Below(S, k) /\ Below(S, k) \in SUBSET Below(S, l)
      BY <1>5, <3>1, <3>2 DEF Below
    <3> QED BY <3>3
  <2>2. Rank(S, k) <= Rank(S, l) /\ Rank(S, k) # Rank(S, l)
    BY <1>2, <2>1, FS_Subset DEF Rank
  <2> QED BY <1>2, <2>2
<1> QED BY <1>1, <1>2, <1>3, <1>4, <1>5

\* Every rank is that of one number.
LEMMA RankOf ==
    ASSUME NEW S \in SUBSET Nat, IsFiniteSet(S), NEW n \in 0 .. (Cardinality(S) - 1)
    PROVE  \E k \in S : Rank(S, k) = n
<1> DEFINE T == 0 .. (Cardinality(S) - 1)
           f == [k \in S |-> Rank(S, k)]
<1>1. Cardinality(S) \in Nat
  BY RankIs
<1>2. f \in [S -> T]
  BY RankIs
<1>3. \A k, l \in S : f[k] = f[l] => k = l
  BY RankIs
<1>4. f \in Injection(S, T)
  BY <1>2, <1>3 DEF Injection, IsInjective
<1>5. IsFiniteSet(T) /\ Cardinality(T) = Cardinality(S)
  <2>1. 0 \in Int /\ Cardinality(S) - 1 \in Int
    BY <1>1
  <2> QED BY <1>1, <2>1, FS_Interval
<1>6. f \in Surjection(S, T)
  BY <1>4, <1>5, FS_Injection
<1>7. \E k \in S : f[k] = n
  BY <1>6 DEF Surjection
<1> QED BY <1>7

\* InOrder lists a set, each number once and after those below it.
LEMMA InOrderIs ==
    ASSUME NEW S \in SUBSET Nat, IsFiniteSet(S)
    PROVE  /\ InOrder(S) \in Seq(S) /\ Len(InOrder(S)) = Cardinality(S)
           /\ \A n \in 1 .. Cardinality(S) : /\ InOrder(S)[n] \in S
                                             /\ Rank(S, InOrder(S)[n]) = n - 1
           /\ \A k \in S : /\ Rank(S, k) + 1 \in 1 .. Cardinality(S)
                           /\ InOrder(S)[Rank(S, k) + 1] = k
           /\ \A m, n \in 1 .. Cardinality(S) : m < n <=> InOrder(S)[m] < InOrder(S)[n]
<1> DEFINE f == InOrder(S)
<1>1. Cardinality(S) \in Nat /\ \A k \in S : k \in Nat
  BY RankIs
<1>2. f = [n \in 1 .. Cardinality(S) |-> CHOOSE k \in S : Rank(S, k) = n - 1]
  BY DEF InOrder, Rank, Below
<1>3. ASSUME NEW n \in 1 .. Cardinality(S)
      PROVE  f[n] \in S /\ Rank(S, f[n]) = n - 1
  <2>1. n - 1 \in 0 .. (Cardinality(S) - 1)
    BY <1>1
  <2>2. \E k \in S : Rank(S, k) = n - 1
    BY <2>1, RankOf
  <2>3. f[n] = CHOOSE k \in S : Rank(S, k) = n - 1
    BY <1>2
  <2> QED BY <2>2, <2>3
<1> HIDE DEF f
<1>4. f \in [1 .. Cardinality(S) -> S]
  BY <1>2, <1>3
<1>5. f \in Seq(S) /\ Len(f) = Cardinality(S)
  BY <1>1, <1>4
<1>6. ASSUME NEW k \in S
      PROVE  Rank(S, k) + 1 \in 1 .. Cardinality(S) /\ f[Rank(S, k) + 1] = k
  <2>1. Rank(S, k) + 1 \in 1 .. Cardinality(S)
    BY <1>1, RankIs
  <2>2. f[Rank(S, k) + 1] \in S /\ Rank(S, f[Rank(S, k) + 1]) = Rank(S, k)
    BY <1>3, <2>1, RankIs
  <2> DEFINE l == f[Rank(S, k) + 1]
  <2> HIDE DEF l
  <2>3. l \in S /\ Rank(S, l) = Rank(S, k)
    BY <2>2 DEF l
  <2>4. k \in Nat /\ l \in Nat /\ Rank(S, k) \in Nat
    BY <1>1, <2>3, RankIs
  <2>5. ~ (l < k) /\ ~ (k < l)
    BY <2>3, <2>4, RankIs
  <2>6. l = k
    BY <2>4, <2>5
  <2> QED BY <2>1, <2>6 DEF l
<1>7. ASSUME NEW m \in 1 .. Cardinality(S), NEW n \in 1 .. Cardinality(S)
      PROVE  m < n <=> f[m] < f[n]
  <2>1. /\ f[m] \in S /\ f[n] \in S
        /\ Rank(S, f[m]) = m - 1 /\ Rank(S, f[n]) = n - 1
    BY <1>3
  <2> DEFINE a == f[m]
             b == f[n]
  <2> HIDE DEF a, b
  <2>2. /\ a \in S /\ b \in S /\ a \in Nat /\ b \in Nat /\ m \in Int /\ n \in Int
        /\ Rank(S, a) = m - 1 /\ Rank(S, b) = n - 1
    <3>1. a \in S /\ b \in S /\ Rank(S, a) = m - 1 /\ Rank(S, b) = n - 1
      BY <2>1 DEF a, b
    <3>2. m \in Int /\ n \in Int
      OBVIOUS
    <3> QED BY <1>1, <3>1, <3>2
  <2>3. a < b => m - 1 < n - 1
    BY <2>2, RankIs
  <2>4. b <= a => n - 1 <= m - 1
    BY <2>2, RankIs
  <2>5. m < n <=> a < b
    BY <2>2, <2>3, <2>4
  <2> QED BY <2>5 DEF a, b
<1> QED BY <1>3, <1>5, <1>6, <1>7 DEF f

----------------------------------------------------------------------------
(* Characters.                                                             *)

Stops == {Space, Nul}

\* Where to_proper_string stops: at the first space or 0.
LEMMA ProperIs ==
    ASSUME NEW s \in Seq(Chars), NEW q \in 1 .. Len(s), s[q] \in Stops
    PROVE  \E p \in 1 .. q : /\ s[p] \in Stops
                             /\ \A k \in 1 .. (p - 1) : s[k] \notin Stops
                             /\ ProperString(s) = SubSeq(s, 1, p - 1)
<1> DEFINE at == {k \in 1 .. Len(s) : s[k] \in {Space, Nul}}
<1>1. at \in SUBSET Nat /\ q \in at
  BY DEF Stops
<1>2. /\ Least(at) \in at /\ Least(at) <= q
      /\ \A k \in at : Least(at) <= k
  BY <1>1, LeastIs
<1>3. ProperString(s) = SubSeq(s, 1, Least(at) - 1)
  <2>1. SelectInSeq(s, LAMBDA c : c \in {Space, Nul}) = IF at # {} THEN Min(at) ELSE 0
    BY DEF SelectInSeq
  <2>2. Min(at) = Least(at)
    BY DEF Min, Least
  <2>3. SelectInSeq(s, LAMBDA c : c \in {Space, Nul}) = Least(at)
    BY <1>1, <2>1, <2>2
  <2> QED BY <2>3 DEF ProperString
<1> DEFINE p == Least(at)
<1>4. /\ p \in 1 .. q /\ s[p] \in Stops
      /\ \A k \in 1 .. (p - 1) : s[k] \notin Stops
  <2>1. p \in 1 .. q /\ p \in 1 .. Len(s) /\ s[p] \in {Space, Nul}
    BY <1>2
  <2>2. ASSUME NEW k \in 1 .. (p - 1) PROVE s[k] \notin {Space, Nul}
    <3> HIDE DEF p
    <3>1. k \in 1 .. Len(s) /\ ~ (p <= k)
      BY <2>1
    <3> QED BY <1>2, <3>1 DEF p
  <2> QED BY <2>1, <2>2 DEF Stops
<1> HIDE DEF p
<1> QED BY <1>3, <1>4 DEF p

\* A prefix of a sequence, and one that is longer by some more.
LEMMA SubIs ==
    ASSUME NEW T, NEW s \in Seq(T), NEW m \in Nat, NEW n \in Nat, m <= n + 1, n <= Len(s),
           m >= 1
    PROVE  /\ SubSeq(s, m, n) \in Seq(T) /\ Len(SubSeq(s, m, n)) = n - m + 1
           /\ \A k \in 1 .. (n - m + 1) : SubSeq(s, m, n)[k] = s[m + k - 1]
<1>1. ASSUME NEW k \in m .. n PROVE s[k] \in T
  <2>1. k \in 1 .. Len(s)
    OBVIOUS
  <2> QED BY <2>1
<1>2. SubSeq(s, m, n) = [k \in 1 .. (n - m + 1) |-> s[m + k - 1]]
  OBVIOUS
<1> DEFINE u == SubSeq(s, m, n)
<1>3. \A k \in 1 .. (n - m + 1) : m + k - 1 \in m .. n /\ u[k] = s[m + k - 1]
  BY <1>2
<1>4. u \in [1 .. (n - m + 1) -> T]
  BY <1>1, <1>2, <1>3
<1> HIDE DEF u
<1>5. u \in Seq(T) /\ Len(u) = n - m + 1
  BY <1>4
<1> QED BY <1>3, <1>5 DEF u

LEMMA ConcatIs ==
    ASSUME NEW T, NEW s \in Seq(T), NEW t \in Seq(T)
    PROVE  /\ s \o t \in Seq(T) /\ Len(s \o t) = Len(s) + Len(t)
           /\ \A k \in 1 .. Len(s) : (s \o t)[k] = s[k]
           /\ \A k \in 1 .. Len(t) : (s \o t)[Len(s) + k] = t[k]
OBVIOUS

LEMMA JoinIs ==
    ASSUME NEW T, NEW s \in Seq(T), NEW t \in Seq(T), NEW m, NEW n, Len(s) = m, Len(t) = n
    PROVE  /\ s \o t \in Seq(T) /\ Len(s \o t) = m + n
           /\ \A k \in 1 .. m : (s \o t)[k] = s[k]
           /\ \A k \in 1 .. n : (s \o t)[m + k] = t[k]
<1> DEFINE u == s \o t
<1>1. /\ u \in Seq(T) /\ Len(u) = Len(s) + Len(t)
      /\ \A k \in 1 .. Len(s) : u[k] = s[k]
      /\ \A k \in 1 .. Len(t) : u[Len(s) + k] = t[k]
  OBVIOUS
<1> HIDE DEF u
<1>2. /\ u \in Seq(T) /\ Len(u) = m + n
      /\ \A k \in 1 .. m : u[k] = s[k]
      /\ \A k \in 1 .. n : u[m + k] = t[k]
  BY <1>1
<1> QED BY <1>2 DEF u

\* Sequences that agree in length and places are the same.
LEMMA SameSeq ==
    ASSUME NEW T, NEW s \in Seq(T), NEW t \in Seq(T), Len(s) = Len(t),
           \A k \in 1 .. Len(s) : s[k] = t[k]
    PROVE  s = t
<1>1. s = [k \in 1 .. Len(s) |-> s[k]] /\ t = [k \in 1 .. Len(s) |-> t[k]]
  OBVIOUS
<1> DEFINE n == Len(s)
<1>2. \A k \in 1 .. n : s[k] = t[k]
  OBVIOUS
<1>3. s = [k \in 1 .. n |-> s[k]] /\ t = [k \in 1 .. n |-> t[k]]
  BY <1>1
<1> HIDE DEF n
<1> QED BY <1>2, <1>3

LEMMA PrefixOfConcat ==
    ASSUME NEW T, NEW s \in Seq(T), NEW t \in Seq(T)
    PROVE  IsPrefix(s, s \o t)
<1> DEFINE u == s \o t
<1>1. /\ u \in Seq(T) /\ Len(u) = Len(s) + Len(t) /\ Len(s) \in Nat /\ Len(t) \in Nat
      /\ \A k \in 1 .. Len(s) : u[k] = s[k]
  BY ConcatIs
<1> HIDE DEF u
<1>2. /\ SubSeq(u, 1, Len(s)) \in Seq(T) /\ Len(SubSeq(u, 1, Len(s))) = Len(s)
      /\ \A k \in 1 .. Len(s) : SubSeq(u, 1, Len(s))[k] = u[k]
  <2>1. SubSeq(u, 1, Len(s)) = [k \in 1 .. Len(s) |-> u[k]]
    BY <1>1
  <2>2. \A k \in 1 .. Len(s) : u[k] \in T
    BY <1>1
  <2> QED BY <1>1, <2>1, <2>2
<1>3. SubSeq(s, 1, Len(s)) = s
  OBVIOUS
<1>4. SubSeq(u, 1, Len(s)) = s
  BY <1>1, <1>2, SameSeq
<1>5. Len(s) <= Len(u)
  BY <1>1
<1> QED BY <1>3, <1>4, <1>5 DEF IsPrefix, u

----------------------------------------------------------------------------
(* The names of directory entries.                                         *)

LEMMA PaddedIs ==
    ASSUME NEW s \in Seq(Chars), NEW w \in Nat, Len(s) <= w
    PROVE  /\ Padded(s, w) \in Seq(Chars) /\ Len(Padded(s, w)) = w
           /\ \A k \in 1 .. Len(s) : Padded(s, w)[k] = s[k]
           /\ \A k \in (Len(s) + 1) .. w : Padded(s, w)[k] = Space
<1> DEFINE n == w - Len(s)
           pad == [i \in 1 .. n |-> Space]
<1>1. n \in Nat /\ Len(s) \in Nat /\ Len(s) + n = w
  OBVIOUS
<1>s. Space \in Chars
  BY TextAssumption
<1> HIDE DEF n
<1>2. pad \in Seq(Chars) /\ Len(pad) = n /\ \A k \in 1 .. n : pad[k] = Space
  <2>1. pad \in [1 .. n -> Chars] /\ \A k \in 1 .. n : pad[k] = Space
    BY <1>s
  <2> HIDE DEF pad
  <2>2. pad \in Seq(Chars) /\ Len(pad) = n
    BY <1>1, <2>1
  <2> QED BY <2>1, <2>2
<1>3. Padded(s, w) = s \o pad
  BY DEF Padded, n
<1> HIDE DEF pad
<1>4. /\ s \o pad \in Seq(Chars) /\ Len(s \o pad) = w
      /\ \A k \in 1 .. Len(s) : (s \o pad)[k] = s[k]
      /\ \A k \in 1 .. n : (s \o pad)[Len(s) + k] = pad[k]
  BY <1>1, <1>2, ConcatIs
<1>5. ASSUME NEW k \in (Len(s) + 1) .. w PROVE (s \o pad)[k] = Space
  <2>1. k - Len(s) \in 1 .. n /\ Len(s) + (k - Len(s)) = k
    BY <1>1
  <2>2. (s \o pad)[Len(s) + (k - Len(s))] = Space
    BY <1>2, <1>4, <2>1
  <2> QED BY <2>1, <2>2
<1> QED BY <1>3, <1>4, <1>5

\* The byte of attributes of an entry.
Attribute(e) == AttributeByte[e.kind]

LEMMA AttributeIs ==
    ASSUME NEW e, EntryOK(e)
    PROVE  /\ Attribute(e) \in Chars /\ Attribute(e) \notin {Slash, Dot, Nul}
           /\ Attribute(e) = Space <=> e.kind = "archive"
<1>1. e.kind \in {"archive", "readonly", "directory"}
  BY DEF EntryOK, Kinds
<1>2. Attribute(e) \in Chars
  <2>1. Attribute(e) \in {AttributeByte[k] : k \in Kinds}
    BY <1>1 DEF Attribute, Kinds
  <2> QED BY <2>1, TextAssumption
<1>3. CASE e.kind = "archive"
  <2>1. Attribute(e) = Space
    BY <1>3 DEF Attribute, AttributeByte
  <2> QED BY <1>2, <1>3, <2>1 DEF Space, Slash, Dot, Nul
<1>4. CASE e.kind = "readonly"
  <2>1. Attribute(e) = "!"
    BY <1>4 DEF Attribute, AttributeByte
  <2> QED BY <1>2, <1>4, <2>1 DEF Space, Slash, Dot, Nul
<1>5. CASE e.kind = "directory"
  <2>1. Attribute(e) = "^"
    BY <1>5 DEF Attribute, AttributeByte
  <2> QED BY <1>2, <1>5, <2>1 DEF Space, Slash, Dot, Nul
<1> QED BY <1>1, <1>3, <1>4, <1>5

\* The places of an entry in memory: its name, its extension, the attributes
\* and a 0.
Size == NameWidth + ExtWidth + 2

LEMMA BytesAre ==
    ASSUME NEW e, EntryOK(e)
    PROVE  /\ Bytes(e) \in Seq(Chars) /\ Len(Bytes(e)) = Size
           /\ \A k \in 1 .. Len(e.name) : Bytes(e)[k] = e.name[k]
           /\ \A k \in (Len(e.name) + 1) .. NameWidth : Bytes(e)[k] = Space
           /\ \A k \in 1 .. Len(e.ext) : Bytes(e)[NameWidth + k] = e.ext[k]
           /\ \A k \in (Len(e.ext) + 1) .. ExtWidth : Bytes(e)[NameWidth + k] = Space
           /\ Bytes(e)[NameWidth + ExtWidth + 1] = Attribute(e)
           /\ Bytes(e)[NameWidth + ExtWidth + 2] = Nul
<1> DEFINE a == Padded(e.name, NameWidth)
           b == Padded(e.ext, ExtWidth)
           c == <<Attribute(e), Nul>>
<1>1. /\ e.name \in Seq(Chars) /\ Len(e.name) <= NameWidth /\ NameWidth \in Nat
      /\ e.ext \in Seq(Chars) /\ Len(e.ext) <= ExtWidth /\ ExtWidth \in Nat
      /\ Len(e.name) \in Nat /\ Len(e.ext) \in Nat
  BY VolumeAssumption DEF EntryOK
<1>2. /\ a \in Seq(Chars) /\ Len(a) = NameWidth
      /\ \A k \in 1 .. Len(e.name) : a[k] = e.name[k]
      /\ \A k \in (Len(e.name) + 1) .. NameWidth : a[k] = Space
  BY <1>1, PaddedIs
<1>3. /\ b \in Seq(Chars) /\ Len(b) = ExtWidth
      /\ \A k \in 1 .. Len(e.ext) : b[k] = e.ext[k]
      /\ \A k \in (Len(e.ext) + 1) .. ExtWidth : b[k] = Space
  BY <1>1, PaddedIs
<1>4. c \in Seq(Chars) /\ Len(c) = 2 /\ c[1] = Attribute(e) /\ c[2] = Nul
  <2>1. Attribute(e) \in Chars /\ Nul \in Chars
    BY AttributeIs, TextAssumption
  <2> QED BY <2>1
<1>5. Bytes(e) = (a \o b) \o c
  BY DEF Bytes, Attribute
<1> HIDE DEF a, b, c
<1>6. /\ a \o b \in Seq(Chars) /\ Len(a \o b) = NameWidth + ExtWidth
      /\ \A k \in 1 .. NameWidth : (a \o b)[k] = a[k]
      /\ \A k \in 1 .. ExtWidth : (a \o b)[NameWidth + k] = b[k]
  BY <1>2, <1>3, JoinIs
<1> DEFINE ab == a \o b
           abc == ab \o c
<1>7. /\ ab \in Seq(Chars) /\ Len(ab) = NameWidth + ExtWidth
      /\ \A k \in 1 .. NameWidth : ab[k] = a[k]
      /\ \A k \in 1 .. ExtWidth : ab[NameWidth + k] = b[k]
  BY <1>6
<1> HIDE DEF ab
<1> DEFINE n == NameWidth + ExtWidth
<1> HIDE DEF n
<1>8. /\ abc \in Seq(Chars) /\ Len(abc) = n + 2
      /\ \A k \in 1 .. n : abc[k] = ab[k]
      /\ \A k \in 1 .. 2 : abc[n + k] = c[k]
  <2>1. /\ ab \in Seq(Chars) /\ Len(ab) = n
        /\ c \in Seq(Chars)
    BY <1>4, <1>7 DEF n
  <2> DEFINE two == Len(c)
  <2>2. two = 2
    BY <1>4
  <2> HIDE DEF two, abc
  <2>3. /\ ab \o c \in Seq(Chars) /\ Len(ab \o c) = n + two
        /\ \A k \in 1 .. n : (ab \o c)[k] = ab[k]
        /\ \A k \in 1 .. two : (ab \o c)[n + k] = c[k]
    BY <2>1, JoinIs DEF two
  <2>4. /\ abc \in Seq(Chars) /\ Len(abc) = n + two
        /\ \A k \in 1 .. n : abc[k] = ab[k]
        /\ \A k \in 1 .. two : abc[n + k] = c[k]
    BY <2>3 DEF abc
  <2> QED BY <2>2, <2>4
<1> HIDE DEF abc
<1>9. Bytes(e) = abc
  BY <1>5 DEF abc, ab
<1>10. /\ \A k \in 1 .. NameWidth : abc[k] = a[k]
       /\ \A k \in 1 .. ExtWidth : abc[NameWidth + k] = b[k]
  <2>1. ASSUME NEW k \in 1 .. NameWidth PROVE abc[k] = a[k]
    <3>1. k \in 1 .. (NameWidth + ExtWidth)
      BY <1>1
    <3> QED BY <1>7, <1>8, <3>1 DEF n
  <2>2. ASSUME NEW k \in 1 .. ExtWidth PROVE abc[NameWidth + k] = b[k]
    <3>1. NameWidth + k \in 1 .. (NameWidth + ExtWidth)
      BY <1>1
    <3> QED BY <1>7, <1>8, <3>1 DEF n
  <2> QED BY <2>1, <2>2
<1>11. abc[NameWidth + ExtWidth + 1] = Attribute(e) /\ abc[NameWidth + ExtWidth + 2] = Nul
  BY <1>4, <1>8 DEF n
<1>12. /\ \A k \in 1 .. Len(e.name) : abc[k] = e.name[k]
       /\ \A k \in (Len(e.name) + 1) .. NameWidth : abc[k] = Space
  BY <1>1, <1>2, <1>10
<1>13. /\ \A k \in 1 .. Len(e.ext) : abc[NameWidth + k] = e.ext[k]
       /\ \A k \in (Len(e.ext) + 1) .. ExtWidth : abc[NameWidth + k] = Space
  <2> DEFINE x == e.ext
             p == Len(x)
  <2>1. /\ \A k \in 1 .. p : b[k] = x[k]
        /\ \A k \in (p + 1) .. ExtWidth : b[k] = Space
        /\ p \in Nat /\ p <= ExtWidth /\ ExtWidth \in Nat
    BY <1>1, <1>3
  <2> HIDE DEF x, p, a, b
  <2>2. /\ \A k \in 1 .. p : k \in 1 .. ExtWidth
        /\ \A k \in (p + 1) .. ExtWidth : k \in 1 .. ExtWidth
    BY <2>1
  <2>3. /\ \A k \in 1 .. p : abc[NameWidth + k] = x[k]
        /\ \A k \in (p + 1) .. ExtWidth : abc[NameWidth + k] = Space
    BY <1>10, <2>1, <2>2
  <2> QED BY <2>3 DEF x, p
<1> QED BY <1>8, <1>9, <1>11, <1>12, <1>13 DEF Size, n

\* The characters of an entry's name and extension.
LEMMA EntryChars ==
    ASSUME NEW e, EntryOK(e)
    PROVE  /\ e.name \in Seq(Chars) /\ Len(e.name) \in 1 .. NameWidth
           /\ e.ext \in Seq(Chars) /\ Len(e.ext) \in 0 .. ExtWidth
           /\ \A k \in 1 .. Len(e.name) : e.name[k] \notin Stops \cup {Slash}
           /\ \A k \in 1 .. Len(e.ext) : e.ext[k] \notin Stops \cup {Slash}
           /\ e.ext # << >> =>
                /\ \A k \in 1 .. Len(e.name) : e.name[k] # Dot
                /\ \A k \in 1 .. Len(e.ext) : e.ext[k] # Dot
           /\ (\E k \in 1 .. Len(e.name) : e.name[k] = Dot) => e.name[1] = Dot
<1>1. /\ e.name \in Seq(Chars) /\ e.name # << >> /\ Len(e.name) <= NameWidth
      /\ e.ext \in Seq(Chars) /\ Len(e.ext) <= ExtWidth
      /\ NameWidth \in Nat /\ ExtWidth \in Nat
  BY VolumeAssumption DEF EntryOK
<1>2. Len(e.name) \in 1 .. NameWidth /\ Len(e.ext) \in 0 .. ExtWidth
  BY <1>1
<1>3. /\ \A k \in 1 .. Len(e.name) : e.name[k] \in ToSet(e.name)
      /\ \A k \in 1 .. Len(e.ext) : e.ext[k] \in ToSet(e.ext)
  BY <1>1 DEF ToSet
<1>4. /\ \A c \in ToSet(e.name) \cup ToSet(e.ext) : c \notin {Space, Nul, Slash}
      /\ Dot \in ToSet(e.name) \cup ToSet(e.ext) =>
           e.name \in {<<Dot>>, <<Dot, Dot>>} /\ e.ext = << >>
  BY DEF EntryOK
<1>5. e.name \in {<<Dot>>, <<Dot, Dot>>} => e.name[1] = Dot
  OBVIOUS
<1> QED BY <1>1, <1>2, <1>3, <1>4, <1>5 DEF Stops

\* What to_proper_string takes from a field with m characters and a stop after.
LEMMA StopsAfter ==
    ASSUME NEW s \in Seq(Chars), NEW q \in 1 .. Len(s), s[q] \in Stops,
           NEW m \in 0 .. (q - 1), \A k \in 1 .. m : s[k] \notin Stops
    PROVE  /\ ProperString(s) \in Seq(Chars) /\ Len(ProperString(s)) \in m .. (q - 1)
           /\ \A k \in 1 .. Len(ProperString(s)) : /\ ProperString(s)[k] = s[k]
                                                   /\ s[k] \notin Stops
<1>1. PICK p \in 1 .. q : /\ s[p] \in Stops
                          /\ \A k \in 1 .. (p - 1) : s[k] \notin Stops
                          /\ ProperString(s) = SubSeq(s, 1, p - 1)
  BY ProperIs
<1>2. Len(s) \in Nat /\ q \in Nat /\ m \in Nat /\ p \in Nat /\ 1 <= p /\ p <= q /\ q <= Len(s)
  OBVIOUS
<1>3. p - 1 \in m .. (q - 1)
  <2>1. ~ (p <= m)
    <3>1. p <= m => p \in 1 .. m
      BY <1>2
    <3> QED BY <1>1, <3>1
  <2> QED BY <1>2, <2>1
<1> DEFINE u == SubSeq(s, 1, p - 1)
<1>4. u \in Seq(Chars) /\ Len(u) = p - 1 /\ \A k \in 1 .. (p - 1) : u[k] = s[k]
  <2>1. 1 \in Nat /\ p - 1 \in Nat /\ 1 <= (p - 1) + 1 /\ p - 1 <= Len(s) /\ 1 >= 1
    BY <1>2
  <2>2. /\ u \in Seq(Chars) /\ Len(u) = (p - 1) - 1 + 1
        /\ \A k \in 1 .. ((p - 1) - 1 + 1) : u[k] = s[1 + k - 1]
    BY <2>1, SubIs
  <2> HIDE DEF u
  <2>3. (p - 1) - 1 + 1 = p - 1 /\ \A k \in 1 .. (p - 1) : 1 + k - 1 = k
    BY <1>2
  <2> QED BY <2>2, <2>3
<1> HIDE DEF u
<1>5. ProperString(s) = u
  BY <1>1 DEF u
<1> QED BY <1>1, <1>3, <1>4, <1>5

\* The name and the extension that compare_item_name puts together.
NameField(e) == ProperString(Bytes(e))
ExtField(e)  == ProperString(SubSeq(Bytes(e), NameWidth + 1, Len(Bytes(e))))

Lettered(s) == /\ s \in Seq(Chars)
               /\ \A k \in 1 .. Len(s) : s[k] \notin Stops \cup {Slash}

Dotless(s) == \A k \in 1 .. Len(s) : s[k] # Dot

\* The characters of an entry that come before its last 0.
LEMMA BytesChars ==
    ASSUME NEW e, EntryOK(e), NEW k \in 1 .. (Size - 1)
    PROVE  /\ Bytes(e)[k] # Slash
           /\ e.ext # << >> => Bytes(e)[k] # Dot
<1>1. /\ NameWidth \in Nat /\ ExtWidth \in Nat /\ Len(e.name) \in 1 .. NameWidth
      /\ Len(e.ext) \in 0 .. ExtWidth /\ Size = NameWidth + ExtWidth + 2 /\ k \in Nat
  BY VolumeAssumption, EntryChars DEF Size
<1>2. Space # Slash /\ Space # Dot
  BY DEF Space, Slash, Dot
<1>3. CASE k \in 1 .. Len(e.name)
  <2>1. Bytes(e)[k] = e.name[k]
    BY <1>3, BytesAre
  <2>2. e.name[k] # Slash /\ (e.ext # << >> => e.name[k] # Dot)
    BY <1>3, EntryChars
  <2> QED BY <2>1, <2>2
<1>4. CASE k \in (Len(e.name) + 1) .. NameWidth
  BY <1>2, <1>4, BytesAre
<1>5. CASE k - NameWidth \in 1 .. Len(e.ext)
  <2>1. k = NameWidth + (k - NameWidth)
    BY <1>1
  <2>2. Bytes(e)[NameWidth + (k - NameWidth)] = e.ext[k - NameWidth]
    BY <1>5, BytesAre
  <2>3. /\ e.ext[k - NameWidth] # Slash
        /\ e.ext # << >> => e.ext[k - NameWidth] # Dot
    BY <1>5, EntryChars
  <2> QED BY <2>1, <2>2, <2>3
<1>6. CASE k - NameWidth \in (Len(e.ext) + 1) .. ExtWidth
  <2>1. k = NameWidth + (k - NameWidth)
    BY <1>1
  <2>2. Bytes(e)[NameWidth + (k - NameWidth)] = Space
    BY <1>6, BytesAre
  <2> QED BY <1>2, <2>1, <2>2
<1>7. CASE k = NameWidth + ExtWidth + 1
  BY <1>7, BytesAre, AttributeIs
<1> QED
  <2>1. \/ k \in 1 .. Len(e.name) \/ k \in (Len(e.name) + 1) .. NameWidth
        \/ k - NameWidth \in 1 .. Len(e.ext) \/ k - NameWidth \in (Len(e.ext) + 1) .. ExtWidth
        \/ k = NameWidth + ExtWidth + 1
    BY <1>1
  <2> QED BY <1>3, <1>4, <1>5, <1>6, <1>7, <2>1

LEMMA NameFieldIs ==
    ASSUME NEW e, EntryOK(e)
    PROVE  /\ Lettered(NameField(e)) /\ Len(NameField(e)) >= 1
           /\ e.ext # << >> => Dotless(NameField(e))
           /\ IF e.ext = << >> \/ Len(e.name) < NameWidth
              THEN NameField(e) = e.name
              ELSE Len(NameField(e)) > NameWidth
<1> DEFINE s == Bytes(e)
<1>1. /\ NameWidth \in Nat \ {0} /\ ExtWidth \in Nat \ {0} /\ Len(e.name) \in 1 .. NameWidth
      /\ Len(e.ext) \in 0 .. ExtWidth /\ e.name \in Seq(Chars) /\ e.ext \in Seq(Chars)
      /\ \A k \in 1 .. Len(e.name) : e.name[k] \notin Stops
      /\ \A k \in 1 .. Len(e.ext) : e.ext[k] \notin Stops
  BY VolumeAssumption, EntryChars
<1>2. /\ s \in Seq(Chars) /\ Len(s) = Size
      /\ \A k \in 1 .. Len(e.name) : s[k] = e.name[k]
      /\ \A k \in (Len(e.name) + 1) .. NameWidth : s[k] = Space
      /\ \A k \in 1 .. Len(e.ext) : s[NameWidth + k] = e.ext[k]
      /\ \A k \in (Len(e.ext) + 1) .. ExtWidth : s[NameWidth + k] = Space
      /\ s[Size] = Nul
  BY BytesAre DEF Size
<1>3. \A k \in 1 .. (Size - 1) : s[k] # Slash /\ (e.ext # << >> => s[k] # Dot)
  BY BytesChars
<1>4. Size \in Nat /\ Size = NameWidth + ExtWidth + 2 /\ Len(e.name) \in Nat
  BY <1>1 DEF Size
<1> HIDE DEF s
<1> DEFINE t == NameField(e)
<1>5. t = ProperString(s)
  BY DEF s, NameField
<1>6. \A k \in 1 .. Len(e.name) : s[k] \notin Stops
  BY <1>1, <1>2
<1>7. /\ t \in Seq(Chars) /\ Len(t) \in Len(e.name) .. (Size - 1)
      /\ \A k \in 1 .. Len(t) : t[k] = s[k] /\ s[k] \notin Stops
  <2>1. Size \in 1 .. Len(s) /\ s[Size] \in Stops /\ Len(e.name) \in 0 .. (Size - 1)
    BY <1>1, <1>2, <1>4 DEF Stops
  <2> DEFINE m == Len(e.name)
             q == Size
             u == ProperString(s)
  <2>2. /\ s \in Seq(Chars) /\ q \in 1 .. Len(s) /\ s[q] \in Stops /\ m \in 0 .. (q - 1)
        /\ \A k \in 1 .. m : s[k] \notin Stops
    BY <1>2, <1>6, <2>1
  <2> HIDE DEF m, q
  <2>3. /\ u \in Seq(Chars) /\ Len(u) \in m .. (q - 1)
        /\ \A k \in 1 .. Len(u) : u[k] = s[k] /\ s[k] \notin Stops
    BY <2>2, StopsAfter
  <2> HIDE DEF u
  <2> QED BY <1>5, <2>3 DEF m, q, u
<1> HIDE DEF t
<1>8. Lettered(t) /\ (e.ext # << >> => Dotless(t)) /\ Len(t) >= 1
  <2>1. Len(t) \in Nat /\ Len(t) <= Size - 1 /\ Len(t) >= 1
    BY <1>1, <1>4, <1>7
  <2>2. ASSUME NEW k \in 1 .. Len(t) PROVE k \in 1 .. (Size - 1)
    BY <1>4, <2>1
  <2>3. \A k \in 1 .. Len(t) : t[k] # Slash /\ (e.ext # << >> => t[k] # Dot)
    BY <1>3, <1>7, <2>2
  <2> QED BY <1>7, <2>1, <2>3 DEF Lettered, Dotless
<1>9. ASSUME e.ext = << >> \/ Len(e.name) < NameWidth PROVE t = e.name
  <2> DEFINE q == Len(e.name) + 1
  <2>1. s[q] = Space
    <3>1. CASE Len(e.name) < NameWidth
      <4>1. q \in (Len(e.name) + 1) .. NameWidth
        BY <1>1, <3>1
      <4> QED BY <1>2, <4>1
    <3>2. CASE Len(e.name) >= NameWidth
      <4>1. Len(e.ext) = 0
        BY <1>1, <1>9, <3>2
      <4>2. 1 \in (Len(e.ext) + 1) .. ExtWidth /\ q = NameWidth + 1
        BY <1>1, <3>2, <4>1
      <4> QED BY <1>2, <4>2
    <3> QED BY <1>1, <3>1, <3>2
  <2>2. q \in 1 .. Len(s) /\ Len(e.name) \in 0 .. (q - 1) /\ q - 1 = Len(e.name)
    BY <1>1, <1>2, <1>4
  <2>3. s[q] \in Stops
    BY <2>1 DEF Stops
  <2> HIDE DEF q
  <2>4. Len(t) = Len(e.name)
    <3>1. Len(t) \in Len(e.name) .. (q - 1)
      BY <1>2, <1>5, <1>6, <2>2, <2>3, StopsAfter
    <3> DEFINE m == Len(e.name)
               n1 == Len(t)
    <3>2. m \in Nat /\ n1 \in m .. (q - 1) /\ q - 1 = m
      BY <1>4, <2>2, <3>1
    <3> HIDE DEF m, n1
    <3>3. n1 = m
      BY <3>2
    <3> QED BY <3>3 DEF m, n1
  <2>5. \A k \in 1 .. Len(t) : t[k] = e.name[k]
    BY <1>2, <1>7, <2>4
  <2> QED BY <1>1, <1>7, <2>4, <2>5, SameSeq
<1>10. ASSUME e.ext # << >>, ~ (Len(e.name) < NameWidth) PROVE Len(t) > NameWidth
  <2>1. Len(e.name) = NameWidth /\ Len(e.ext) >= 1
    BY <1>1, <1>10
  <2> DEFINE m == NameWidth + 1
  <2>2. \A k \in 1 .. m : s[k] \notin Stops
    <3>1. s[NameWidth + 1] = e.ext[1] /\ e.ext[1] \notin Stops
      <4>1. 1 \in 1 .. Len(e.ext)
        BY <1>1, <2>1
      <4> QED BY <1>1, <1>2, <4>1
    <3>2. \A k \in 1 .. m : k \in 1 .. Len(e.name) \/ k = NameWidth + 1
      BY <1>1, <2>1
    <3> QED BY <1>6, <3>1, <3>2
  <2>3. Size \in 1 .. Len(s) /\ s[Size] \in Stops /\ m \in 0 .. (Size - 1)
    BY <1>1, <1>2, <1>4 DEF Stops
  <2>4. Len(t) \in m .. (Size - 1)
    BY <1>2, <1>5, <2>2, <2>3, StopsAfter
  <2> QED BY <1>1, <1>4, <2>4
<1> QED BY <1>8, <1>9, <1>10 DEF t

LEMMA ExtFieldIs ==
    ASSUME NEW e, EntryOK(e), e.ext # << >>
    PROVE  /\ Lettered(ExtField(e)) /\ Dotless(ExtField(e))
           /\ IF Len(e.ext) < ExtWidth \/ e.kind = "archive"
              THEN ExtField(e) = e.ext
              ELSE Len(ExtField(e)) = ExtWidth + 1
<1> DEFINE b == Bytes(e)
           s == SubSeq(b, NameWidth + 1, Len(b))
           n == ExtWidth + 2
<1>1. /\ NameWidth \in Nat /\ ExtWidth \in Nat \ {0}
      /\ Len(e.ext) \in 0 .. ExtWidth /\ e.ext \in Seq(Chars)
      /\ \A k \in 1 .. Len(e.ext) : e.ext[k] \notin Stops
  BY VolumeAssumption, EntryChars
<1>2. /\ b \in Seq(Chars) /\ Len(b) = Size
      /\ \A k \in 1 .. Len(e.ext) : b[NameWidth + k] = e.ext[k]
      /\ \A k \in (Len(e.ext) + 1) .. ExtWidth : b[NameWidth + k] = Space
      /\ b[NameWidth + ExtWidth + 1] = Attribute(e)
      /\ b[NameWidth + ExtWidth + 2] = Nul
  BY BytesAre
<1>3. \A k \in 1 .. (Size - 1) : b[k] # Slash /\ b[k] # Dot
  BY BytesChars
<1>4. Size = NameWidth + ExtWidth + 2 /\ Size \in Nat /\ n \in Nat /\ Len(e.ext) \in Nat
  BY <1>1 DEF Size
<1> HIDE DEF b
<1>5. s \in Seq(Chars) /\ Len(s) = n /\ \A k \in 1 .. n : s[k] = b[NameWidth + k]
  <2> DEFINE from == NameWidth + 1
             to == Len(b)
  <2> HIDE DEF to
  <2>a. to = NameWidth + ExtWidth + 2 /\ Len(b) = to
    BY <1>2, <1>4 DEF to
  <2>1. /\ from \in Nat /\ to \in Nat /\ from <= to + 1 /\ to <= Len(b) /\ from >= 1
        /\ to - from + 1 = n /\ \A k \in 1 .. n : from + k - 1 = NameWidth + k
    BY <1>1, <2>a
  <2> HIDE DEF from
  <2> DEFINE u == SubSeq(b, from, to)
  <2>2. /\ u \in Seq(Chars) /\ Len(u) = to - from + 1
        /\ \A k \in 1 .. (to - from + 1) : u[k] = b[from + k - 1]
    BY <1>2, <2>1, SubIs
  <2> HIDE DEF u, n
  <2>3. u \in Seq(Chars) /\ Len(u) = n /\ \A k \in 1 .. n : u[k] = b[NameWidth + k]
    BY <2>1, <2>2
  <2> QED BY <2>3 DEF u, from, to
<1> DEFINE t == ExtField(e)
<1>6. t = ProperString(s)
  BY DEF s, b, ExtField
<1> HIDE DEF s, t
<1>7. /\ \A k \in 1 .. Len(e.ext) : s[k] = e.ext[k] /\ s[k] \notin Stops
      /\ \A k \in (Len(e.ext) + 1) .. ExtWidth : s[k] = Space
      /\ s[ExtWidth + 1] = Attribute(e) /\ s[n] = Nul
      /\ \A k \in 1 .. (n - 1) : s[k] # Slash /\ s[k] # Dot
  <2>1. ASSUME NEW k \in 1 .. Len(e.ext) PROVE s[k] = e.ext[k]
    <3>1. k \in 1 .. n
      BY <1>1
    <3> QED BY <1>2, <1>5, <3>1
  <2>2. ASSUME NEW k \in (Len(e.ext) + 1) .. ExtWidth PROVE s[k] = Space
    <3>1. k \in 1 .. n
      BY <1>1
    <3> QED BY <1>2, <1>5, <3>1
  <2>3. s[ExtWidth + 1] = Attribute(e) /\ s[n] = Nul
    <3>1. ExtWidth + 1 \in 1 .. n /\ n \in 1 .. n
      BY <1>1
    <3>2. /\ s[ExtWidth + 1] = b[NameWidth + (ExtWidth + 1)]
          /\ s[n] = b[NameWidth + n]
      BY <1>5, <3>1
    <3>3. /\ NameWidth + (ExtWidth + 1) = NameWidth + ExtWidth + 1
          /\ NameWidth + n = NameWidth + ExtWidth + 2
      BY <1>1
    <3> QED BY <1>2, <3>2, <3>3
  <2>4. ASSUME NEW k \in 1 .. (n - 1) PROVE s[k] # Slash /\ s[k] # Dot
    <3>1. k \in 1 .. n /\ NameWidth + k \in 1 .. (Size - 1)
      BY <1>1, <1>4
    <3> QED BY <1>3, <1>5, <3>1
  <2> QED BY <1>1, <2>1, <2>2, <2>3, <2>4
<1>8. /\ t \in Seq(Chars) /\ Len(t) \in Len(e.ext) .. (n - 1)
      /\ \A k \in 1 .. Len(t) : t[k] = s[k] /\ s[k] \notin Stops
  <2>1. n \in 1 .. Len(s) /\ s[n] \in Stops /\ Len(e.ext) \in 0 .. (n - 1)
    BY <1>1, <1>5, <1>7 DEF Stops
  <2> QED BY <1>5, <1>6, <1>7, <2>1, StopsAfter
<1>9. Lettered(t) /\ Dotless(t)
  <2>1. Len(t) \in Nat /\ Len(t) <= n - 1
    BY <1>1, <1>4, <1>8
  <2>2. ASSUME NEW k \in 1 .. Len(t) PROVE k \in 1 .. (n - 1)
    BY <1>4, <2>1
  <2>3. \A k \in 1 .. Len(t) : t[k] # Slash /\ t[k] # Dot
    BY <1>7, <1>8, <2>2
  <2> QED BY <1>8, <2>3 DEF Lettered, Dotless
<1>10. ASSUME Len(e.ext) < ExtWidth \/ e.kind = "archive" PROVE t = e.ext
  <2> DEFINE q == Len(e.ext) + 1
  <2>1. s[q] = Space
    <3>1. CASE Len(e.ext) < ExtWidth
      <4>1. q \in (Len(e.ext) + 1) .. ExtWidth
        BY <1>1, <3>1
      <4> QED BY <1>7, <4>1
    <3>2. CASE Len(e.ext) >= ExtWidth
      <4>1. q = ExtWidth + 1
        BY <1>1, <3>2
      <4>2. e.kind = "archive"
        BY <1>1, <1>10, <3>2
      <4>3. Attribute(e) = Space
        BY <4>2, AttributeIs
      <4> QED BY <1>7, <4>1, <4>3
    <3> QED BY <1>1, <3>1, <3>2
  <2>2. q \in 1 .. Len(s) /\ Len(e.ext) \in 0 .. (q - 1) /\ q - 1 = Len(e.ext)
    BY <1>1, <1>4, <1>5
  <2>3. s[q] \in Stops
    BY <2>1 DEF Stops
  <2> HIDE DEF q
  <2>4. Len(t) = Len(e.ext)
    <3>1. Len(t) \in Len(e.ext) .. (q - 1)
      BY <1>5, <1>6, <1>7, <2>2, <2>3, StopsAfter
    <3> DEFINE m == Len(e.ext)
               n1 == Len(t)
    <3>2. m \in Nat /\ n1 \in m .. (q - 1) /\ q - 1 = m
      BY <1>4, <2>2, <3>1
    <3> HIDE DEF m, n1
    <3>3. n1 = m
      BY <3>2
    <3> QED BY <3>3 DEF m, n1
  <2>5. \A k \in 1 .. Len(t) : t[k] = e.ext[k]
    BY <1>7, <1>8, <2>4
  <2> QED BY <1>1, <1>8, <2>4, <2>5, SameSeq
<1>11. ASSUME ~ (Len(e.ext) < ExtWidth), e.kind # "archive" PROVE Len(t) = ExtWidth + 1
  <2>1. Len(e.ext) = ExtWidth
    BY <1>1, <1>11
  <2>2. Attribute(e) \notin Stops
    BY <1>11, AttributeIs DEF Stops
  <2> DEFINE m == ExtWidth + 1
  <2>3. \A k \in 1 .. m : s[k] \notin Stops
    <3>1. \A k \in 1 .. m : k \in 1 .. Len(e.ext) \/ k = ExtWidth + 1
      BY <1>1, <2>1
    <3> QED BY <1>7, <2>2, <3>1
  <2>4. n \in 1 .. Len(s) /\ s[n] \in Stops /\ m \in 0 .. (n - 1)
    BY <1>1, <1>5, <1>7 DEF Stops
  <2>5. Len(t) \in m .. (n - 1)
    BY <1>5, <1>6, <2>3, <2>4, StopsAfter
  <2> QED BY <1>1, <1>4, <2>5
<1> QED BY <1>9, <1>10, <1>11 DEF t

Dotted(a, b) == a \o <<Dot>> \o b

LEMMA DottedIs ==
    ASSUME NEW a \in Seq(Chars), NEW b \in Seq(Chars)
    PROVE  /\ Dotted(a, b) \in Seq(Chars) /\ Len(Dotted(a, b)) = Len(a) + 1 + Len(b)
           /\ \A k \in 1 .. Len(a) : Dotted(a, b)[k] = a[k]
           /\ Dotted(a, b)[Len(a) + 1] = Dot
           /\ \A k \in 1 .. Len(b) : Dotted(a, b)[Len(a) + 1 + k] = b[k]
<1> DEFINE c == <<Dot>>
           d == a \o c
           u == d \o b
           n == Len(a)
           m == Len(b)
           one == Len(c)
<1>1. Dot \in Chars
  BY TextAssumption
<1>2. c \in Seq(Chars) /\ one = 1 /\ Len(c) = one /\ c[1] = Dot
  BY <1>1
<1>3. n \in Nat /\ m \in Nat /\ Len(a) = n /\ Len(b) = m
  OBVIOUS
<1> HIDE DEF c, n, m, one
<1>4. /\ d \in Seq(Chars) /\ Len(d) = n + one
      /\ \A k \in 1 .. n : d[k] = a[k]
      /\ \A k \in 1 .. one : d[n + k] = c[k]
  <2> HIDE DEF u
  <2>1. c \in Seq(Chars) /\ Len(c) = one /\ Len(a) = n
    BY <1>2, <1>3
  <2> QED BY <2>1, JoinIs
<1> HIDE DEF d
<1>5. /\ u \in Seq(Chars) /\ Len(u) = n + 1 + m
      /\ \A k \in 1 .. (n + 1) : u[k] = d[k]
      /\ \A k \in 1 .. m : u[n + 1 + k] = b[k]
  <2>1. Len(d) = n + 1
    BY <1>2, <1>4
  <2>2. d \in Seq(Chars) /\ b \in Seq(Chars) /\ Len(b) = m
    BY <1>3, <1>4
  <2> QED BY <2>1, <2>2, JoinIs
<1> HIDE DEF u
<1>6. Dotted(a, b) = u
  BY DEF Dotted, u, d, c
<1>7. \A k \in 1 .. n : u[k] = a[k]
  <2>1. ASSUME NEW k \in 1 .. n PROVE k \in 1 .. (n + 1)
    BY <1>3
  <2> QED BY <1>4, <1>5, <2>1
<1>8. u[n + 1] = Dot
  <2>1. 1 \in 1 .. one /\ n + 1 \in 1 .. (n + 1)
    BY <1>2, <1>3
  <2> QED BY <1>2, <1>4, <1>5, <2>1
<1> QED BY <1>3, <1>5, <1>6, <1>7, <1>8 DEF n, m

\* A dot between parts without one tells where they meet.
LEMMA DottedOnce ==
    ASSUME NEW a \in Seq(Chars), NEW b \in Seq(Chars), NEW c \in Seq(Chars),
           NEW d \in Seq(Chars), Dotless(a), Dotless(c), Dotted(a, b) = Dotted(c, d)
    PROVE  Len(a) = Len(c) /\ Len(b) = Len(d)
<1> DEFINE u == Dotted(a, b)
           n == Len(a)
           m == Len(c)
           p == Len(b)
           q == Len(d)
<1>1. /\ Len(u) = n + 1 + p /\ u[n + 1] = Dot
      /\ \A k \in 1 .. n : u[k] = a[k] /\ a[k] # Dot
  BY DottedIs DEF Dotless
<1>2. /\ Len(u) = m + 1 + q /\ u[m + 1] = Dot
      /\ \A k \in 1 .. m : u[k] = c[k] /\ c[k] # Dot
  <2> DEFINE v == Dotted(c, d)
  <2>1. /\ Len(v) = m + 1 + q /\ v[m + 1] = Dot
        /\ \A k \in 1 .. m : v[k] = c[k] /\ c[k] # Dot
    <3>1. /\ Len(v) = m + 1 + q /\ v[m + 1] = Dot
          /\ \A k \in 1 .. m : v[k] = c[k]
      BY DottedIs
    <3>2. \A k \in 1 .. m : c[k] # Dot
      BY DEF Dotless
    <3> QED BY <3>1, <3>2
  <2>2. u = v
    OBVIOUS
  <2> HIDE DEF u, v, m, q
  <2> QED BY <2>1, <2>2
<1>3. n \in Nat /\ m \in Nat /\ p \in Nat /\ q \in Nat
  OBVIOUS
<1> HIDE DEF u, n, m, p, q
<1>4. ~ (n < m) /\ ~ (m < n)
  <2>1. n < m => n + 1 \in 1 .. m
    BY <1>3
  <2>2. m < n => m + 1 \in 1 .. n
    BY <1>3
  <2> QED BY <1>1, <1>2, <2>1, <2>2
<1>5. n = m /\ p = q
  <2>1. n + 1 + p = m + 1 + q
    BY <1>1, <1>2
  <2> QED BY <1>3, <1>4, <2>1
<1> QED BY <1>5 DEF n, m, p, q

LEMMA FullNameIs ==
    ASSUME NEW e, EntryOK(e)
    PROVE  FullName(e) = IF e.ext = << >> THEN e.name ELSE Dotted(NameField(e), ExtField(e))
<1>1. NameField(e) \in Seq(Chars) /\ (e.ext = << >> => NameField(e) = e.name)
  BY NameFieldIs DEF Lettered
<1>2. CASE e.ext = << >>
  <2>1. FullName(e) = NameField(e) \o << >>
    BY <1>2 DEF FullName, NameField
  <2> DEFINE a == NameField(e)
  <2> HIDE DEF a
  <2>2. a \in Seq(Chars) => a \o << >> = a
    OBVIOUS
  <2>3. FullName(e) = NameField(e)
    BY <1>1, <2>1, <2>2 DEF a
  <2> QED BY <1>1, <1>2, <2>3
<1>3. CASE e.ext # << >>
  <2> DEFINE a == NameField(e)
             b == ExtField(e)
  <2>1. FullName(e) = a \o (<<Dot>> \o b)
    BY <1>3 DEF FullName, NameField, ExtField
  <2>2. a \in Seq(Chars) /\ b \in Seq(Chars) /\ Dot \in Chars
    BY <1>1, <1>3, ExtFieldIs, TextAssumption DEF Lettered
  <2> HIDE DEF a, b
  <2>3. a \o (<<Dot>> \o b) = Dotted(a, b)
    <3> DEFINE c == <<Dot>>
    <3>1. c \in Seq(Chars)
      BY <2>2
    <3> HIDE DEF c
    <3>2. a \o (c \o b) = (a \o c) \o b
      BY <2>2, <3>1
    <3> QED BY <3>2 DEF Dotted, c
  <2> QED BY <1>3, <2>1, <2>3 DEF a, b
<1> QED BY <1>2, <1>3

\* No name that is compared holds a slash.
LEMMA FullNameChars ==
    ASSUME NEW e, EntryOK(e)
    PROVE  Lettered(FullName(e))
<1>1. CASE e.ext = << >>
  <2>1. FullName(e) = e.name
    BY <1>1, FullNameIs
  <2> QED BY <2>1, EntryChars DEF Lettered
<1>2. CASE e.ext # << >>
  <2> DEFINE a == NameField(e)
             b == ExtField(e)
             u == Dotted(a, b)
             n == Len(a)
             m == Len(b)
  <2>1. /\ a \in Seq(Chars) /\ \A k \in 1 .. n : a[k] \notin Stops \cup {Slash}
        /\ b \in Seq(Chars) /\ \A k \in 1 .. m : b[k] \notin Stops \cup {Slash}
    BY <1>2, NameFieldIs, ExtFieldIs DEF Lettered
  <2>2. FullName(e) = u
    BY <1>2, FullNameIs
  <2>3. n \in Nat /\ m \in Nat /\ Len(a) = n /\ Len(b) = m
    BY <2>1
  <2> HIDE DEF a, b
  <2>4. /\ u \in Seq(Chars) /\ Len(u) = Len(a) + 1 + Len(b)
        /\ \A k \in 1 .. Len(a) : u[k] = a[k]
        /\ u[Len(a) + 1] = Dot
        /\ \A k \in 1 .. Len(b) : u[Len(a) + 1 + k] = b[k]
    BY <2>1, DottedIs
  <2> HIDE DEF n, m, u
  <2>5. /\ u \in Seq(Chars) /\ Len(u) = n + 1 + m
        /\ \A k \in 1 .. n : u[k] = a[k]
        /\ u[n + 1] = Dot
        /\ \A k \in 1 .. m : u[n + 1 + k] = b[k]
    BY <2>3, <2>4
  <2>6. Dot \notin Stops \cup {Slash}
    BY DEF Stops, Space, Nul, Slash, Dot
  <2>7. ASSUME NEW k \in 1 .. Len(u) PROVE u[k] \notin Stops \cup {Slash}
    <3>1. k \in 1 .. (n + 1 + m)
      BY <2>5
    <3>2. CASE k \in 1 .. n
      BY <2>1, <2>5, <3>2
    <3>3. CASE k = n + 1
      BY <2>5, <2>6, <3>3
    <3>4. CASE k - (n + 1) \in 1 .. m
      <4>1. n + 1 + (k - (n + 1)) = k
        BY <2>3
      <4>2. u[n + 1 + (k - (n + 1))] = b[k - (n + 1)]
        BY <2>5, <3>4
      <4> QED BY <2>1, <3>4, <4>1, <4>2
    <3>5. k \in 1 .. n \/ k = n + 1 \/ k - (n + 1) \in 1 .. m
      BY <2>3, <3>1
    <3> QED BY <3>2, <3>3, <3>4, <3>5
  <2> QED BY <2>2, <2>5, <2>7 DEF Lettered
<1> QED BY <1>1, <1>2

\* A plain entry is compared by the name a listing shows.
LEMMA PlainName ==
    ASSUME NEW e, EntryOK(e), Plain(e)
    PROVE  FullName(e) = ShortName(e)
<1>1. CASE e.ext = << >>
  BY <1>1, FullNameIs DEF ShortName
<1>2. CASE e.ext # << >>
  <2>1. NameField(e) = e.name /\ ExtField(e) = e.ext
    BY <1>2, NameFieldIs, ExtFieldIs DEF Plain
  <2> QED BY <1>2, <2>1, FullNameIs DEF ShortName, Dotted
<1> QED BY <1>1, <1>2

\* Any other entry is compared by a name that no plain entry has.
LEMMA OtherName ==
    ASSUME NEW e, EntryOK(e), Plain(e), NEW f, EntryOK(f), ~ Plain(f)
    PROVE  FullName(f) # ShortName(e)
<1> DEFINE a == NameField(f)
           b == ExtField(f)
<1>1. /\ NameWidth \in Nat /\ ExtWidth \in Nat \ {0}
      /\ Len(f.name) \in 1 .. NameWidth /\ Len(f.ext) \in 0 .. ExtWidth
      /\ e.name \in Seq(Chars) /\ e.ext \in Seq(Chars) /\ f.ext \in Seq(Chars)
  BY VolumeAssumption, EntryChars
<1>2. f.ext # << >>
  <2>1. f.ext = << >> => Len(f.ext) = 0
    OBVIOUS
  <2> QED BY <1>1, <2>1 DEF Plain
<1>3. /\ a \in Seq(Chars) /\ b \in Seq(Chars) /\ Dotless(a) /\ Dotless(b)
      /\ Len(a) \in Nat /\ Len(a) >= 1
      /\ FullName(f) = Dotted(a, b)
  BY <1>2, NameFieldIs, ExtFieldIs, FullNameIs DEF Lettered
<1>4. Len(a) > NameWidth \/ Len(b) = ExtWidth + 1
  <2>1. \/ ~ (Len(f.name) < NameWidth)
        \/ ~ (Len(f.ext) < ExtWidth \/ f.kind = "archive")
    BY <1>2 DEF Plain
  <2> QED BY <1>2, <2>1, NameFieldIs, ExtFieldIs
<1> HIDE DEF a, b
<1>5. CASE e.ext = << >>
  <2>1. ShortName(e) = e.name
    BY <1>5 DEF ShortName
  <2> DEFINE n == Len(a)
             u == Dotted(a, b)
  <2>2. u[1] # Dot /\ u[n + 1] = Dot /\ n + 1 \in 1 .. Len(u)
    <3>1. u[1] = a[1] /\ a[1] # Dot
      <4>1. 1 \in 1 .. Len(a)
        BY <1>3
      <4> QED BY <1>3, <4>1, DottedIs DEF Dotless
    <3>2. u[n + 1] = Dot /\ Len(u) = n + 1 + Len(b) /\ Len(b) \in Nat /\ n \in Nat
      BY <1>3, DottedIs
    <3> HIDE DEF u, n
    <3> QED BY <3>1, <3>2
  <2> HIDE DEF u, n
  <2>3. u # e.name
    <3>1. ASSUME u = e.name PROVE FALSE
      <4>1. n + 1 \in 1 .. Len(e.name) /\ e.name[n + 1] = Dot /\ e.name[1] # Dot
        BY <2>2, <3>1
      <4> QED BY <4>1, EntryChars
    <3> QED BY <3>1
  <2> QED BY <1>3, <2>1, <2>3 DEF u
<1>6. CASE e.ext # << >>
  <2>1. ShortName(e) = Dotted(e.name, e.ext)
    BY <1>6 DEF ShortName, Dotted
  <2>2. Dotless(e.name)
    BY <1>6, EntryChars DEF Dotless
  <2>3. Len(e.name) < NameWidth /\ Len(e.ext) <= ExtWidth
    BY <1>6, EntryChars, <1>1 DEF Plain
  <2>4. ASSUME Dotted(a, b) = Dotted(e.name, e.ext) PROVE FALSE
    <3>1. Len(a) = Len(e.name) /\ Len(b) = Len(e.ext)
      BY <1>1, <1>3, <2>2, <2>4, DottedOnce
    <3> DEFINE n == Len(a)
               m == Len(b)
    <3>2. n \in Nat /\ m \in Nat
      BY <1>3
    <3>3. (n > NameWidth \/ m = ExtWidth + 1) /\ n < NameWidth /\ m <= ExtWidth
      BY <1>4, <2>3, <3>1
    <3> HIDE DEF n, m
    <3> QED BY <1>1, <3>2, <3>3
  <2> QED BY <1>3, <2>1, <2>4
<1> QED BY <1>5, <1>6

\* A search for the name of a plain entry finds it, and no other search does.
LEMMA MatchIs ==
    ASSUME NEW d \in Dirs, NEW i \in Live(d), Plain(Slots[d][i]), NEW sought
    PROVE  Match(d, sought) = i <=> /\ ShortName(Slots[d][i]) = sought
                                    /\ i <= ItemsCount(d)
<1> DEFINE matches == {k \in Live(d) : k <= ItemsCount(d) /\ FullName(Slots[d][k]) = sought}
           e == Slots[d][i]
<1>1. /\ \A k \in Live(d) : EntryOK(Slots[d][k])
      /\ \A k, l \in Live(d) : ShortName(Slots[d][k]) = ShortName(Slots[d][l]) => k = l
  BY VolumeAssumption
<1>2. Live(d) \in SUBSET Nat /\ \A k \in Live(d) : k \in Nat /\ k # 0
  <2>1. Slots[d] \in Seq({Deleted} \cup UNION {ToSet(Slots[c]) : c \in Dirs})
    BY VolumeAssumption
  <2> DEFINE s == Slots[d]
  <2> HIDE DEF s
  <2>2. DOMAIN s = 1 .. Len(s) /\ Len(s) \in Nat
    BY <2>1 DEF s
  <2> QED BY <2>2 DEF Live, s
<1>3. matches \in SUBSET Nat /\ matches \in SUBSET Live(d)
  BY <1>2
<1>4. FullName(e) = ShortName(e)
  BY <1>1, PlainName
<1>5. Match(d, sought) = IF matches = {} THEN 0 ELSE Least(matches)
  BY DEF Match
<1>6. i \in matches <=> ShortName(e) = sought /\ i <= ItemsCount(d)
  BY <1>4
<1>7. ASSUME i \in matches, NEW k \in matches PROVE k = i
  <2>1. FullName(Slots[d][k]) = ShortName(e)
    BY <1>4, <1>7
  <2>2. Plain(Slots[d][k])
    BY <1>1, <1>3, <2>1, OtherName
  <2>3. ShortName(Slots[d][k]) = ShortName(e)
    BY <1>1, <1>3, <2>1, <2>2, PlainName
  <2> QED BY <1>1, <1>3, <2>3
<1> HIDE DEF matches
<1>8. ASSUME i \in matches PROVE Match(d, sought) = i
  <2>1. Least(matches) \in matches
    BY <1>3, <1>8, LeastIs
  <2> QED BY <1>5, <1>7, <1>8, <2>1
<1>9. ASSUME Match(d, sought) = i PROVE i \in matches
  <2>1. matches # {}
    BY <1>2, <1>5, <1>9
  <2>2. Least(matches) \in matches
    BY <1>3, <2>1, LeastIs
  <2> QED BY <1>5, <1>9, <2>1, <2>2
<1> QED BY <1>6, <1>8, <1>9

\* What a search finds is in use, and is compared by what was sought.
LEMMA MatchFinds ==
    ASSUME NEW d \in Dirs, NEW sought, Match(d, sought) # 0
    PROVE  /\ Match(d, sought) \in Live(d)
           /\ FullName(Slots[d][Match(d, sought)]) = sought
<1> DEFINE matches == {k \in Live(d) : k <= ItemsCount(d) /\ FullName(Slots[d][k]) = sought}
<1>1. Live(d) \in SUBSET Nat
  <2>1. Slots[d] \in Seq({Deleted} \cup UNION {ToSet(Slots[c]) : c \in Dirs})
    BY VolumeAssumption
  <2> DEFINE s == Slots[d]
  <2> HIDE DEF s
  <2>2. DOMAIN s = 1 .. Len(s) /\ Len(s) \in Nat
    BY <2>1 DEF s
  <2> QED BY <2>2 DEF Live, s
<1>2. Match(d, sought) = IF matches = {} THEN 0 ELSE Least(matches)
  BY DEF Match
<1>3. matches # {} /\ matches \in SUBSET Nat
  BY <1>1, <1>2
<1>4. Least(matches) \in matches
  BY <1>3, LeastIs
<1> QED BY <1>2, <1>3, <1>4

----------------------------------------------------------------------------
(* The parts of a path.                                                    *)

EndSet(s) == {0} \cup Cuts(s) \cup {Len(s) + 1}
Ends(s)   == InOrder(EndSet(s))
PartOf(s, i) == SubSeq(s, Ends(s)[i] + 1, Ends(s)[i + 1] - 1)

LEMMA EndsAre ==
    ASSUME NEW s \in Seq(Chars)
    PROVE  /\ EndSet(s) \in SUBSET (0 .. (Len(s) + 1)) /\ IsFiniteSet(EndSet(s))
           /\ Cardinality(EndSet(s)) \in Nat /\ Len(Ends(s)) = Cardinality(EndSet(s))
           /\ Len(Ends(s)) \in Nat /\ Len(Ends(s)) >= 2
           /\ \A i \in 1 .. (Len(Ends(s)) - 1) :
                /\ Ends(s)[i] \in 0 .. (Len(s) + 1) /\ Ends(s)[i + 1] \in 0 .. (Len(s) + 1)
                /\ Ends(s)[i] < Ends(s)[i + 1]
<1> DEFINE S == EndSet(s)
           n == Len(s)
<1>1. n \in Nat
  OBVIOUS
<1>2. S \in SUBSET (0 .. (n + 1)) /\ 0 \in S /\ n + 1 \in S
  <2>0. S = {0} \cup Cuts(s) \cup {n + 1}
    BY DEF EndSet
  <2>1. Cuts(s) \in SUBSET (1 .. n)
    BY DEF Cuts
  <2> DEFINE C == Cuts(s)
  <2> HIDE DEF C, n
  <2>2. \A k \in 1 .. n : k \in 0 .. (n + 1)
    BY <1>1
  <2>3. 0 \in 0 .. (n + 1) /\ n + 1 \in 0 .. (n + 1)
    BY <1>1
  <2>4. {0} \cup C \cup {n + 1} \in SUBSET (0 .. (n + 1))
    BY <2>1, <2>2, <2>3 DEF C
  <2>5. 0 \in {0} \cup C \cup {n + 1} /\ n + 1 \in {0} \cup C \cup {n + 1}
    OBVIOUS
  <2> QED BY <2>0, <2>4, <2>5 DEF C
<1> HIDE DEF S
<1>3. IsFiniteSet(S) /\ S \in SUBSET Nat
  <2>1. IsFiniteSet(0 .. (n + 1))
    <3>1. 0 \in Int /\ n + 1 \in Int
      BY <1>1
    <3> HIDE DEF n
    <3> QED BY <3>1, FS_Interval
  <2>2. 0 .. (n + 1) \in SUBSET Nat
    BY <1>1
  <2> HIDE DEF n
  <2> QED BY <1>2, <2>1, <2>2, FS_Subset
<1> HIDE DEF n
<1> DEFINE f == InOrder(S)
           N == Cardinality(S)
<1>4. N \in Nat /\ f \in Seq(S) /\ Len(f) = N
  BY <1>3, InOrderIs, RankIs
<1>5. \A i \in 1 .. N : f[i] \in S
  BY <1>3, InOrderIs
<1>6. \A i, j \in 1 .. N : i < j <=> f[i] < f[j]
  BY <1>3, InOrderIs
<1>7. N >= 2
  <2>1. {0, n + 1} \in SUBSET S /\ 0 # n + 1
    BY <1>1, <1>2
  <2>2. Cardinality({0, n + 1}) = 2
    <3> DEFINE a == n + 1
    <3>1. 0 # a
      BY <2>1
    <3> HIDE DEF a
    <3>2. IsFiniteSet({0}) /\ Cardinality({0}) = 1 /\ a \notin {0}
      BY <3>1, FS_Singleton
    <3> DEFINE Z == {0}
    <3> HIDE DEF Z
    <3>5. Cardinality(Z \cup {a}) = Cardinality(Z) + 1
      BY <3>2, FS_AddElement DEF Z
    <3>6. Cardinality(Z) = 1
      BY <3>2 DEF Z
    <3>7. Cardinality(Z \cup {a}) = 2
      BY <3>5, <3>6
    <3>3. Cardinality({0} \cup {a}) = 2
      BY <3>7 DEF Z
    <3>4. {0} \cup {a} = {0, a}
      OBVIOUS
    <3> QED BY <3>3, <3>4 DEF a
  <2>3. Cardinality({0, n + 1}) <= N
    BY <1>3, <2>1, FS_Subset
  <2> HIDE DEF N
  <2> QED BY <1>4, <2>2, <2>3
<1> HIDE DEF f, N
<1>8. ASSUME NEW i \in 1 .. (N - 1)
      PROVE  f[i] \in 0 .. (n + 1) /\ f[i + 1] \in 0 .. (n + 1) /\ f[i] < f[i + 1]
  <2>1. i \in 1 .. N /\ i + 1 \in 1 .. N /\ i < i + 1
    BY <1>4
  <2> QED BY <1>2, <1>5, <1>6, <2>1
<1>9. Ends(s) = f
  BY DEF Ends, f, S
<1>10. Len(f) = N
  BY <1>4
<1> HIDE DEF f
<1>11. /\ S \in SUBSET (0 .. (n + 1)) /\ IsFiniteSet(S)
       /\ N \in Nat /\ Len(f) = N /\ Len(f) \in Nat /\ Len(f) >= 2
       /\ \A i \in 1 .. (Len(f) - 1) : /\ f[i] \in 0 .. (n + 1) /\ f[i + 1] \in 0 .. (n + 1)
                                        /\ f[i] < f[i + 1]
  BY <1>2, <1>3, <1>4, <1>7, <1>8, <1>10
<1> QED BY <1>9, <1>11 DEF S, N, n

LEMMA PartIs ==
    ASSUME NEW s \in Seq(Chars), NEW i \in 1 .. (Len(Ends(s)) - 1)
    PROVE  /\ PartOf(s, i) \in Seq(Chars) /\ Unset \in Seq(Chars)
           /\ \A k \in 1 .. (Ends(s)[i + 1] - Ends(s)[i] - 1) :
                /\ k \in 1 .. Len(PartOf(s, i)) /\ PartOf(s, i)[k] = s[Ends(s)[i] + k]
           /\ \A k \in 1 .. Len(PartOf(s, i)) : \E l \in 1 .. Len(s) : PartOf(s, i)[k] = s[l]
<1> DEFINE a == Ends(s)[i]
           b == Ends(s)[i + 1]
           n == Len(s)
<1>1. a \in 0 .. (n + 1) /\ b \in 0 .. (n + 1) /\ a < b /\ n \in Nat
  <2>1. n \in Nat
    OBVIOUS
  <2> HIDE DEF n
  <2>2. /\ a \in 0 .. (Len(s) + 1) /\ b \in 0 .. (Len(s) + 1)
        /\ a < b
    BY EndsAre
  <2> HIDE DEF a, b
  <2> QED BY <2>1, <2>2 DEF n
<1> HIDE DEF a, b
<1> DEFINE u == SubSeq(s, a + 1, b - 1)
           from == a + 1
           to == b - 1
<1>2. /\ from \in Nat /\ to \in Nat /\ from <= to + 1 /\ to <= n /\ from >= 1
      /\ to - from + 1 = b - a - 1
  BY <1>1
<1>3. \A k \in 1 .. (b - a - 1) : from + k - 1 = a + k /\ a + k \in 1 .. n
  BY <1>1
<1> HIDE DEF from, to
<1> DEFINE v == SubSeq(s, from, to)
<1>4. /\ v \in Seq(Chars) /\ Len(v) = to - from + 1
      /\ \A k \in 1 .. (to - from + 1) : v[k] = s[from + k - 1]
  BY <1>2, SubIs
<1> HIDE DEF u, v, n
<1>5. u = v
  BY DEF u, v, from, to
<1>6. u \in Seq(Chars) /\ Len(u) = b - a - 1 /\ \A k \in 1 .. (b - a - 1) : u[k] = s[a + k]
  BY <1>2, <1>3, <1>4, <1>5
<1>7. PartOf(s, i) = u
  BY DEF PartOf, u, a, b
<1>8. Unset \in Seq(Chars)
  <2>1. Nul \in Chars
    BY TextAssumption
  <2> QED BY <2>1 DEF Unset
<1>9. \A k \in 1 .. Len(u) : \E l \in 1 .. n : u[k] = s[l]
  BY <1>3, <1>6
<1>10. \A k \in 1 .. (b - a - 1) : k \in 1 .. Len(u) /\ u[k] = s[a + k]
  BY <1>6
<1> QED BY <1>6, <1>7, <1>8, <1>9, <1>10 DEF a, b, n

LEMMA ParseIs ==
    ASSUME NEW s \in Seq(Chars)
    PROVE  /\ Parse(s) \in Seq(Seq(Chars)) /\ Len(Parse(s)) = Len(Ends(s)) - 1
           /\ Len(Parse(s)) \in Nat /\ Len(Parse(s)) >= 1
           /\ \A i \in 1 .. Len(Parse(s)) :
                Parse(s)[i] = IF i = Len(Parse(s)) /\ PartOf(s, i) = << >>
                              THEN Unset ELSE PartOf(s, i)
<1> DEFINE last == Len(Ends(s)) - 1
           p == Parse(s)
<1>1. p = [i \in 1 .. last |-> IF i = last /\ PartOf(s, i) = << >> THEN Unset
                                ELSE PartOf(s, i)]
  BY DEF Parse, PartOf, Ends, EndSet
<1>2. last \in Nat /\ last >= 1
  BY EndsAre
<1>3. \A i \in 1 .. last : PartOf(s, i) \in Seq(Chars) /\ Unset \in Seq(Chars)
  BY PartIs
<1> HIDE DEF p, last
<1>4. \A i \in 1 .. last : p[i] = IF i = last /\ PartOf(s, i) = << >> THEN Unset
                                  ELSE PartOf(s, i)
  BY <1>1
<1> DEFINE T == Seq(Chars)
<1>5. p \in [1 .. last -> T]
  BY <1>1, <1>3
<1> HIDE DEF T
<1>6. p \in Seq(T) /\ Len(p) = last
  BY <1>2, <1>5
<1> QED BY <1>2, <1>4, <1>6 DEF p, last, T

HasSlash(s) == \E k \in 1 .. Len(s) : s[k] = Slash

Slashes(s) == {k \in 1 .. Len(s) : s[k] = Slash}

\* Parts without a slash end at every slash of the path.
LEMMA CutsAreSlashes ==
    ASSUME NEW s, IsString(s),
           \A i \in 1 .. Len(Parse(s)) : Parse(s)[i] = Unset \/ ~ HasSlash(Parse(s)[i])
    PROVE  Cuts(s) = Slashes(s)
<1>1. s \in Seq(Chars) /\ Len(s) \in Nat /\ \A k \in 1 .. Len(s) : s[k] # Nul
  BY DEF IsString, ToSet
<1> DEFINE S == EndSet(s)
           f == Ends(s)
           N == Cardinality(S)
<1>2. /\ S \in SUBSET Nat /\ IsFiniteSet(S) /\ N \in Nat /\ Len(f) = N
      /\ 0 \in S /\ Len(s) + 1 \in S
  <2>0. 0 \in S /\ Len(s) + 1 \in S
    BY DEF EndSet
  <2>1. /\ S \in SUBSET (0 .. (Len(s) + 1)) /\ IsFiniteSet(S) /\ N \in Nat /\ Len(f) = N
    BY <1>1, EndsAre
  <2>2. 0 .. (Len(s) + 1) \in SUBSET Nat
    BY <1>1
  <2> HIDE DEF N, f, S
  <2> QED BY <2>0, <2>1, <2>2
<1>3. /\ \A n \in 1 .. N : f[n] \in S /\ Rank(S, f[n]) = n - 1
      /\ \A k \in S : Rank(S, k) \in 0 .. (N - 1)
      /\ \A k, l \in Nat : k <= l => Rank(S, k) <= Rank(S, l)
      /\ \A k \in S, l \in Nat : k < l => Rank(S, k) < Rank(S, l)
      /\ \A k : Rank(S, k) \in 0 .. N
  BY <1>2, InOrderIs, RankIs DEF Ends
<1>5. \A k : k \in S <=> k = 0 \/ k \in Cuts(s) \/ k = Len(s) + 1
  BY DEF EndSet
<1> HIDE DEF S, N, f
<1>4. ASSUME NEW k \in Slashes(s), k \notin Cuts(s) PROVE FALSE
  <2>1. k \in 1 .. Len(s) /\ s[k] = Slash
    BY DEF Slashes
  <2>2. k \in Nat /\ k \notin S /\ 0 < k /\ k < Len(s) + 1 /\ Len(s) + 1 \in Nat
    <3>1. k \in Nat /\ k # 0 /\ k # Len(s) + 1 /\ 0 < k /\ k < Len(s) + 1 /\ Len(s) + 1 \in Nat
      BY <1>1, <2>1
    <3> QED BY <1>4, <1>5, <3>1
  <2> DEFINE n == Rank(S, k)
  <2>3. n \in 1 .. (N - 1)
    <3>1. Rank(S, 0) < n /\ Rank(S, 0) \in Nat
      BY <1>2, <1>3, <2>2
    <3>2. n <= Rank(S, Len(s) + 1) /\ Rank(S, Len(s) + 1) \in 0 .. (N - 1)
      BY <1>2, <1>3, <2>2
    <3>3. n \in Nat
      <4>1. n \in 0 .. N
        BY <1>3
      <4> HIDE DEF n
      <4> QED BY <1>2, <4>1
    <3> DEFINE r == Rank(S, 0)
               q == Rank(S, Len(s) + 1)
    <3> HIDE DEF n, N, r, q
    <3>4. r < n /\ r \in Nat /\ n <= q /\ q \in 0 .. (N - 1)
      BY <3>1, <3>2 DEF r, q
    <3> QED BY <1>2, <3>3, <3>4
  <2> DEFINE a == f[n]
             b == f[n + 1]
  <2>4. /\ a \in S /\ b \in S /\ a \in Nat /\ b \in Nat
        /\ Rank(S, a) = n - 1 /\ Rank(S, b) = n
    <3>1. n \in 1 .. N /\ n + 1 \in 1 .. N /\ n \in Nat /\ (n + 1) - 1 = n
      <4> HIDE DEF n, N
      <4> QED BY <1>2, <2>3
    <3> HIDE DEF n, N, f, S
    <3>2. f[n] \in S /\ Rank(S, f[n]) = n - 1 /\ f[n + 1] \in S /\ Rank(S, f[n + 1]) = (n + 1) - 1
      BY <1>3, <3>1
    <3> QED BY <1>2, <3>1, <3>2
  <2>5. a < k /\ k < b
    <3> HIDE DEF S, N, f, a, b
    <3>1. n \in Int
      BY <2>3
    <3>2. k <= a => Rank(S, k) <= Rank(S, a)
      BY <1>3, <2>2, <2>4
    <3>3. b < k => Rank(S, b) < Rank(S, k)
      BY <1>3, <2>2, <2>4
    <3>4. a # k /\ b # k
      BY <2>2, <2>4
    <3> HIDE DEF n
    <3>5. ~ (k <= a) /\ ~ (b < k)
      BY <2>4, <3>1, <3>2, <3>3 DEF n
    <3> QED BY <2>2, <2>4, <3>4, <3>5
  <2>6. n \in 1 .. (Len(f) - 1) /\ n \in 1 .. Len(Parse(s)) /\ n \in Nat
    <3>1. n \in 1 .. (N - 1) /\ Len(f) = N /\ Len(Parse(s)) = Len(f) - 1
      BY <1>1, <1>2, <2>3, ParseIs DEF f
    <3> HIDE DEF n
    <3> QED BY <3>1
  <2> HIDE DEF S, N, n
  <2> DEFINE u == PartOf(s, n)
  <2>7. /\ \A j \in 1 .. (b - a - 1) : j \in 1 .. Len(u) /\ u[j] = s[a + j]
        /\ \A j \in 1 .. Len(u) : \E l \in 1 .. Len(s) : u[j] = s[l]
    BY <1>1, <2>6, PartIs DEF f
  <2>8. /\ Parse(s)[n] = IF n = Len(Parse(s)) /\ u = << >> THEN Unset ELSE u
    BY <1>1, <2>6, ParseIs
  <2> HIDE DEF f, a, b, u
  <2>9. k - a \in 1 .. (b - a - 1) /\ a + (k - a) = k
    BY <2>2, <2>4, <2>5
  <2>10. k - a \in 1 .. Len(u) /\ u[k - a] = Slash
    BY <2>1, <2>7, <2>9
  <2>11. HasSlash(u) /\ u # << >> /\ u # Unset
    <3>1. HasSlash(u)
      BY <2>10 DEF HasSlash
    <3>2. u # << >>
      BY <2>10
    <3>3. u # Unset
      <4>1. ASSUME u = Unset PROVE FALSE
        <5>1. 1 \in 1 .. Len(u) /\ u[1] = Nul
          BY <4>1 DEF Unset
        <5> QED BY <1>1, <2>7, <5>1
      <4> QED BY <4>1
    <3> QED BY <3>1, <3>2, <3>3
  <2>12. Parse(s)[n] = u
    BY <2>8, <2>11
  <2>13. Parse(s)[n] = Unset \/ ~ HasSlash(Parse(s)[n])
    BY <2>6
  <2> QED BY <2>11, <2>12, <2>13
<1>6. Cuts(s) \in SUBSET Slashes(s)
  BY DEF Cuts, Slashes
<1>7. Slashes(s) \in SUBSET Cuts(s)
  BY <1>4, Zenon
<1> QED BY <1>6, <1>7, Zenon

\* Then the parts are the names that stand between the slashes.
LEMMA NamesAre ==
    ASSUME NEW s, IsString(s), Cuts(s) = Slashes(s)
    PROVE  /\ Len(Names(s)) = Len(Parse(s)) /\ DOMAIN Names(s) = 1 .. Len(Parse(s))
           /\ \A i \in 1 .. Len(Parse(s)) : /\ Names(s)[i] \in Seq(Chars)
                                            /\ Parse(s)[i] = Names(s)[i]
                                                 \/ (Parse(s)[i] = Unset /\ Names(s)[i] = << >>)
<1> DEFINE last == Len(Ends(s)) - 1
           q == Names(s)
<1>1. s \in Seq(Chars)
  BY DEF IsString
<1>2. q = [i \in 1 .. last |-> PartOf(s, i)]
  BY DEF Names, Slashes, Ends, EndSet, PartOf
<1>3. last \in Nat /\ last = Len(Parse(s))
  BY <1>1, ParseIs
<1>4. \A i \in 1 .. last : PartOf(s, i) \in Seq(Chars)
  BY <1>1, PartIs
<1>5. \A i \in 1 .. last : Parse(s)[i] = IF i = last /\ PartOf(s, i) = << >> THEN Unset
                                         ELSE PartOf(s, i)
  BY <1>1, <1>3, ParseIs
<1> HIDE DEF last, q
<1>6. \A i \in 1 .. last : q[i] = PartOf(s, i)
  BY <1>2
<1> DEFINE T == Seq(Chars)
<1>7. q \in [1 .. last -> T]
  BY <1>2, <1>4
<1> HIDE DEF T
<1>8. Len(q) = last
  BY <1>3, <1>7
<1>10. DOMAIN q = 1 .. last
  BY <1>2
<1>9. \A i \in 1 .. last : /\ q[i] \in Seq(Chars)
                           /\ Parse(s)[i] = q[i] \/ (Parse(s)[i] = Unset /\ q[i] = << >>)
  BY <1>4, <1>5, <1>6
<1> QED BY <1>3, <1>8, <1>9, <1>10 DEF q

\* Upper case changes no slash and makes none.
LEMMA UpperIs ==
    ASSUME NEW s \in Seq(Chars)
    PROVE  /\ Upper(s) \in Seq(Chars) /\ Len(Upper(s)) = Len(s)
           /\ \A k \in 1 .. Len(s) : Upper(s)[k] = Slash <=> s[k] = Slash
<1> DEFINE u == Upper(s)
           n == Len(s)
<1>1. u = [i \in 1 .. n |-> IF s[i] \in DOMAIN Capital THEN Capital[s[i]] ELSE s[i]]
  BY DEF Upper
<1>2. n \in Nat /\ \A i \in 1 .. n : s[i] \in Chars
  OBVIOUS
<1>3. \A c \in DOMAIN Capital : Capital[c] \in Chars /\ c # Slash /\ Capital[c] # Slash
  BY TextAssumption
<1> HIDE DEF u, n
<1>4. \A i \in 1 .. n : u[i] = IF s[i] \in DOMAIN Capital THEN Capital[s[i]] ELSE s[i]
  BY <1>1
<1>5. u \in [1 .. n -> Chars]
  BY <1>1, <1>2, <1>3
<1>6. u \in Seq(Chars) /\ Len(u) = n
  BY <1>2, <1>5
<1>7. \A k \in 1 .. n : u[k] = Slash <=> s[k] = Slash
  BY <1>3, <1>4
<1> QED BY <1>6, <1>7 DEF u, n

LEMMA NamesHaveNoNul ==
    ASSUME NEW s, IsString(s), Cuts(s) = Slashes(s), NEW i \in 1 .. Len(Names(s))
    PROVE  Names(s)[i] # Unset
<1> DEFINE last == Len(Ends(s)) - 1
           q == Names(s)
<1>1. s \in Seq(Chars) /\ \A k \in 1 .. Len(s) : s[k] # Nul
  BY DEF IsString, ToSet
<1>2. q = [j \in 1 .. last |-> PartOf(s, j)]
  BY DEF Names, Slashes, Ends, EndSet, PartOf
<1>3. i \in 1 .. last
  BY <1>1, NamesAre, ParseIs
<1>4. q[i] = PartOf(s, i)
  BY <1>2, <1>3
<1> DEFINE u == PartOf(s, i)
<1>5. \A k \in 1 .. Len(u) : \E l \in 1 .. Len(s) : u[k] = s[l]
  BY <1>1, <1>3, PartIs
<1> HIDE DEF u
<1>6. ASSUME u = Unset PROVE FALSE
  <2>1. 1 \in 1 .. Len(u) /\ u[1] = Nul
    BY <1>6 DEF Unset
  <2> QED BY <1>1, <1>5, <2>1
<1> QED BY <1>4, <1>6 DEF u

----------------------------------------------------------------------------
(* Walks.                                                                  *)

LEMMA EntriesAre ==
    /\ \A e \in Entries : EntryOK(e)
    /\ \A d \in Dirs : \A i \in Live(d) : /\ Slots[d][i] \in Entries
                                          /\ Slots[d][i] \in ToSet(Slots[d])
    /\ \A d \in Dirs : 0 \notin Live(d)
<1>1. \A d \in Dirs : \A i \in Live(d) : EntryOK(Slots[d][i])
  BY VolumeAssumption
<1>2. \A e \in Entries : EntryOK(e)
  BY <1>1 DEF Entries
<1>3. ASSUME NEW d \in Dirs, NEW i \in Live(d)
      PROVE  Slots[d][i] \in Entries /\ Slots[d][i] \in ToSet(Slots[d])
  <2>1. Slots[d][i] \in Entries
    BY DEF Entries
  <2>2. i \in DOMAIN Slots[d]
    BY DEF Live
  <2> QED BY <2>1, <2>2 DEF ToSet
<1>4. ASSUME NEW d \in Dirs PROVE 0 \notin Live(d)
  <2>1. Slots[d] \in Seq({Deleted} \cup UNION {ToSet(Slots[c]) : c \in Dirs})
    BY VolumeAssumption
  <2> DEFINE s == Slots[d]
  <2> HIDE DEF s
  <2>2. DOMAIN s = 1 .. Len(s) /\ Len(s) \in Nat
    BY <2>1 DEF s
  <2>3. 0 \notin DOMAIN s
    BY <2>2
  <2> QED BY <2>3 DEF Live, s
<1> QED BY <1>2, <1>3, <1>4

\* A walk along the first names of a path, p its parts.
Leads(p, i, e) == p[i] = Unset \/ IsPrefix(Upper(p[i]), FullName(e))
From(w, i) == IF i = 1 THEN Root ELSE w[i - 1].to

WalkOK(w, p) == /\ w \in Seq(Entries)
                /\ \A i \in 1 .. Len(w) : /\ Leads(p, i, w[i])
                                          /\ w[i] \in ToSet(Slots[From(w, i)])

LEMMA WalkOn ==
    ASSUME NEW w, NEW p, WalkOK(w, p), NEW e \in Entries,
           Leads(p, Len(w) + 1, e), e \in ToSet(Slots[From(w, Len(w) + 1)])
    PROVE  /\ WalkOK(Append(w, e), p) /\ Len(Append(w, e)) = Len(w) + 1
           /\ From(Append(w, e), Len(w) + 2) = e.to
<1> DEFINE n == Len(w)
           v == Append(w, e)
<1>1. /\ w \in Seq(Entries) /\ n \in Nat
      /\ \A i \in 1 .. n : Leads(p, i, w[i]) /\ w[i] \in ToSet(Slots[From(w, i)])
  BY DEF WalkOK
<1>2. /\ v \in Seq(Entries) /\ Len(v) = n + 1 /\ v[n + 1] = e
      /\ \A i \in 1 .. n : v[i] = w[i]
  BY <1>1
<1>3. Leads(p, n + 1, e) /\ e \in ToSet(Slots[From(w, n + 1)])
  OBVIOUS
<1> HIDE DEF n, v
<1>4. ASSUME NEW i \in 1 .. (n + 1) PROVE From(v, i) = From(w, i)
  <2>1. CASE i = 1
    BY <2>1 DEF From
  <2>2. CASE i # 1
    <3>1. i - 1 \in 1 .. n
      BY <1>1, <2>2
    <3>2. v[i - 1] = w[i - 1]
      BY <1>2, <3>1
    <3> QED BY <2>2, <3>2 DEF From
  <2> QED BY <2>1, <2>2
<1>5. ASSUME NEW i \in 1 .. (n + 1)
      PROVE  Leads(p, i, v[i]) /\ v[i] \in ToSet(Slots[From(v, i)])
  <2>1. CASE i \in 1 .. n
    BY <1>1, <1>2, <1>4, <2>1
  <2>2. CASE i = n + 1
    BY <1>2, <1>3, <1>4, <2>2
  <2> QED BY <1>1, <2>1, <2>2
<1>6. WalkOK(v, p)
  BY <1>2, <1>5 DEF WalkOK
<1>7. From(v, n + 2) = e.to
  <2>1. n + 2 # 1 /\ (n + 2) - 1 = n + 1
    BY <1>1
  <2> QED BY <1>2, <2>1 DEF From
<1> QED BY <1>2, <1>6, <1>7 DEF n, v

\* Where the items that are open hold the entries of a directory.
Holds(e, d)  == e.kind = "directory" /\ e.to = d
UsesOf(s, d) == Cardinality({k \in DOMAIN s : Holds(s[k], d)})

LEMMA UsesOfIs ==
    ASSUME NEW s \in Seq(Entries), NEW d
    PROVE  /\ UsesOf(s, d) \in Nat
           /\ \A e \in Entries : UsesOf(Append(s, e), d)
                                   = UsesOf(s, d) + (IF Holds(e, d) THEN 1 ELSE 0)
<1> DEFINE n == Len(s)
           U == {k \in 1 .. n : Holds(s[k], d)}
<1>1. n \in Nat /\ DOMAIN s = 1 .. n
  OBVIOUS
<1>2. UsesOf(s, d) = Cardinality(U)
  BY <1>1 DEF UsesOf
<1>3. IsFiniteSet(U) /\ n + 1 \notin U
  <2>1. IsFiniteSet(1 .. n)
    <3>1. 1 \in Int /\ n \in Int
      BY <1>1
    <3> HIDE DEF n
    <3> QED BY <3>1, FS_Interval
  <2>2. U \in SUBSET (1 .. n)
    OBVIOUS
  <2>3. IsFiniteSet(U)
    BY <2>1, <2>2, FS_Subset
  <2>4. n + 1 \notin 1 .. n
    BY <1>1
  <2> QED BY <2>2, <2>3, <2>4
<1> HIDE DEF n
<1>4. Cardinality(U) \in Nat
  BY <1>3, FS_CardinalityType
<1>5. ASSUME NEW e \in Entries
      PROVE  UsesOf(Append(s, e), d) = Cardinality(U) + (IF Holds(e, d) THEN 1 ELSE 0)
  <2> DEFINE v == Append(s, e)
  <2>1. /\ DOMAIN v = 1 .. (n + 1) /\ v[n + 1] = e
        /\ \A i \in 1 .. n : v[i] = s[i]
    BY <1>1 DEF n
  <2> HIDE DEF v
  <2> DEFINE V == {k \in 1 .. (n + 1) : Holds(v[k], d)}
  <2>2. UsesOf(v, d) = Cardinality(V)
    BY <2>1 DEF UsesOf
  <2>3. \A k \in 1 .. (n + 1) : k \in 1 .. n \/ k = n + 1
    BY <1>1
  <2>4. \A k \in 1 .. n : k \in 1 .. (n + 1)
    BY <1>1
  <2>5. n + 1 \in 1 .. (n + 1)
    BY <1>1
  <2>6. CASE Holds(e, d)
    <3>1. V = U \cup {n + 1}
      BY <2>1, <2>3, <2>4, <2>5, <2>6
    <3> HIDE DEF U, V
    <3>2. Cardinality(U \cup {n + 1}) = Cardinality(U) + 1
      <4> DEFINE x == n + 1
      <4>1. x \notin U
        BY <1>3
      <4> HIDE DEF x
      <4>2. Cardinality(U \cup {x}) = Cardinality(U) + 1
        BY <1>3, <4>1, FS_AddElement
      <4> QED BY <4>2 DEF x
    <3> QED BY <2>2, <2>6, <3>1, <3>2 DEF v
  <2>7. CASE ~ Holds(e, d)
    <3>1. V = U
      BY <2>1, <2>3, <2>4, <2>5, <2>7
    <3> HIDE DEF U, V
    <3>2. UsesOf(v, d) = Cardinality(U) + 0
      BY <1>4, <2>2, <3>1
    <3> QED BY <2>7, <3>2 DEF v
  <2> QED BY <2>6, <2>7
<1> QED BY <1>2, <1>4, <1>5

\* The item that is closed is the one that was opened last.
LEMMA FrontIs ==
    ASSUME NEW s \in Seq(Entries), s # << >>
    PROVE  /\ Front(s) \in Seq(Entries) /\ Len(Front(s)) = Len(s) - 1 /\ Len(s) - 1 \in Nat
           /\ Last(s) \in Entries /\ Last(s) = s[Len(s)]
           /\ s = Append(Front(s), Last(s))
<1> DEFINE n == Len(s)
           u == SubSeq(s, 1, n - 1)
<1>1. n \in Nat /\ n >= 1 /\ s[n] \in Entries
  <2>1. n \in Nat /\ n # 0
    OBVIOUS
  <2> HIDE DEF n
  <2>2. n >= 1 /\ n \in 1 .. n
    BY <2>1
  <2> QED BY <2>1, <2>2 DEF n
<1>2. Last(s) = s[n] /\ Front(s) = u
  BY DEF Last, Front
<1> DEFINE m == n - 1
<1>3. m \in Nat /\ m + 1 = n /\ 1 <= m + 1 /\ m <= Len(s) /\ 1 >= 1 /\ m - 1 + 1 = m
  BY <1>1
<1> HIDE DEF m
<1> DEFINE w == SubSeq(s, 1, m)
<1>4. /\ w \in Seq(Entries) /\ Len(w) = m - 1 + 1
      /\ \A k \in 1 .. (m - 1 + 1) : w[k] = s[1 + k - 1]
  BY <1>3, SubIs
<1> HIDE DEF w
<1>5. w \in Seq(Entries) /\ Len(w) = m /\ \A k \in 1 .. m : w[k] = s[k]
  <2>1. \A k \in 1 .. m : 1 + k - 1 = k
    BY <1>3
  <2> QED BY <1>3, <1>4, <2>1
<1> DEFINE e == s[n]
           v == Append(w, e)
<1>6. /\ v \in Seq(Entries) /\ Len(v) = m + 1 /\ v[m + 1] = e
      /\ \A k \in 1 .. m : v[k] = w[k]
  <2> HIDE DEF e
  <2> QED BY <1>1, <1>5 DEF e
<1> HIDE DEF v
<1>7. Len(v) = Len(s) /\ \A k \in 1 .. Len(v) : v[k] = s[k]
  <2>1. Len(s) = m + 1
    BY <1>3
  <2> HIDE DEF n
  <2>2. ASSUME NEW k \in 1 .. (m + 1) PROVE v[k] = s[k]
    <3>1. k \in 1 .. m \/ k = m + 1
      BY <1>3
    <3> QED BY <1>3, <1>5, <1>6, <3>1
  <2> QED BY <1>6, <2>1, <2>2
<1>8. v = s
  BY <1>6, <1>7, SameSeq
<1>9. u = w
  BY DEF w, m
<1> HIDE DEF u, n, e
<1> QED BY <1>1, <1>2, <1>3, <1>5, <1>8, <1>9 DEF v, e, n, m

----------------------------------------------------------------------------
(* The invariant of the searches.                                          *)

SearchOK ==
    /\ search.dir \in Dirs \cup {NoDir}
    /\ search.dir # NoDir =>
         /\ search.name \in Seq(Chars) /\ search.tail \in Seq(Chars)
         /\ search.slot = Match(search.dir, Upper(search.name) \o search.tail)

\* The parts that are left follow those that were walked, and the directory is
\* the one the walk has come to.
PartsOK ==
    /\ IsString(path) /\ parts \in Seq(Seq(Chars)) /\ dir \in Dirs \cup {NoDir}
    /\ dir = NoDir <=> parts = << >>
    /\ dir # NoDir =>
         /\ Len(walk) + Len(parts) = Len(Parse(path))
         /\ \A k \in 1 .. Len(parts) : parts[k] = Parse(path)[Len(walk) + k]
         /\ dir = From(walk, Len(walk) + 1)
         /\ Len(opened) < MaxOpen
    /\ dir = NoDir /\ walk # << >> => Len(walk) = Len(Parse(path))

OpenedOK == /\ opened \in Seq(Entries) /\ Len(opened) <= MaxOpen
            /\ leading \in BOOLEAN /\ (leading => opened # << >>) /\ freed \in BOOLEAN

HeldBySearch(d) == IF d = dir THEN 1 ELSE 0
HeldOK == /\ held \in [Dirs -> Int]
          /\ held[Root] = 0
          /\ \A d \in Dirs \ {Root} : held[d] = UsesOf(opened, d) + HeldBySearch(d)

DirInv == SearchOK /\ PartsOK /\ WalkOK(walk, Parse(path)) /\ OpenedOK /\ HeldOK

LEMMA DirInit == Init => DirInv
<1> SUFFICES ASSUME Init PROVE DirInv
  OBVIOUS
<1> USE DEF Init
<1>1. SearchOK
  BY DEF SearchOK, NoSearch
<1>2. PartsOK
  <2>1. IsString(path)
    BY DEF IsString, ToSet
  <2>2. parts \in Seq(Seq(Chars)) /\ dir \in Dirs \cup {NoDir}
    OBVIOUS
  <2> QED BY <2>1, <2>2 DEF PartsOK
<1>3. WalkOK(walk, Parse(path))
  BY DEF WalkOK
<1>4. OpenedOK
  <2>1. 0 <= MaxOpen
    BY VolumeAssumption
  <2> DEFINE T == Entries
  <2> HIDE DEF T
  <2>2. << >> \in Seq(T) /\ Len(<< >>) = 0
    OBVIOUS
  <2>3. opened \in Seq(T) /\ Len(opened) = 0 /\ leading = FALSE /\ freed = FALSE
    BY <2>2
  <2> QED BY <2>1, <2>3 DEF OpenedOK, T
<1>5. HeldOK
  <2>1. Root \in Dirs /\ NoDir \notin Dirs
    BY VolumeAssumption
  <2>2. \A d : UsesOf(opened, d) = 0
    <3>1. ASSUME NEW d PROVE UsesOf(opened, d) = 0
      <4>1. {k \in DOMAIN opened : Holds(opened[k], d)} = {}
        OBVIOUS
      <4> QED BY <4>1, FS_EmptySet DEF UsesOf
    <3> QED BY <3>1
  <2>3. \A d \in Dirs : HeldBySearch(d) = 0 /\ held[d] = 0
    BY <2>1 DEF HeldBySearch
  <2>4. held \in [Dirs -> Int]
    OBVIOUS
  <2> QED BY <2>1, <2>2, <2>3, <2>4 DEF HeldOK
<1> QED BY <1>1, <1>2, <1>3, <1>4, <1>5 DEF DirInv

\* What is sought, and what is found for it.
LEMMA HitIs ==
    ASSUME DirInv, NEW name \in Stale \cup ToSet(parts), NEW tail \in Leftovers,
           Searched(name, tail)
    PROVE  /\ SearchOK' /\ dir \in Dirs /\ parts # << >>
           /\ search'.slot # 0 =>
                /\ Hit \in Entries /\ EntryOK(Hit) /\ Hit \in ToSet(Slots[dir])
                /\ Leads(Parse(path), Len(walk) + 1, Hit)
<1>1. /\ dir \in Dirs /\ parts # << >> /\ parts \in Seq(Seq(Chars))
      /\ name \in (IF Head(parts) = Unset THEN Stale ELSE {Head(parts)})
      /\ search' = [dir |-> dir, name |-> name, tail |-> tail,
                    slot |-> Match(dir, Upper(name) \o tail)]
  BY DEF DirInv, PartsOK, Searched
<1>2. Head(parts) = Parse(path)[Len(walk) + 1] /\ Head(parts) \in Seq(Chars)
  <2>1. Len(parts) \in Nat /\ Len(parts) # 0 /\ Head(parts) = parts[1]
    BY <1>1
  <2> DEFINE n == Len(parts)
  <2>a. n \in Nat /\ n # 0
    BY <2>1
  <2> HIDE DEF n
  <2>b. 1 \in 1 .. n
    BY <2>a
  <2>2. 1 \in 1 .. Len(parts)
    BY <2>b DEF n
  <2>3. parts[1] \in Seq(Chars)
    BY <1>1, <2>2
  <2>4. \A k \in 1 .. Len(parts) : parts[k] = Parse(path)[Len(walk) + k]
    BY <1>1, VolumeAssumption DEF DirInv, PartsOK
  <2> QED BY <2>1, <2>2, <2>3, <2>4
<1>3. name \in Seq(Chars) /\ tail \in Seq(Chars) /\ Upper(name) \in Seq(Chars)
  <2>1. \A p \in Stale \cup Leftovers : p \in Seq(Chars)
    BY TextAssumption DEF IsString
  <2>2. name \in Seq(Chars)
    BY <1>1, <1>2, <2>1
  <2> QED BY <2>1, <2>2, UpperIs
<1>4. SearchOK'
  BY <1>1, <1>3 DEF SearchOK
<1> DEFINE sought == Upper(name) \o tail
<1>5. ASSUME search'.slot # 0
      PROVE  /\ Hit \in Entries /\ EntryOK(Hit) /\ Hit \in ToSet(Slots[dir])
             /\ FullName(Hit) = sought
  <2>1. search'.slot = Match(dir, sought)
    BY <1>1
  <2> HIDE DEF sought
  <2>2. search'.slot \in Live(dir) /\ FullName(Slots[dir][search'.slot]) = sought
    BY <1>1, <1>5, <2>1, MatchFinds
  <2> QED BY <1>1, <2>2, EntriesAre DEF Hit
<1>6. ASSUME search'.slot # 0 PROVE Leads(Parse(path), Len(walk) + 1, Hit)
  <2>1. CASE Head(parts) = Unset
    BY <1>2, <2>1 DEF Leads
  <2>2. CASE Head(parts) # Unset
    <3>1. name = Parse(path)[Len(walk) + 1]
      BY <1>1, <1>2, <2>2
    <3>2. IsPrefix(Upper(name), sought)
      BY <1>3, PrefixOfConcat
    <3> HIDE DEF sought
    <3> QED BY <1>5, <1>6, <3>1, <3>2 DEF Leads
  <2> QED BY <2>1, <2>2
<1> QED BY <1>1, <1>4, <1>5, <1>6

\* What load_directory and free do to the count of each directory.
LEMMA SwappedIs ==
    ASSUME HeldOK, NEW a \in Dirs \cup {NoDir}, NEW b \in Dirs \cup {NoDir}
    PROVE  /\ Swapped(a, b) \in [Dirs -> Int] /\ Swapped(a, b)[Root] = 0
           /\ \A d \in Dirs \ {Root} :
                Swapped(a, b)[d] = held[d] + (IF d = a THEN 1 ELSE 0) - (IF d = b THEN 1 ELSE 0)
<1> DEFINE C(x, d) == IF d = x THEN 1 ELSE 0
<1>1. \A x \in Dirs \cup {NoDir} : \A d \in Dirs \ {Root} : Counted(x)[d] = C(x, d)
  <2>1. ASSUME NEW x \in Dirs \cup {NoDir}, NEW d \in Dirs \ {Root}
        PROVE  Counted(x)[d] = C(x, d)
    <3>1. CASE x \in Dirs \ {Root}
      BY <3>1 DEF Counted
    <3>2. CASE x \notin Dirs \ {Root}
      BY <3>2 DEF Counted
    <3> QED BY <3>1, <3>2
  <2> QED BY <2>1
<1>2. \A x \in Dirs \cup {NoDir} : Counted(x)[Root] = 0
  <2>1. ASSUME NEW x \in Dirs \cup {NoDir} PROVE Counted(x)[Root] = 0
    <3>1. Root \in Dirs
      BY VolumeAssumption
    <3>2. CASE x \in Dirs \ {Root}
      BY <3>1, <3>2 DEF Counted
    <3>3. CASE x \notin Dirs \ {Root}
      BY <3>1, <3>3 DEF Counted
    <3> QED BY <3>2, <3>3
  <2> QED BY <2>1
<1>3. \A d \in Dirs : Swapped(a, b)[d] = held[d] + Counted(a)[d] - Counted(b)[d]
  BY DEF Swapped
<1>4. Swapped(a, b) = [d \in Dirs |-> held[d] + Counted(a)[d] - Counted(b)[d]]
  BY DEF Swapped
<1>5. \A x \in Dirs \cup {NoDir} : \A d \in Dirs : Counted(x)[d] \in Int
  <2>1. ASSUME NEW x \in Dirs \cup {NoDir}, NEW d \in Dirs PROVE Counted(x)[d] \in Int
    <3>1. CASE d = Root
      BY <1>2, <3>1
    <3>2. CASE d # Root
      BY <1>1, <3>2
    <3> QED BY <3>1, <3>2
  <2> QED BY <2>1
<1> DEFINE w == Swapped(a, b)
<1> HIDE DEF w
<1>6. ASSUME NEW d \in Dirs PROVE held[d] + Counted(a)[d] - Counted(b)[d] \in Int
  <2>1. held[d] \in Int /\ Counted(a)[d] \in Int /\ Counted(b)[d] \in Int
    BY <1>5 DEF HeldOK
  <2> QED BY <2>1
<1>7. w \in [Dirs -> Int]
  BY <1>4, <1>6 DEF w
<1>8. w[Root] = 0
  <2>1. Root \in Dirs /\ held[Root] = 0 /\ Counted(a)[Root] = 0 /\ Counted(b)[Root] = 0
    BY <1>2, VolumeAssumption DEF HeldOK
  <2>2. w[Root] = held[Root] + Counted(a)[Root] - Counted(b)[Root]
    BY <1>3, <2>1 DEF w
  <2> QED BY <2>1, <2>2
<1>9. \A d \in Dirs \ {Root} : w[d] = held[d] + C(a, d) - C(b, d)
  BY <1>1, <1>3 DEF w
<1> QED BY <1>7, <1>8, <1>9 DEF w

LEMMA HeldStep ==
    ASSUME HeldOK, NEW a \in Dirs \cup {NoDir}, NEW b \in Dirs \cup {NoDir},
           held' = Swapped(a, b), opened \in Seq(Entries),
           \A d \in Dirs \ {Root} :
             UsesOf(opened', d) + HeldBySearch(d)' = UsesOf(opened, d) + HeldBySearch(d)
                                               + (IF d = a THEN 1 ELSE 0) - (IF d = b THEN 1 ELSE 0)
    PROVE  HeldOK'
<1> DEFINE w == Swapped(a, b)
<1>1. /\ w \in [Dirs -> Int] /\ w[Root] = 0
      /\ \A d \in Dirs \ {Root} :
           w[d] = held[d] + (IF d = a THEN 1 ELSE 0) - (IF d = b THEN 1 ELSE 0)
  BY SwappedIs
<1> HIDE DEF w
<1>2. held' = w
  BY DEF w
<1>3. ASSUME NEW d \in Dirs \ {Root} PROVE w[d] = UsesOf(opened', d) + HeldBySearch(d)'
  <2>1. held[d] = UsesOf(opened, d) + HeldBySearch(d)
    BY DEF HeldOK
  <2>2. w[d] = held[d] + (IF d = a THEN 1 ELSE 0) - (IF d = b THEN 1 ELSE 0)
    BY <1>1
  <2>3. UsesOf(opened', d) + HeldBySearch(d)' = UsesOf(opened, d) + HeldBySearch(d)
                                          + (IF d = a THEN 1 ELSE 0) - (IF d = b THEN 1 ELSE 0)
    OBVIOUS
  <2> QED BY <2>1, <2>2, <2>3
<1>4. (\A d \in Dirs \ {Root} : held[d] = UsesOf(opened, d) + HeldBySearch(d))'
  BY <1>2, <1>3
<1> QED BY <1>1, <1>2, <1>4 DEF HeldOK

LEMMA DirsAre == Root \in Dirs /\ NoDir \notin Dirs
BY VolumeAssumption

LEMMA MissKeeps ==
    ASSUME DirInv, NEW name \in Stale \cup ToSet(parts), NEW tail \in Leftovers,
           Miss(name, tail)
    PROVE  DirInv'
<1>1. /\ Searched(name, tail) /\ held' = Swapped(NoDir, dir)
      /\ dir' = NoDir /\ parts' = << >> /\ walk' = << >>
      /\ path' = path /\ opened' = opened /\ leading' = leading /\ freed' = freed
  BY DEF Miss
<1>2. SearchOK' /\ dir \in Dirs
  BY <1>1, HitIs
<1>3. PartsOK'
  <2>1. IsString(path) /\ << >> \in Seq(Seq(Chars))
    BY DEF DirInv, PartsOK
  <2> QED BY <1>1, <2>1 DEF PartsOK
<1>4. WalkOK(walk', Parse(path'))
  BY <1>1 DEF WalkOK
<1>5. OpenedOK'
  BY <1>1 DEF DirInv, OpenedOK
<1>6. HeldOK'
  <2>1. HeldOK /\ opened \in Seq(Entries)
    BY DEF DirInv, OpenedOK
  <2>2. ASSUME NEW d \in Dirs \ {Root}
        PROVE  UsesOf(opened', d) + HeldBySearch(d)' = UsesOf(opened, d) + HeldBySearch(d)
                  + (IF d = NoDir THEN 1 ELSE 0) - (IF d = dir THEN 1 ELSE 0)
    <3>1. UsesOf(opened', d) = UsesOf(opened, d) /\ UsesOf(opened, d) \in Nat
      BY <1>1, <2>1, UsesOfIs
    <3>2. d # NoDir /\ HeldBySearch(d)' = 0 /\ HeldBySearch(d) = IF d = dir THEN 1 ELSE 0
      BY <1>1, DirsAre DEF HeldBySearch
    <3> QED BY <3>1, <3>2
  <2> QED BY <1>1, <1>2, <2>1, <2>2, HeldStep
<1> QED BY <1>2, <1>3, <1>4, <1>5, <1>6 DEF DirInv

\* The parts that are left, one fewer.
LEMMA TailIs ==
    ASSUME NEW T, NEW s \in Seq(T), s # << >>
    PROVE  /\ Tail(s) \in Seq(T) /\ Len(Tail(s)) = Len(s) - 1 /\ Len(s) - 1 \in Nat
           /\ \A k \in 1 .. (Len(s) - 1) : Tail(s)[k] = s[k + 1]
<1> DEFINE n == Len(s)
<1>1. n \in Nat /\ n # 0
  OBVIOUS
<1>2. Tail(s) \in Seq(T) /\ Len(Tail(s)) = n - 1
  OBVIOUS
<1>3. \A k \in 1 .. (n - 1) : Tail(s)[k] = s[k + 1]
  OBVIOUS
<1> HIDE DEF n
<1>4. n - 1 \in Nat
  BY <1>1
<1> QED BY <1>2, <1>3, <1>4 DEF n

LEMMA DescendKeeps ==
    ASSUME DirInv, NEW name \in Stale \cup ToSet(parts), NEW tail \in Leftovers,
           Descend(name, tail)
    PROVE  DirInv'
<1>1. /\ Searched(name, tail) /\ search'.slot # 0 /\ Hit.kind = "directory" /\ Len(parts) > 1
      /\ held' = Swapped(Hit.to, dir)
      /\ dir' = Hit.to /\ parts' = Tail(parts) /\ walk' = Append(walk, Hit)
      /\ path' = path /\ opened' = opened /\ leading' = leading /\ freed' = freed
  BY DEF Descend
<1> DEFINE e == Hit
<1>2. /\ SearchOK' /\ dir \in Dirs /\ e \in Entries /\ EntryOK(e) /\ e \in ToSet(Slots[dir])
      /\ Leads(Parse(path), Len(walk) + 1, e)
  BY <1>1, HitIs
<1>3. e.to \in Dirs /\ e.to # NoDir
  BY <1>1, <1>2, DirsAre DEF EntryOK
<1> HIDE DEF e
<1>4. /\ held' = Swapped(e.to, dir) /\ dir' = e.to /\ walk' = Append(walk, e)
  BY <1>1 DEF e
<1>5. /\ dir # NoDir /\ WalkOK(walk, Parse(path)) /\ dir = From(walk, Len(walk) + 1)
      /\ IsString(path) /\ parts \in Seq(Seq(Chars)) /\ parts # << >> /\ Len(opened) < MaxOpen
      /\ Len(walk) + Len(parts) = Len(Parse(path))
      /\ \A k \in 1 .. Len(parts) : parts[k] = Parse(path)[Len(walk) + k]
      /\ walk \in Seq(Entries) /\ opened \in Seq(Entries) /\ HeldOK /\ OpenedOK
  BY <1>2, DirsAre DEF DirInv, PartsOK, WalkOK, OpenedOK
<1>6. /\ WalkOK(walk', Parse(path)) /\ Len(walk') = Len(walk) + 1
      /\ From(walk', Len(walk) + 2) = e.to
  BY <1>2, <1>4, <1>5, WalkOn
<1>7. /\ parts' \in Seq(Seq(Chars)) /\ Len(parts') = Len(parts) - 1
      /\ \A k \in 1 .. (Len(parts) - 1) : parts'[k] = parts[k + 1]
  BY <1>1, <1>5, TailIs
<1>8. PartsOK'
  <2> DEFINE n == Len(walk)
             m == Len(parts)
             p == Parse(path)
  <2>1. n \in Nat /\ m \in Nat /\ m > 1 /\ n + m = Len(p)
    BY <1>1, <1>5
  <2>2. /\ \A k \in 1 .. m : parts[k] = p[n + k]
        /\ Len(walk') = n + 1 /\ Len(parts') = m - 1
        /\ \A k \in 1 .. (m - 1) : parts'[k] = parts[k + 1]
        /\ From(walk', n + 2) = e.to
    BY <1>5, <1>6, <1>7
  <2> HIDE DEF n, m, p
  <2>3. Len(walk') + Len(parts') = Len(p)
    <3>1. (n + 1) + (m - 1) = n + m
      BY <2>1
    <3> QED BY <2>1, <2>2, <3>1
  <2>4. ASSUME NEW k \in 1 .. Len(parts') PROVE parts'[k] = p[Len(walk') + k]
    <3>1. k \in 1 .. (m - 1) /\ k + 1 \in 1 .. m /\ n + (k + 1) = (n + 1) + k
      BY <2>1, <2>2
    <3> QED BY <2>2, <3>1
  <2>5. dir' = From(walk', Len(walk') + 1)
    <3>1. Len(walk') + 1 = n + 2
      BY <2>1, <2>2
    <3> QED BY <1>4, <2>2, <3>1
  <2>6. parts' # << >>
    BY <2>1, <2>2
  <2> QED BY <1>1, <1>3, <1>4, <1>5, <1>7, <2>3, <2>4, <2>5, <2>6 DEF PartsOK, p
<1>9. OpenedOK'
  BY <1>1, <1>5 DEF OpenedOK
<1>10. HeldOK'
  <2>1. ASSUME NEW d \in Dirs \ {Root}
        PROVE  UsesOf(opened', d) + HeldBySearch(d)' = UsesOf(opened, d) + HeldBySearch(d)
                  + (IF d = e.to THEN 1 ELSE 0) - (IF d = dir THEN 1 ELSE 0)
    <3>1. UsesOf(opened', d) = UsesOf(opened, d) /\ UsesOf(opened, d) \in Nat
      BY <1>1, <1>5, UsesOfIs
    <3>2. /\ HeldBySearch(d)' = (IF d = e.to THEN 1 ELSE 0)
          /\ HeldBySearch(d) = IF d = dir THEN 1 ELSE 0
      BY <1>4 DEF HeldBySearch
    <3> QED BY <3>1, <3>2
  <2>2. /\ HeldOK /\ opened \in Seq(Entries) /\ held' = Swapped(e.to, dir)
        /\ e.to \in Dirs \cup {NoDir} /\ dir \in Dirs \cup {NoDir}
    BY <1>2, <1>3, <1>4, <1>5
  <2> DEFINE a == e.to
  <2> HIDE DEF a
  <2>3. /\ held' = Swapped(a, dir) /\ a \in Dirs \cup {NoDir}
        /\ \A d \in Dirs \ {Root} :
             UsesOf(opened', d) + HeldBySearch(d)' = UsesOf(opened, d) + HeldBySearch(d)
                  + (IF d = a THEN 1 ELSE 0) - (IF d = dir THEN 1 ELSE 0)
    BY <2>1, <2>2 DEF a
  <2> QED BY <2>2, <2>3, HeldStep
<1>11. WalkOK(walk', Parse(path'))
  BY <1>1, <1>6
<1> QED BY <1>2, <1>8, <1>9, <1>10, <1>11 DEF DirInv

LEMMA ArriveKeeps ==
    ASSUME DirInv, NEW name \in Stale \cup ToSet(parts), NEW tail \in Leftovers,
           Arrive(name, tail)
    PROVE  DirInv'
<1> DEFINE e == Hit
           a == IF e.kind = "directory" THEN e.to ELSE NoDir
<1>1. /\ Searched(name, tail) /\ search'.slot # 0 /\ Len(parts) = 1
      /\ held' = Swapped(a, dir)
      /\ dir' = NoDir /\ parts' = << >> /\ walk' = Append(walk, e)
      /\ opened' = Append(opened, e) /\ leading' = TRUE
      /\ path' = path /\ freed' = freed
  BY DEF Arrive
<1>2. /\ SearchOK' /\ dir \in Dirs /\ e \in Entries /\ EntryOK(e) /\ e \in ToSet(Slots[dir])
      /\ Leads(Parse(path), Len(walk) + 1, e)
  BY <1>1, HitIs
<1>3. /\ a \in Dirs \cup {NoDir}
      /\ \A d \in Dirs : Holds(e, d) <=> d = a
  BY <1>2, DirsAre DEF EntryOK, Holds
<1> HIDE DEF e, a
<1>5. /\ dir # NoDir /\ WalkOK(walk, Parse(path)) /\ dir = From(walk, Len(walk) + 1)
      /\ IsString(path) /\ Len(opened) < MaxOpen
      /\ Len(walk) + Len(parts) = Len(Parse(path))
      /\ walk \in Seq(Entries) /\ opened \in Seq(Entries) /\ HeldOK /\ OpenedOK
  BY <1>2, DirsAre DEF DirInv, PartsOK, WalkOK, OpenedOK
<1>6. /\ WalkOK(walk', Parse(path)) /\ Len(walk') = Len(walk) + 1
  BY <1>1, <1>2, <1>5, WalkOn
<1>7. PartsOK'
  <2>1. << >> \in Seq(Seq(Chars))
    OBVIOUS
  <2>2. Len(walk') = Len(Parse(path))
    BY <1>1, <1>5, <1>6
  <2> QED BY <1>1, <1>5, <2>1, <2>2 DEF PartsOK
<1>8. OpenedOK'
  <2> DEFINE n == Len(opened)
             v == Append(opened, e)
  <2>a. e \in Entries /\ opened \in Seq(Entries) /\ n \in Nat
    BY <1>2, <1>5
  <2>b. v \in Seq(Entries) /\ Len(v) = n + 1
    BY <2>a
  <2>c. v # << >>
    <3>1. n + 1 # 0
      BY <2>a
    <3> QED BY <2>b, <3>1
  <2>1. v \in Seq(Entries) /\ Len(v) = n + 1 /\ v # << >> /\ n \in Nat
    BY <2>a, <2>b, <2>c
  <2>2. n < MaxOpen /\ MaxOpen \in Nat
    BY <1>5, VolumeAssumption
  <2> HIDE DEF n, v
  <2>3. n + 1 <= MaxOpen
    BY <2>1, <2>2
  <2>4. opened' = v
    BY <1>1 DEF v
  <2>5. freed' \in BOOLEAN
    BY <1>1 DEF DirInv, OpenedOK
  <2> QED BY <1>1, <2>1, <2>3, <2>4, <2>5 DEF OpenedOK
<1>9. HeldOK'
  <2>1. ASSUME NEW d \in Dirs \ {Root}
        PROVE  UsesOf(opened', d) + HeldBySearch(d)' = UsesOf(opened, d) + HeldBySearch(d)
                  + (IF d = a THEN 1 ELSE 0) - (IF d = dir THEN 1 ELSE 0)
    <3>1. /\ UsesOf(opened', d) = UsesOf(opened, d) + (IF Holds(e, d) THEN 1 ELSE 0)
          /\ UsesOf(opened, d) \in Nat
      BY <1>1, <1>2, <1>5, UsesOfIs
    <3>2. HeldBySearch(d)' = 0 /\ HeldBySearch(d) = IF d = dir THEN 1 ELSE 0
      BY <1>1, DirsAre DEF HeldBySearch
    <3>3. Holds(e, d) <=> d = a
      BY <1>3
    <3> QED BY <3>1, <3>2, <3>3
  <2> QED BY <1>1, <1>2, <1>3, <1>5, <2>1, HeldStep
<1>10. WalkOK(walk', Parse(path'))
  BY <1>1, <1>6
<1> QED BY <1>2, <1>7, <1>8, <1>9, <1>10 DEF DirInv

LEMMA FopenKeeps ==
    ASSUME DirInv, NEW p, IsString(p), Fopen(p)
    PROVE  DirInv'
<1>1. /\ dir = NoDir /\ Len(opened) < MaxOpen
      /\ path' = p /\ parts' = Parse(p) /\ dir' = Root /\ walk' = << >> /\ search' = NoSearch
      /\ held' = held /\ opened' = opened /\ leading' = leading /\ freed' = freed
  BY DEF Fopen
<1>2. SearchOK'
  BY <1>1 DEF SearchOK, NoSearch
<1>3. PartsOK'
  <2> DEFINE q == Parse(p)
             n == Len(q)
  <2>1. q \in Seq(Seq(Chars)) /\ n \in Nat /\ n >= 1
    BY ParseIs DEF IsString
  <2>2. parts' = q /\ Parse(path') = q
    BY <1>1
  <2>3. Len(walk') = 0
    BY <1>1
  <2> HIDE DEF q
  <2>4. Len(walk') + Len(parts') = Len(q)
    BY <2>1, <2>2, <2>3
  <2>5. ASSUME NEW k \in 1 .. Len(parts') PROVE parts'[k] = q[Len(walk') + k]
    <3>1. Len(walk') + k = k
      BY <2>3
    <3> QED BY <2>2, <3>1
  <2>6. From(walk', Len(walk') + 1) = Root
    BY <2>3 DEF From
  <2>7. q # << >>
    BY <2>1
  <2> QED BY <1>1, <2>1, <2>2, <2>4, <2>5, <2>6, <2>7, DirsAre DEF PartsOK
<1>4. WalkOK(walk', Parse(path'))
  BY <1>1 DEF WalkOK
<1>5. OpenedOK'
  BY <1>1 DEF DirInv, OpenedOK
<1>6. HeldOK'
  <2>1. \A d \in Dirs \ {Root} : HeldBySearch(d)' = 0 /\ HeldBySearch(d) = 0
    BY <1>1, DirsAre DEF HeldBySearch
  <2>2. HeldOK
    BY DEF DirInv
  <2>3. (\A d \in Dirs \ {Root} : held[d] = UsesOf(opened, d) + HeldBySearch(d))'
    BY <1>1, <2>1, <2>2 DEF HeldOK
  <2> QED BY <1>1, <2>2, <2>3 DEF HeldOK
<1> QED BY <1>2, <1>3, <1>4, <1>5, <1>6 DEF DirInv

LEMMA FopenRefusedKeeps ==
    ASSUME DirInv, FopenRefused
    PROVE  DirInv'
<1>1. /\ dir = NoDir /\ dir' = dir
      /\ path' = << >> /\ parts' = << >> /\ walk' = << >> /\ search' = NoSearch
      /\ held' = held /\ opened' = opened /\ leading' = leading /\ freed' = freed
  BY DEF FopenRefused
<1>2. SearchOK'
  BY <1>1 DEF SearchOK, NoSearch
<1>3. PartsOK'
  <2>1. IsString(<< >>)
    BY DEF IsString, ToSet
  <2>2. << >> \in Seq(Seq(Chars))
    OBVIOUS
  <2> QED BY <1>1, <2>1, <2>2 DEF PartsOK
<1>4. WalkOK(walk', Parse(path'))
  BY <1>1 DEF WalkOK
<1>5. OpenedOK' /\ HeldOK'
  BY <1>1 DEF DirInv, OpenedOK, HeldOK, HeldBySearch
<1> QED BY <1>2, <1>3, <1>4, <1>5 DEF DirInv

LEMMA FcloseKeeps ==
    ASSUME DirInv, Fclose
    PROVE  DirInv'
<1> DEFINE e == Last(opened)
           b == IF e.kind = "directory" THEN e.to ELSE NoDir
           s == Front(opened)
<1>1. /\ dir = NoDir /\ leading /\ opened' = s /\ leading' = FALSE /\ freed' = freed
      /\ held' = Swapped(NoDir, b)
      /\ path' = path /\ parts' = parts /\ dir' = dir /\ walk' = walk /\ search' = search
  BY DEF Fclose
<1>2. /\ opened \in Seq(Entries) /\ opened # << >> /\ Len(opened) <= MaxOpen /\ HeldOK
      /\ freed \in BOOLEAN
      /\ MaxOpen \in Nat
  BY <1>1, VolumeAssumption DEF DirInv, OpenedOK
<1>3. /\ s \in Seq(Entries) /\ Len(s) = Len(opened) - 1 /\ Len(opened) - 1 \in Nat
      /\ e \in Entries /\ opened = Append(s, e)
  BY <1>2, FrontIs
<1> HIDE DEF e, s
<1>4. /\ b \in Dirs \cup {NoDir}
      /\ \A d \in Dirs : Holds(e, d) <=> d = b
  BY <1>3, EntriesAre, DirsAre DEF EntryOK, Holds
<1> HIDE DEF b
<1>5. SearchOK' /\ PartsOK' /\ WalkOK(walk', Parse(path'))
  BY <1>1 DEF DirInv, SearchOK, PartsOK
<1>6. OpenedOK'
  <2> DEFINE n == Len(opened)
  <2>1. n <= MaxOpen /\ n - 1 \in Nat /\ Len(s) = n - 1 /\ n \in Nat
    BY <1>2, <1>3
  <2> HIDE DEF n
  <2>2. Len(s) <= MaxOpen
    BY <1>2, <2>1
  <2>3. freed' \in BOOLEAN
    BY <1>1, <1>2
  <2> QED BY <1>1, <1>3, <2>2, <2>3 DEF OpenedOK
<1>7. HeldOK'
  <2>1. ASSUME NEW d \in Dirs \ {Root}
        PROVE  UsesOf(opened', d) + HeldBySearch(d)' = UsesOf(opened, d) + HeldBySearch(d)
                  + (IF d = NoDir THEN 1 ELSE 0) - (IF d = b THEN 1 ELSE 0)
    <3>1. /\ UsesOf(opened, d) = UsesOf(s, d) + (IF Holds(e, d) THEN 1 ELSE 0)
          /\ UsesOf(s, d) \in Nat /\ UsesOf(opened', d) = UsesOf(s, d)
      BY <1>1, <1>3, UsesOfIs
    <3>2. HeldBySearch(d)' = 0 /\ HeldBySearch(d) = 0 /\ d # NoDir
      BY <1>1, DirsAre DEF HeldBySearch
    <3>3. Holds(e, d) <=> d = b
      BY <1>4
    <3> QED BY <3>1, <3>2, <3>3
  <2> QED BY <1>1, <1>2, <1>4, <2>1, HeldStep
<1> QED BY <1>5, <1>6, <1>7 DEF DirInv

\* The steps of a search and the calls of a program, whatever path it opens.
DirStep == \/ Search
           \/ \E p : IsString(p) /\ Fopen(p)
           \/ FopenRefused
           \/ Fclose
           \/ FcloseAgain
           \/ UNCHANGED vars

LEMMA DirNext == DirInv /\ DirStep => DirInv'
<1> SUFFICES ASSUME DirInv, DirStep PROVE DirInv'
  OBVIOUS
<1>1. CASE Search
  BY <1>1, MissKeeps, DescendKeeps, ArriveKeeps DEF Search
<1>2. CASE \E p : IsString(p) /\ Fopen(p)
  BY <1>2, FopenKeeps
<1>3. CASE FopenRefused
  BY <1>3, FopenRefusedKeeps
<1>4. CASE Fclose
  BY <1>4, FcloseKeeps
<1>5. CASE UNCHANGED vars
  BY <1>5 DEF vars, DirInv, SearchOK, PartsOK, OpenedOK, HeldOK, HeldBySearch
<1>6. CASE FcloseAgain
  BY <1>6 DEF FcloseAgain, DirInv, SearchOK, PartsOK, OpenedOK, HeldOK, HeldBySearch
<1> QED BY <1>1, <1>2, <1>3, <1>4, <1>5, <1>6 DEF DirStep

LEMMA DirTypes == DirInv => TypeOK
<1> SUFFICES ASSUME DirInv PROVE TypeOK
  OBVIOUS
<1>1. /\ dir \in Dirs \cup {NoDir} /\ (dir = NoDir <=> parts = << >>)
      /\ walk \in Seq(Entries)
  BY DEF DirInv, PartsOK, WalkOK
<1>2. /\ opened \in Seq(Entries) /\ Len(opened) <= MaxOpen /\ leading \in BOOLEAN
      /\ freed \in BOOLEAN
  BY DEF DirInv, OpenedOK
<1>3. held \in [Dirs -> Nat]
  <2>1. held \in [Dirs -> Int] /\ Root \in Dirs /\ held[Root] = 0
    BY DirsAre DEF DirInv, HeldOK
  <2>2. ASSUME NEW d \in Dirs \ {Root} PROVE held[d] \in Nat
    <3>1. held[d] = UsesOf(opened, d) + HeldBySearch(d) /\ UsesOf(opened, d) \in Nat
      BY <1>2, UsesOfIs DEF DirInv, HeldOK
    <3>2. HeldBySearch(d) \in Nat
      BY DEF HeldBySearch
    <3> QED BY <3>1, <3>2
  <2>3. \A d \in Dirs : held[d] \in Nat
    BY <2>1, <2>2
  <2> QED BY <2>1, <2>3
<1>4. search.dir = NoDir \/ search.slot \in {0} \cup Live(search.dir)
  <2>1. CASE search.dir = NoDir
    BY <2>1
  <2>2. CASE search.dir # NoDir
    <3>1. /\ search.dir \in Dirs
          /\ search.slot = Match(search.dir, Upper(search.name) \o search.tail)
      BY <2>2 DEF DirInv, SearchOK
    <3> QED BY <3>1, MatchFinds
  <2> QED BY <2>1, <2>2
<1> QED BY <1>1, <1>2, <1>3, <1>4 DEF TypeOK

LEMMA DirHolds == DirInv => HoldsWhatItUses
<1> SUFFICES ASSUME DirInv, NEW d \in Dirs \ {Root}
             PROVE  held[d] = Uses(d) + (IF dir = d THEN 1 ELSE 0)
  BY DEF HoldsWhatItUses
<1>1. held[d] = UsesOf(opened, d) + HeldBySearch(d)
  BY DEF DirInv, HeldOK
<1>2. UsesOf(opened, d) = Uses(d)
  BY DEF UsesOf, Uses, Holds
<1>3. HeldBySearch(d) = IF dir = d THEN 1 ELSE 0
  BY DEF HeldBySearch
<1> QED BY <1>1, <1>2, <1>3

LEMMA DirFinds == DirInv => FindsExactly
<1> SUFFICES ASSUME DirInv, search.dir # NoDir, search.tail = << >>,
                    NEW i \in Live(search.dir), Plain(Slots[search.dir][i])
             PROVE  search.slot = i <=> /\ ShortName(Slots[search.dir][i]) = Upper(search.name)
                                        /\ i <= ItemsCount(search.dir)
  BY DEF FindsExactly
<1>1. /\ search.dir \in Dirs /\ search.name \in Seq(Chars)
      /\ search.slot = Match(search.dir, Upper(search.name) \o search.tail)
  BY DEF DirInv, SearchOK
<1>2. Upper(search.name) \o search.tail = Upper(search.name)
  <2> DEFINE u == Upper(search.name)
  <2>1. u \in Seq(Chars)
    BY <1>1, UpperIs
  <2> HIDE DEF u
  <2>2. u \o << >> = u
    BY <2>1
  <2> QED BY <2>2 DEF u
<1>3. search.slot = Match(search.dir, Upper(search.name))
  BY <1>1, <1>2
<1> QED BY <1>1, <1>3, MatchIs

\* A name that begins with what was sought shows that no slash was sought.
LEMMA SoughtIs ==
    ASSUME NEW q \in Seq(Chars), NEW f, Lettered(f), IsPrefix(Upper(q), f)
    PROVE  ~ HasSlash(q)
<1> DEFINE u == Upper(q)
           n == Len(u)
<1>1. /\ u \in Seq(Chars) /\ n \in Nat /\ n = Len(q)
      /\ \A k \in 1 .. n : u[k] = Slash <=> q[k] = Slash
  BY UpperIs
<1>2. /\ f \in Seq(Chars) /\ \A k \in 1 .. Len(f) : f[k] # Slash
  BY DEF Lettered
<1> HIDE DEF u
<1>3. n <= Len(f) /\ SubSeq(u, 1, n) = SubSeq(f, 1, n)
  BY DEF IsPrefix, u
<1> HIDE DEF n
<1>4. 1 \in Nat /\ 1 <= n + 1 /\ 1 >= 1 /\ n - 1 + 1 = n /\ n <= Len(u)
  BY <1>1 DEF n
<1> DEFINE a == SubSeq(u, 1, n)
           b == SubSeq(f, 1, n)
<1>5. \A k \in 1 .. (n - 1 + 1) : a[k] = u[1 + k - 1]
  BY <1>1, <1>4, SubIs
<1>6. \A k \in 1 .. (n - 1 + 1) : b[k] = f[1 + k - 1]
  BY <1>1, <1>2, <1>3, <1>4, SubIs
<1>7. a = b
  BY <1>3
<1> HIDE DEF a, b
<1>8. ASSUME NEW k \in 1 .. n PROVE q[k] # Slash
  <2>1. k \in 1 .. (n - 1 + 1) /\ 1 + k - 1 = k /\ k \in 1 .. Len(f)
    BY <1>1, <1>2, <1>3, <1>4
  <2>2. u[k] = f[k]
    BY <1>5, <1>6, <1>7, <2>1
  <2> QED BY <1>1, <1>2, <2>1, <2>2
<1> QED BY <1>1, <1>8 DEF HasSlash

LEMMA DirOpens ==
    DirInv => /\ OpensWhatIsNamed
              /\ dir = NoDir /\ walk # << >> => DOMAIN Names(path) = DOMAIN walk
<1> SUFFICES ASSUME DirInv, dir = NoDir, walk # << >>
             PROVE  /\ Len(walk) = Len(Names(path)) /\ DOMAIN Names(path) = DOMAIN walk
                    /\ \A i \in DOMAIN walk :
                         /\ IsPrefix(Upper(Names(path)[i]), FullName(walk[i]))
                         /\ walk[i] \in ToSet(Slots[IF i = 1 THEN Root ELSE walk[i - 1].to])
  BY DEF OpensWhatIsNamed
<1> DEFINE p == Parse(path)
           q == Names(path)
           n == Len(walk)
<1>1. /\ walk \in Seq(Entries) /\ DOMAIN walk = 1 .. n /\ IsString(path) /\ n = Len(p)
      /\ \A i \in 1 .. n : /\ Leads(p, i, walk[i])
                           /\ walk[i] \in ToSet(Slots[From(walk, i)])
                           /\ walk[i] \in Entries
  BY DEF DirInv, PartsOK, WalkOK
<1>2. p \in Seq(Seq(Chars))
  BY <1>1, ParseIs DEF IsString
<1> HIDE DEF p, q, n
<1>3. ASSUME NEW i \in 1 .. n PROVE p[i] = Unset \/ ~ HasSlash(p[i])
  <2>1. p[i] \in Seq(Chars)
    BY <1>1, <1>2
  <2>2. EntryOK(walk[i])
    BY <1>1, EntriesAre
  <2>3. Lettered(FullName(walk[i]))
    BY <2>2, FullNameChars
  <2>4. p[i] = Unset \/ IsPrefix(Upper(p[i]), FullName(walk[i]))
    BY <1>1 DEF Leads
  <2> QED BY <2>1, <2>3, <2>4, SoughtIs
<1>4. Cuts(path) = Slashes(path)
  BY <1>1, <1>3, CutsAreSlashes DEF p
<1>5. /\ Len(q) = n /\ DOMAIN q = 1 .. n
      /\ \A i \in 1 .. n : p[i] = q[i] \/ (p[i] = Unset /\ q[i] = << >>)
  BY <1>1, <1>4, NamesAre DEF p, q
<1>6. ASSUME NEW i \in 1 .. n PROVE IsPrefix(Upper(q[i]), FullName(walk[i]))
  <2>1. FullName(walk[i]) \in Seq(Chars)
    BY <1>1, EntriesAre, FullNameChars DEF Lettered
  <2>2. IsPrefix(<< >>, FullName(walk[i]))
    <3> DEFINE f == FullName(walk[i])
    <3> HIDE DEF f
    <3>1. << >> \in Seq(Chars) /\ f \in Seq(Chars)
      BY <2>1 DEF f
    <3>2. IsPrefix(<< >>, << >> \o f)
      BY <3>1, PrefixOfConcat
    <3>3. << >> \o f = f
      BY <3>1
    <3> QED BY <3>2, <3>3 DEF f
  <2>3. CASE q[i] = << >>
    <3>1. Upper(<< >>) = << >>
      BY DEF Upper
    <3> QED BY <2>2, <2>3, <3>1
  <2>4. CASE q[i] # << >> /\ p[i] # Unset
    BY <1>1, <1>5, <2>4 DEF Leads
  <2>5. CASE q[i] # << >> /\ p[i] = Unset
    <3>1. q[i] = Unset
      BY <1>5, <2>5
    <3>2. q[i] # Unset
      BY <1>1, <1>4, <1>5, NamesHaveNoNul DEF q
    <3> QED BY <3>1, <3>2
  <2> QED BY <2>3, <2>4, <2>5
<1> QED BY <1>1, <1>5, <1>6 DEF q, n, From

----------------------------------------------------------------------------
(* The words of a line.                                                    *)

\* Where the loop of systemcall_system leads from the k-th character on, by
\* the words of the later ones.
Body(s, w, k) ==
    IF k > Len(s) THEN << >>
    ELSE LET end == EndOfWord(s, k) IN
         <<SubSeq(s, k, end - 1)>> \o (IF end > Len(s) THEN << >> ELSE w[NextWord(s, end)])

WordsOf(s) == CHOOSE w : w = [k \in 1 .. (Len(s) + 1) |-> Body(s, w, k)]

LEMMA WordsAre == \A line : Words(line) = WordsOf(<<Drive>> \o line)[1]
BY DEF Words, WordsOf, Body

WordAt(s, k) == SubSeq(s, k, EndOfWord(s, k) - 1)

\* The words that begin at the places of a set, in their order.
WordList(s, S) == [n \in 1 .. Cardinality(S) |-> WordAt(s, InOrder(S)[n])]

LEMMA FirstFromIs ==
    ASSUME NEW s \in Seq(Chars), NEW k \in 1 .. (Len(s) + 1), NEW chars
    PROVE  /\ FirstFrom(s, k, chars) \in k .. (Len(s) + 1)
           /\ \A n \in k .. (FirstFrom(s, k, chars) - 1) : s[n] \notin chars
           /\ FirstFrom(s, k, chars) <= Len(s) => s[FirstFrom(s, k, chars)] \in chars
<1> DEFINE m == Len(s)
           at == {n \in k .. m : s[n] \in chars}
           f == FirstFrom(s, k, chars)
<1>1. m \in Nat /\ k \in Nat /\ k <= m + 1
  OBVIOUS
<1>2. f = IF at = {} THEN m + 1 ELSE Least(at)
  BY DEF FirstFrom
<1>3. at \in SUBSET Nat /\ at \in SUBSET (k .. m)
  BY <1>1
<1> HIDE DEF f, m
<1>4. CASE at = {}
  <2>1. f = m + 1
    BY <1>2, <1>4
  <2>2. \A n \in k .. (f - 1) : n \in k .. m
    BY <1>1, <2>1
  <2>3. \A n \in k .. m : s[n] \notin chars
    BY <1>4
  <2>4. f \in k .. (m + 1) /\ ~ (f <= m)
    BY <1>1, <2>1
  <2> QED BY <2>2, <2>3, <2>4 DEF f, m
<1>5. CASE at # {}
  <2>1. f \in at /\ \A n \in at : f <= n
    BY <1>2, <1>3, <1>5, LeastIs
  <2>2. f \in k .. m /\ s[f] \in chars
    BY <2>1
  <2>3. ASSUME NEW n \in k .. (f - 1) PROVE s[n] \notin chars
    <3>1. n \in k .. m /\ ~ (f <= n)
      BY <1>1, <2>2
    <3> QED BY <2>1, <3>1
  <2>4. f \in k .. (m + 1)
    BY <1>1, <2>2
  <2> QED BY <2>2, <2>3, <2>4 DEF f, m
<1> QED BY <1>4, <1>5

\* The next word begins after the end of one, and nowhere in between.
LEMMA NextWordIs ==
    ASSUME NEW s \in Seq(Chars), NEW k \in 1 .. Len(s)
    PROVE  /\ EndOfWord(s, k) \in k .. (Len(s) + 1)
           /\ EndOfWord(s, k) <= Len(s) =>
                /\ NextWord(s, EndOfWord(s, k)) \in (k + 1) .. (Len(s) + 1)
                /\ \A j \in Splits(s) : j > k => j >= NextWord(s, EndOfWord(s, k))
                /\ NextWord(s, EndOfWord(s, k)) <= Len(s)
                     => NextWord(s, EndOfWord(s, k)) \in Splits(s)
           /\ EndOfWord(s, k) > Len(s) => \A j \in Splits(s) : ~ (j > k)
<1> DEFINE m == Len(s)
           e == EndOfWord(s, k)
           f == NextWord(s, e)
<1>1. m \in Nat /\ k \in Nat /\ k \in 1 .. m /\ k \in 1 .. (m + 1)
  OBVIOUS
<1>2. /\ e \in k .. (m + 1)
      /\ \A n \in k .. (e - 1) : s[n] # Space
      /\ e <= m => s[e] = Space
  BY <1>1, FirstFromIs DEF EndOfWord
<1>3. \A j \in Splits(s) : j \in 1 .. m /\ s[j] # Space /\ (j = 1 \/ s[j - 1] = Space)
  BY DEF Splits
<1> HIDE DEF e
<1>4. ASSUME NEW j \in Splits(s), j > k, j < e PROVE FALSE
  <2>1. j - 1 \in k .. (e - 1) /\ j # 1
    BY <1>1, <1>2, <1>3, <1>4
  <2>2. s[j - 1] # Space
    BY <1>2, <2>1
  <2> QED BY <1>3, <2>1, <2>2
<1>5. ASSUME e <= m
      PROVE  /\ f \in e .. (m + 1)
             /\ \A n \in e .. (f - 1) : s[n] = Space
             /\ f <= m => s[f] # Space
  <2> DEFINE chars == ToSet(s) \ {Space}
  <2>1. e \in 1 .. (m + 1) /\ e \in Nat
    BY <1>1, <1>2
  <2>2. f = FirstFrom(s, e, chars)
    BY DEF NextWord
  <2> HIDE DEF f
  <2>3. /\ f \in e .. (m + 1)
        /\ \A n \in e .. (f - 1) : s[n] \notin chars
        /\ f <= m => s[f] \in chars
    BY <2>1, <2>2, FirstFromIs
  <2>4. ASSUME NEW n \in e .. (f - 1) PROVE s[n] = Space
    <3>1. n \in 1 .. m
      BY <1>1, <2>1, <2>3
    <3>2. s[n] \in ToSet(s)
      BY <3>1 DEF ToSet
    <3> QED BY <2>3, <3>2
  <2> QED BY <2>3, <2>4
<1> HIDE DEF f
<1>6. ASSUME e <= m
      PROVE  /\ f \in (k + 1) .. (m + 1)
             /\ \A j \in Splits(s) : j > k => j >= f
             /\ f <= m => f \in Splits(s)
  <2>1. f \in e .. (m + 1) /\ e \in Nat /\ f \in Nat /\ s[e] = Space
    BY <1>1, <1>2, <1>5, <1>6
  <2>2. f # e
    <3>1. f = e => f <= m /\ s[f] # Space
      BY <1>5, <1>6
    <3> QED BY <2>1, <3>1
  <2>3. f \in (k + 1) .. (m + 1)
    BY <1>1, <1>2, <2>1, <2>2
  <2>4. ASSUME NEW j \in Splits(s), j > k PROVE j >= f
    <3>1. j \in Nat /\ s[j] # Space
      BY <1>3
    <3>2. ~ (j < e)
      BY <1>4, <2>4
    <3>3. j < f => j \in e .. (f - 1)
      BY <2>1, <3>1, <3>2
    <3>4. ~ (j < f)
      BY <1>5, <1>6, <3>1, <3>3
    <3> QED BY <2>1, <3>1, <3>4
  <2>5. ASSUME f <= m PROVE f \in Splits(s)
    <3>1. f \in 1 .. m /\ f - 1 \in e .. (f - 1) /\ s[f] # Space
      BY <1>1, <1>2, <1>5, <1>6, <2>1, <2>2, <2>5
    <3>2. s[f - 1] = Space
      BY <1>5, <1>6, <3>1
    <3> QED BY <3>1, <3>2 DEF Splits
  <2> QED BY <2>3, <2>4, <2>5
<1>7. ASSUME e > m, NEW j \in Splits(s) PROVE ~ (j > k)
  <2>1. j \in Nat /\ j <= m
    BY <1>1, <1>3
  <2>2. j < e
    BY <1>1, <1>2, <1>7, <2>1
  <2> QED BY <1>4, <2>2
<1> HIDE DEF m
<1>8. /\ e \in k .. (m + 1)
      /\ e <= m => /\ f \in (k + 1) .. (m + 1)
                   /\ \A j \in Splits(s) : j > k => j >= f
                   /\ f <= m => f \in Splits(s)
      /\ e > m => \A j \in Splits(s) : ~ (j > k)
  BY <1>2, <1>6, <1>7
<1> QED BY <1>8 DEF e, f, m

\* A set of numbers in their order begins with the least.
LEMMA InOrderCons ==
    ASSUME NEW S \in SUBSET Nat, IsFiniteSet(S), NEW j \in S, \A y \in S : j <= y
    PROVE  /\ IsFiniteSet(S \ {j}) /\ Cardinality(S \ {j}) \in Nat
           /\ Cardinality(S) = Cardinality(S \ {j}) + 1
           /\ InOrder(S)[1] = j
           /\ \A n \in 1 .. Cardinality(S \ {j}) : InOrder(S)[n + 1] = InOrder(S \ {j})[n]
<1> DEFINE R == S \ {j}
<1>1. /\ IsFiniteSet(R) /\ R \in SUBSET Nat /\ R \in SUBSET S /\ j \notin R
      /\ Cardinality(S) \in Nat /\ j \in Nat
  BY FS_RemoveElement, FS_CardinalityType
<1>2. Cardinality(R) = Cardinality(S) - 1 /\ Cardinality(R) \in Nat
  BY <1>1, FS_RemoveElement, FS_CardinalityType
<1>3. InOrder(S)[1] = j
  <2>1. Below(S, j) = {}
    <3>1. ASSUME NEW y \in S PROVE ~ (y < j)
      <4>1. y \in Nat /\ j <= y
        OBVIOUS
      <4> QED BY <1>1, <4>1
    <3> QED BY <3>1 DEF Below
  <2>2. Rank(S, j) = 0
    BY <2>1, FS_EmptySet DEF Rank
  <2>3. InOrder(S)[Rank(S, j) + 1] = j
    BY InOrderIs
  <2> QED BY <2>2, <2>3
<1>4. ASSUME NEW n \in 1 .. Cardinality(R) PROVE InOrder(S)[n + 1] = InOrder(R)[n]
  <2> DEFINE x == InOrder(R)[n]
  <2>1. x \in R /\ Rank(R, x) = n - 1
    BY <1>1, InOrderIs
  <2> HIDE DEF x
  <2>2. x \in S /\ x \in Nat /\ j < x
    <3>1. x \in S /\ x # j /\ x \in Nat
      BY <1>1, <2>1
    <3>2. j <= x
      BY <3>1
    <3> QED BY <1>1, <3>1, <3>2
  <2>3. Below(S, x) = Below(R, x) \cup {j}
    BY <2>2 DEF Below
  <2>4. IsFiniteSet(Below(R, x)) /\ j \notin Below(R, x)
    <3>1. Below(R, x) \in SUBSET R
      BY DEF Below
    <3> QED BY <1>1, <3>1, FS_Subset
  <2>5. Rank(S, x) = Rank(R, x) + 1
    <3> DEFINE B == Below(R, x)
    <3> HIDE DEF B
    <3>1. Cardinality(B \cup {j}) = Cardinality(B) + 1
      BY <2>4, FS_AddElement DEF B
    <3> QED BY <2>3, <3>1 DEF Rank, B
  <2>6. n \in Nat /\ (n - 1) + 1 = n
    BY <1>2
  <2>7. Rank(S, x) = n
    BY <2>1, <2>5, <2>6
  <2>8. InOrder(S)[Rank(S, x) + 1] = x
    BY <2>2, InOrderIs
  <2> QED BY <2>7, <2>8 DEF x
<1> HIDE DEF R
<1>5. Cardinality(S) = Cardinality(R) + 1
  BY <1>1, <1>2
<1> QED BY <1>1, <1>2, <1>3, <1>4, <1>5 DEF R

LEMMA WordAtIs ==
    ASSUME NEW s \in Seq(Chars), NEW k \in 1 .. Len(s)
    PROVE  /\ WordAt(s, k) \in Seq(Chars) /\ Len(WordAt(s, k)) = EndOfWord(s, k) - k
           /\ \A n \in 1 .. (EndOfWord(s, k) - k) : WordAt(s, k)[n] = s[k + n - 1]
<1> DEFINE e == EndOfWord(s, k)
           m == e - 1
<1>1. e \in k .. (Len(s) + 1)
  BY NextWordIs
<1>2. k \in Nat /\ k >= 1 /\ Len(s) \in Nat
  OBVIOUS
<1>6. WordAt(s, k) = SubSeq(s, k, m)
  BY DEF WordAt
<1> HIDE DEF e
<1>3. m \in Nat /\ k <= m + 1 /\ m <= Len(s) /\ m - k + 1 = e - k
  BY <1>1, <1>2
<1> HIDE DEF m
<1> DEFINE u == SubSeq(s, k, m)
<1>4. /\ u \in Seq(Chars) /\ Len(u) = m - k + 1
      /\ \A n \in 1 .. (m - k + 1) : u[n] = s[k + n - 1]
  BY <1>2, <1>3, SubIs
<1> HIDE DEF u
<1>5. /\ u \in Seq(Chars) /\ Len(u) = e - k
      /\ \A n \in 1 .. (e - k) : u[n] = s[k + n - 1]
  BY <1>3, <1>4
<1> QED BY <1>5, <1>6 DEF e, u

LEMMA WordListIs ==
    ASSUME NEW s \in Seq(Chars), NEW S \in SUBSET (1 .. Len(s))
    PROVE  /\ IsFiniteSet(S) /\ S \in SUBSET Nat /\ Cardinality(S) \in Nat
           /\ WordList(s, S) \in Seq(Seq(Chars)) /\ Len(WordList(s, S)) = Cardinality(S)
           /\ \A n \in 1 .. Cardinality(S) : /\ InOrder(S)[n] \in S
                                             /\ WordList(s, S)[n] = WordAt(s, InOrder(S)[n])
<1> DEFINE N == Cardinality(S)
           u == WordList(s, S)
<1>1. IsFiniteSet(S) /\ S \in SUBSET Nat
  <2>1. IsFiniteSet(1 .. Len(s))
    <3>1. 1 \in Int /\ Len(s) \in Int
      OBVIOUS
    <3> QED BY <3>1, FS_Interval
  <2>2. IsFiniteSet(S)
    BY <2>1, FS_Subset
  <2> QED BY <2>2
<1>2. N \in Nat /\ \A n \in 1 .. N : InOrder(S)[n] \in S
  BY <1>1, InOrderIs, FS_CardinalityType
<1>3. u = [n \in 1 .. N |-> WordAt(s, InOrder(S)[n])]
  BY DEF WordList
<1> HIDE DEF N, u
<1>4. \A n \in 1 .. N : u[n] = WordAt(s, InOrder(S)[n])
  BY <1>3
<1>5. \A n \in 1 .. N : WordAt(s, InOrder(S)[n]) \in Seq(Chars)
  BY <1>2, WordAtIs
<1> DEFINE T == Seq(Chars)
<1>6. u \in [1 .. N -> T]
  BY <1>3, <1>5
<1> HIDE DEF T
<1>7. u \in Seq(T) /\ Len(u) = N
  BY <1>2, <1>6
<1> QED BY <1>1, <1>2, <1>4, <1>7 DEF N, u, T

LEMMA WordListCons ==
    ASSUME NEW s \in Seq(Chars), NEW S \in SUBSET (1 .. Len(s)), NEW j \in S,
           \A y \in S : j <= y
    PROVE  WordList(s, S) = <<WordAt(s, j)>> \o WordList(s, S \ {j})
<1> DEFINE R == S \ {j}
           T == Seq(Chars)
           u == WordList(s, S)
           v == WordList(s, R)
           a == <<WordAt(s, j)>>
           N == Cardinality(R)
<1>1. /\ N \in Nat /\ Cardinality(S) = N + 1 /\ InOrder(S)[1] = j
      /\ \A n \in 1 .. N : InOrder(S)[n + 1] = InOrder(R)[n]
  BY WordListIs, InOrderCons
<1>2. /\ u \in Seq(T) /\ Len(u) = N + 1
      /\ \A n \in 1 .. (N + 1) : u[n] = WordAt(s, InOrder(S)[n])
  <2>1. /\ u \in Seq(T) /\ Len(u) = Cardinality(S)
        /\ \A n \in 1 .. Cardinality(S) : u[n] = WordAt(s, InOrder(S)[n])
    BY WordListIs
  <2> HIDE DEF u, T, N
  <2> QED BY <1>1, <2>1
<1>3. /\ v \in Seq(T) /\ Len(v) = N
      /\ \A n \in 1 .. N : v[n] = WordAt(s, InOrder(R)[n])
  BY WordListIs
<1>4. WordAt(s, j) \in T
  BY WordAtIs
<1> HIDE DEF R, T, u, v, N
<1>5. a \in Seq(T) /\ Len(a) = 1 /\ a[1] = WordAt(s, j)
  BY <1>4
<1> HIDE DEF a
<1> DEFINE c == a \o v
           one == Len(a)
<1>6. one = 1 /\ Len(a) = one
  BY <1>5
<1> HIDE DEF one
<1>7. /\ c \in Seq(T) /\ Len(c) = one + N
      /\ \A k \in 1 .. one : c[k] = a[k]
      /\ \A k \in 1 .. N : c[one + k] = v[k]
  <2>1. a \in Seq(T) /\ v \in Seq(T) /\ Len(a) = one /\ Len(v) = N
    BY <1>3, <1>5, <1>6
  <2>2. /\ a \o v \in Seq(T) /\ Len(a \o v) = one + N
        /\ \A k \in 1 .. one : (a \o v)[k] = a[k]
        /\ \A k \in 1 .. N : (a \o v)[one + k] = v[k]
    BY <2>1, JoinIs
  <2> QED BY <2>2
<1> HIDE DEF c
<1>8. Len(u) = Len(c)
  BY <1>1, <1>2, <1>6, <1>7
<1>9. ASSUME NEW n \in 1 .. (N + 1) PROVE u[n] = c[n]
  <2>1. CASE n = 1
    <3>1. 1 \in 1 .. one /\ 1 \in 1 .. (N + 1)
      BY <1>1, <1>6
    <3> QED BY <1>1, <1>2, <1>5, <1>7, <2>1, <3>1
  <2>2. CASE n # 1
    <3> DEFINE k == n - 1
    <3>1. k \in 1 .. N /\ k + 1 = n /\ one + k = n
      BY <1>1, <1>6, <2>2
    <3> HIDE DEF k
    <3>2. InOrder(S)[n] = InOrder(R)[k]
      BY <1>1, <3>1
    <3>3. c[n] = v[k]
      BY <1>7, <3>1
    <3> QED BY <1>2, <1>3, <3>1, <3>2, <3>3
  <2> QED BY <2>1, <2>2
<1>10. \A n \in 1 .. Len(u) : u[n] = c[n]
  BY <1>2, <1>9
<1>11. u = c
  BY <1>2, <1>7, <1>8, <1>10, SameSeq
<1> QED BY <1>11 DEF u, c, a, v, R

LEMMA NoWords ==
    ASSUME NEW s
    PROVE  WordList(s, {}) = << >>
<1>1. WordList(s, {}) = [n \in 1 .. 0 |-> WordAt(s, InOrder({})[n])]
  BY FS_EmptySet DEF WordList
<1> QED BY <1>1

\* The words that follow the k-th character.
Later(s, k) == {j \in Splits(s) : j > k}

Solution(s) == [k \in 1 .. (Len(s) + 1) |->
                  IF k > Len(s) THEN << >>
                  ELSE <<WordAt(s, k)>> \o WordList(s, Later(s, k))]

LEMMA SolutionSolves ==
    ASSUME NEW s \in Seq(Chars)
    PROVE  Solution(s) = [k \in 1 .. (Len(s) + 1) |-> Body(s, Solution(s), k)]
<1> DEFINE m == Len(s)
           g == Solution(s)
<1>1. m \in Nat /\ Splits(s) \in SUBSET (1 .. m)
  BY DEF Splits
<1>2. g = [k \in 1 .. (m + 1) |-> IF k > m THEN << >>
                                  ELSE <<WordAt(s, k)>> \o WordList(s, Later(s, k))]
  BY DEF Solution
<1> HIDE DEF g
<1>3. \A k \in 1 .. (m + 1) : g[k] = IF k > m THEN << >>
                                     ELSE <<WordAt(s, k)>> \o WordList(s, Later(s, k))
  BY <1>2
<1>4. ASSUME NEW k \in 1 .. (m + 1) PROVE g[k] = Body(s, g, k)
  <2>1. CASE k > m
    BY <1>3, <2>1 DEF Body
  <2>2. CASE ~ (k > m)
    <3> DEFINE e == EndOfWord(s, k)
               f == NextWord(s, e)
    <3>1. k \in 1 .. m /\ k \in Nat
      BY <1>1, <2>2
    <3>2. /\ e \in k .. (m + 1)
          /\ e <= m => /\ f \in (k + 1) .. (m + 1)
                       /\ \A j \in Splits(s) : j > k => j >= f
                       /\ f <= m => f \in Splits(s)
          /\ e > m => \A j \in Splits(s) : ~ (j > k)
      BY <3>1, NextWordIs
    <3>3. Body(s, g, k) = <<WordAt(s, k)>> \o (IF e > m THEN << >> ELSE g[f])
      BY <2>2 DEF Body, WordAt
    <3>4. g[k] = <<WordAt(s, k)>> \o WordList(s, Later(s, k))
      BY <1>3, <2>2
    <3> HIDE DEF e, f, m
    <3>5. CASE e > m
      <4>1. Later(s, k) = {}
        BY <3>2, <3>5 DEF Later
      <4>2. WordList(s, Later(s, k)) = << >>
        BY <4>1, NoWords
      <4> QED BY <3>3, <3>4, <3>5, <4>2
    <3>6. CASE ~ (e > m) /\ f <= m
      <4>1. e <= m /\ f \in (k + 1) .. (m + 1) /\ f \in Splits(s) /\ f \in Nat
        BY <1>1, <3>1, <3>2, <3>6
      <4>2. f \in Later(s, k) /\ Later(s, k) \in SUBSET (1 .. m)
            /\ \A y \in Later(s, k) : f <= y
        <5>1. f > k
          BY <3>1, <4>1
        <5>2. \A y \in Later(s, k) : y \in Splits(s) /\ y > k /\ y \in 1 .. m
          BY <1>1 DEF Later
        <5>3. ASSUME NEW y \in Later(s, k) PROVE f <= y
          <6>1. y \in Nat /\ y >= f
            BY <3>2, <4>1, <5>2
          <6> QED BY <4>1, <6>1
        <5> QED BY <4>1, <5>1, <5>2, <5>3 DEF Later
      <4>3. Later(s, f) = Later(s, k) \ {f}
        <5>1. ASSUME NEW y \in Splits(s) PROVE y > f <=> (y > k /\ y # f)
          <6>1. y \in Nat /\ (y > k => y >= f)
            BY <1>1, <3>2, <4>1
          <6> QED BY <3>1, <4>1, <6>1
        <5> QED BY <5>1 DEF Later
      <4>4. WordList(s, Later(s, k)) = <<WordAt(s, f)>> \o WordList(s, Later(s, f))
        <5> DEFINE L == Later(s, k)
        <5>1. L \in SUBSET (1 .. Len(s)) /\ f \in L /\ \A y \in L : f <= y
          BY <4>2 DEF m
        <5> HIDE DEF L
        <5>2. WordList(s, L) = <<WordAt(s, f)>> \o WordList(s, L \ {f})
          BY <5>1, WordListCons
        <5> QED BY <4>3, <5>2 DEF L
      <4>5. g[f] = <<WordAt(s, f)>> \o WordList(s, Later(s, f))
        <5>1. f \in 1 .. (m + 1) /\ ~ (f > m)
          BY <1>1, <3>1, <3>6, <4>1
        <5> QED BY <1>3, <5>1
      <4> QED BY <3>3, <3>4, <3>6, <4>4, <4>5
    <3>7. CASE ~ (e > m) /\ ~ (f <= m)
      <4>1. e <= m /\ f \in (k + 1) .. (m + 1)
        BY <1>1, <3>1, <3>2, <3>7
      <4>2. f = m + 1
        BY <1>1, <3>1, <3>7, <4>1
      <4>3. Later(s, k) = {}
        <5>1. ASSUME NEW y \in Splits(s), y > k PROVE FALSE
          <6>1. y >= f /\ y \in 1 .. m
            BY <1>1, <3>2, <4>1, <5>1
          <6> QED BY <1>1, <4>2, <6>1
        <5> QED BY <5>1 DEF Later
      <4>4. WordList(s, Later(s, k)) = << >>
        BY <4>3, NoWords
      <4>5. g[f] = << >>
        <5>1. f \in 1 .. (m + 1) /\ f > m
          BY <1>1, <4>2
        <5> QED BY <1>3, <5>1
      <4> QED BY <3>3, <3>4, <3>7, <4>4, <4>5
    <3> QED BY <3>5, <3>6, <3>7
  <2> QED BY <2>1, <2>2
<1>5. g = [k \in 1 .. (m + 1) |-> g[k]]
  BY <1>2
<1>6. g = [k \in 1 .. (m + 1) |-> Body(s, g, k)]
  BY <1>4, <1>5
<1> QED BY <1>6 DEF g

\* There is no other solution: each word leads only to later ones.
LEMMA OneSolution ==
    ASSUME NEW s \in Seq(Chars), NEW v, NEW w,
           v = [k \in 1 .. (Len(s) + 1) |-> Body(s, v, k)],
           w = [k \in 1 .. (Len(s) + 1) |-> Body(s, w, k)]
    PROVE  v = w
<1> DEFINE m == Len(s)
           Bad == {n \in 0 .. m : v[m + 1 - n] # w[m + 1 - n]}
<1>1. m \in Nat
  OBVIOUS
<1>2. \A k \in 1 .. (m + 1) : v[k] = Body(s, v, k) /\ w[k] = Body(s, w, k)
  <2>1. ASSUME NEW k \in 1 .. (m + 1) PROVE v[k] = Body(s, v, k)
    OBVIOUS
  <2>2. ASSUME NEW k \in 1 .. (m + 1) PROVE w[k] = Body(s, w, k)
    OBVIOUS
  <2> QED BY <2>1, <2>2
<1>3. Bad = {}
  <2>1. SUFFICES ASSUME Bad # {} PROVE FALSE
    OBVIOUS
  <2>2. Bad \in SUBSET Nat
    BY <1>1
  <2>3. PICK n \in Bad : \A y \in Bad : n <= y
    BY <2>1, <2>2, SomeLeast
  <2> DEFINE k == m + 1 - n
  <2>4. k \in 1 .. (m + 1) /\ v[k] # w[k] /\ k \in Nat /\ n = m + 1 - k /\ n \in Nat
    BY <1>1, <2>3
  <2>5. ASSUME NEW f \in (k + 1) .. (m + 1) PROVE v[f] = w[f]
    <3> DEFINE y == m + 1 - f
    <3>1. y \in 0 .. m /\ m + 1 - y = f /\ ~ (n <= y)
      BY <1>1, <2>4
    <3> HIDE DEF y, k, m
    <3>2. y \notin Bad
      BY <2>3, <3>1
    <3> QED BY <3>1, <3>2
  <2> HIDE DEF Bad, k
  <2>6. Body(s, v, k) = Body(s, w, k)
    <3>1. CASE k > m
      BY <3>1 DEF Body
    <3>2. CASE ~ (k > m)
      <4> DEFINE e == EndOfWord(s, k)
                 f == NextWord(s, e)
      <4>1. k \in 1 .. m
        BY <1>1, <2>4, <3>2
      <4>2. e \in k .. (m + 1) /\ (e <= m => f \in (k + 1) .. (m + 1))
        BY <4>1, NextWordIs
      <4>3. /\ Body(s, v, k) = <<SubSeq(s, k, e - 1)>> \o (IF e > m THEN << >> ELSE v[f])
            /\ Body(s, w, k) = <<SubSeq(s, k, e - 1)>> \o (IF e > m THEN << >> ELSE w[f])
        BY <3>2 DEF Body
      <4> HIDE DEF e, f, m
      <4>4. CASE e > m
        BY <4>3, <4>4
      <4>5. CASE ~ (e > m)
        <5>1. e <= m
          BY <1>1, <2>4, <4>2, <4>5
        <5>2. v[f] = w[f]
          BY <2>5, <4>2, <5>1
        <5> QED BY <4>3, <4>5, <5>2
      <4> QED BY <4>4, <4>5
    <3> QED BY <3>1, <3>2
  <2> QED BY <1>2, <2>4, <2>6
<1>4. ASSUME NEW k \in 1 .. (m + 1) PROVE v[k] = w[k]
  <2> DEFINE n == m + 1 - k
  <2>1. n \in 0 .. m /\ m + 1 - n = k
    BY <1>1
  <2> HIDE DEF n, m
  <2>2. n \notin Bad
    BY <1>3
  <2> QED BY <2>1, <2>2
<1>5. v = [k \in 1 .. (m + 1) |-> v[k]] /\ w = [k \in 1 .. (m + 1) |-> w[k]]
  <2>1. v = [k \in 1 .. (m + 1) |-> v[k]]
    OBVIOUS
  <2>2. w = [k \in 1 .. (m + 1) |-> w[k]]
    OBVIOUS
  <2> QED BY <2>1, <2>2
<1> HIDE DEF m
<1>6. [k \in 1 .. (m + 1) |-> v[k]] = [k \in 1 .. (m + 1) |-> w[k]]
  BY <1>4
<1> QED BY <1>5, <1>6

\* The whole line, from the drive on.
Whole(line) == <<Drive>> \o line

LEMMA WholeIs ==
    ASSUME NEW line, IsString(line)
    PROVE  /\ IsString(Whole(line)) /\ Len(Whole(line)) >= 1 /\ Whole(line)[1] = Drive
           /\ 1 \in Splits(Whole(line)) /\ Splits(Whole(line)) \in SUBSET (1 .. Len(Whole(line)))
<1> DEFINE a == <<Drive>>
           one == Len(a)
           s == a \o line
           m == Len(line)
<1>1. Drive \in Chars /\ Drive # Space /\ Drive # Nul
  BY CommandAssumption
<1>2. a \in Seq(Chars) /\ one = 1 /\ a[1] = Drive
  BY <1>1
<1>3. line \in Seq(Chars) /\ m \in Nat /\ \A k \in 1 .. m : line[k] # Nul
  BY DEF IsString, ToSet
<1> HIDE DEF a, m
<1>4. Len(a) = one /\ Len(line) = m
  BY DEF m
<1> HIDE DEF one
<1>5. /\ s \in Seq(Chars) /\ Len(s) = one + m
      /\ \A k \in 1 .. one : s[k] = a[k]
      /\ \A k \in 1 .. m : s[one + k] = line[k]
  <2>1. a \in Seq(Chars) /\ line \in Seq(Chars) /\ Len(a) = one /\ Len(line) = m
    BY <1>2, <1>3, <1>4
  <2>2. /\ a \o line \in Seq(Chars) /\ Len(a \o line) = one + m
        /\ \A k \in 1 .. one : (a \o line)[k] = a[k]
        /\ \A k \in 1 .. m : (a \o line)[one + k] = line[k]
    BY <2>1, JoinIs
  <2> QED BY <2>2
<1> HIDE DEF s
<1>6. Len(s) = m + 1 /\ s[1] = Drive /\ \A k \in 1 .. m : s[k + 1] = line[k]
  <2>1. 1 \in 1 .. one /\ \A k \in 1 .. m : one + k = k + 1
    BY <1>2, <1>3
  <2> QED BY <1>2, <1>3, <1>5, <2>1
<1>7. ASSUME NEW k \in 1 .. Len(s) PROVE s[k] # Nul
  <2>1. CASE k = 1
    BY <1>1, <1>6, <2>1
  <2>2. CASE k # 1
    <3>1. k - 1 \in 1 .. m /\ (k - 1) + 1 = k
      BY <1>3, <1>6, <2>2
    <3>2. s[(k - 1) + 1] = line[k - 1]
      BY <1>6, <3>1
    <3> QED BY <1>3, <3>1, <3>2
  <2> QED BY <2>1, <2>2
<1>8. IsString(s)
  BY <1>5, <1>7 DEF IsString, ToSet
<1>9. 1 \in Splits(s) /\ Splits(s) \in SUBSET (1 .. Len(s))
  <2>1. 1 \in 1 .. Len(s)
    BY <1>3, <1>6
  <2> QED BY <1>1, <1>6, <2>1 DEF Splits
<1>10. Len(s) >= 1
  BY <1>3, <1>6
<1>11. Whole(line) = s
  BY DEF Whole, s, a
<1> QED BY <1>6, <1>8, <1>9, <1>10, <1>11

\* The loop finds the words of the line, and a word where each of them begins.
LEMMA WordsFound ==
    ASSUME NEW line, IsString(line)
    PROVE  Words(line) = WordList(Whole(line), Splits(Whole(line)))
<1> DEFINE s == Whole(line)
           m == Len(s)
           g == Solution(s)
           v == WordsOf(s)
<1>1. /\ s \in Seq(Chars) /\ m >= 1 /\ m \in Nat
      /\ 1 \in Splits(s) /\ Splits(s) \in SUBSET (1 .. m)
  BY WholeIs DEF IsString
<1>2. Words(line) = v[1]
  BY WordsAre DEF Whole
<1> HIDE DEF s
<1>3. g = [k \in 1 .. (m + 1) |-> Body(s, g, k)]
  BY <1>1, SolutionSolves
<1>4. v = [k \in 1 .. (m + 1) |-> Body(s, v, k)]
  BY <1>3 DEF WordsOf
<1> HIDE DEF g, v
<1>5. v = g
  BY <1>1, <1>3, <1>4, OneSolution
<1>6. g[1] = <<WordAt(s, 1)>> \o WordList(s, Later(s, 1))
  <2>1. 1 \in 1 .. (m + 1) /\ ~ (1 > m)
    BY <1>1
  <2> QED BY <2>1 DEF g, Solution
<1>7. Later(s, 1) = Splits(s) \ {1} /\ \A y \in Splits(s) : 1 <= y
  <2>1. ASSUME NEW y \in Splits(s) PROVE 1 <= y /\ (y > 1 <=> y # 1)
    <3>1. y \in 1 .. m
      BY <1>1
    <3> QED BY <3>1
  <2> QED BY <2>1 DEF Later
<1>8. WordList(s, Splits(s)) = <<WordAt(s, 1)>> \o WordList(s, Later(s, 1))
  <2> DEFINE L == Splits(s)
  <2>1. L \in SUBSET (1 .. Len(s)) /\ 1 \in L /\ \A y \in L : 1 <= y
    BY <1>1, <1>7
  <2> HIDE DEF L
  <2>2. WordList(s, L) = <<WordAt(s, 1)>> \o WordList(s, L \ {1})
    BY <1>1, <2>1, WordListCons
  <2> QED BY <1>7, <2>2 DEF L
<1> QED BY <1>2, <1>5, <1>6, <1>8 DEF s

LEMMA EndIs ==
    ASSUME NEW s \in Seq(Chars), NEW k \in Splits(s)
    PROVE  /\ k \in 1 .. Len(s) /\ EndOfWord(s, k) \in (k + 1) .. (Len(s) + 1)
           /\ \A n \in k .. (EndOfWord(s, k) - 1) : s[n] # Space
           /\ EndOfWord(s, k) <= Len(s) => s[EndOfWord(s, k)] = Space
<1> DEFINE e == EndOfWord(s, k)
           m == Len(s)
<1>1. m \in Nat /\ k \in 1 .. m /\ s[k] # Space
  BY DEF Splits
<1>2. k \in 1 .. (m + 1)
  BY <1>1
<1>3. /\ e \in k .. (m + 1)
      /\ \A n \in k .. (e - 1) : s[n] # Space
      /\ e <= m => s[e] = Space
  BY <1>2, FirstFromIs DEF EndOfWord
<1> HIDE DEF e
<1>4. e # k
  BY <1>1, <1>3
<1>5. e \in (k + 1) .. (m + 1)
  BY <1>1, <1>3, <1>4
<1> QED BY <1>1, <1>3, <1>5 DEF e

\* The word at a place: what reaches from there to a space or the end.
IsWordAt(s, k, w) == /\ Space \notin ToSet(w)
                     /\ k + Len(w) > Len(s) \/ s[k + Len(w)] = Space

WordBy(s, k) == CHOOSE w \in {SubSeq(s, k, n) : n \in k .. Len(s)} : IsWordAt(s, k, w)

LEMMA TypedBy ==
    \A line : Typed(line) = [n \in DOMAIN InOrder(Splits(Whole(line))) |->
                               WordBy(Whole(line), InOrder(Splits(Whole(line)))[n])]
BY DEF Typed, WordBy, IsWordAt, Whole

LEMMA WordByIs ==
    ASSUME NEW s \in Seq(Chars), NEW k \in Splits(s)
    PROVE  WordBy(s, k) = WordAt(s, k)
<1> DEFINE e == EndOfWord(s, k)
           m == Len(s)
           C == {SubSeq(s, k, n) : n \in k .. m}
<1>1. /\ m \in Nat /\ k \in 1 .. m /\ e \in (k + 1) .. (m + 1)
      /\ \A n \in k .. (e - 1) : s[n] # Space
      /\ e <= m => s[e] = Space
  BY EndIs
<1>2. \A n : WordAt(s, k) = SubSeq(s, k, e - 1)
  BY DEF WordAt
<1> HIDE DEF e
<1>3. ASSUME NEW n \in k .. m
      PROVE  /\ SubSeq(s, k, n) \in Seq(Chars) /\ Len(SubSeq(s, k, n)) = n - k + 1
             /\ k + Len(SubSeq(s, k, n)) = n + 1
             /\ \A i \in 1 .. (n - k + 1) : SubSeq(s, k, n)[i] = s[k + i - 1]
  <2>1. k \in Nat /\ n \in Nat /\ k <= n + 1 /\ n <= Len(s) /\ k >= 1 /\ k + (n - k + 1) = n + 1
    BY <1>1
  <2> DEFINE u == SubSeq(s, k, n)
  <2>2. /\ u \in Seq(Chars) /\ Len(u) = n - k + 1
        /\ \A i \in 1 .. (n - k + 1) : u[i] = s[k + i - 1]
    BY <2>1, SubIs
  <2> HIDE DEF u
  <2>3. k + Len(u) = n + 1
    BY <2>1, <2>2
  <2> QED BY <2>2, <2>3 DEF u
<1>4. e - 1 \in k .. m /\ (e - 1) + 1 = e
  BY <1>1
<1>5. IsWordAt(s, k, SubSeq(s, k, e - 1))
  <2> DEFINE n == e - 1
             u == SubSeq(s, k, n)
  <2>1. /\ u \in Seq(Chars) /\ Len(u) = n - k + 1 /\ k + Len(u) = n + 1
        /\ \A i \in 1 .. (n - k + 1) : u[i] = s[k + i - 1]
    BY <1>3, <1>4
  <2> HIDE DEF u
  <2>2. k + Len(u) = e
    BY <1>4, <2>1
  <2>3. ASSUME NEW i \in 1 .. Len(u) PROVE u[i] # Space
    <3>1. i \in 1 .. (n - k + 1) /\ k + i - 1 \in k .. (e - 1)
      BY <1>1, <1>4, <2>1
    <3> QED BY <1>1, <2>1, <3>1
  <2>4. Space \notin ToSet(u)
    BY <2>1, <2>3 DEF ToSet
  <2>5. e > m \/ s[e] = Space
    BY <1>1
  <2> QED BY <2>2, <2>4, <2>5 DEF IsWordAt, u
<1>6. ASSUME NEW n \in k .. m, IsWordAt(s, k, SubSeq(s, k, n)) PROVE n = e - 1
  <2> DEFINE u == SubSeq(s, k, n)
  <2>1. /\ u \in Seq(Chars) /\ Len(u) = n - k + 1 /\ k + Len(u) = n + 1
        /\ \A i \in 1 .. (n - k + 1) : u[i] = s[k + i - 1]
    BY <1>3
  <2> HIDE DEF u
  <2>2. Space \notin ToSet(u) /\ (k + Len(u) > m \/ s[k + Len(u)] = Space)
    BY <1>6 DEF IsWordAt, u
  <2>3. n + 1 > m \/ s[n + 1] = Space
    BY <2>1, <2>2
  <2>4. \A i \in 1 .. Len(u) : u[i] # Space
    BY <2>1, <2>2 DEF ToSet
  <2>5. ~ (n < e - 1)
    <3>1. n < e - 1 => n + 1 \in k .. (e - 1) /\ ~ (n + 1 > m)
      BY <1>1
    <3> QED BY <1>1, <2>3, <3>1
  <2>6. ~ (n > e - 1)
    <3> DEFINE i == e - k + 1
    <3>1. ASSUME n > e - 1 PROVE FALSE
      <4>1. e <= m /\ i \in 1 .. (n - k + 1) /\ k + i - 1 = e
        BY <1>1, <3>1
      <4> HIDE DEF i
      <4>2. i \in 1 .. Len(u) /\ u[i] = s[e]
        BY <2>1, <4>1
      <4> QED BY <1>1, <2>4, <4>1, <4>2
    <3> QED BY <3>1
  <2> QED BY <1>1, <2>5, <2>6
<1>7. WordBy(s, k) = CHOOSE w \in C : IsWordAt(s, k, w)
  BY DEF WordBy
<1>8. SubSeq(s, k, e - 1) \in C
  BY <1>4
<1>9. \A w \in C : IsWordAt(s, k, w) => w = SubSeq(s, k, e - 1)
  BY <1>6
<1> HIDE DEF C
<1>10. WordBy(s, k) = SubSeq(s, k, e - 1)
  BY <1>5, <1>7, <1>8, <1>9
<1> QED BY <1>2, <1>10

\* The loop finds what was typed between the spaces.
LEMMA TypedIs ==
    ASSUME NEW line, IsString(line)
    PROVE  Typed(line) = Words(line)
<1> DEFINE s == Whole(line)
           S == Splits(s)
           from == InOrder(S)
           N == Cardinality(S)
<1>1. s \in Seq(Chars) /\ S \in SUBSET (1 .. Len(s))
  BY WholeIs DEF IsString
<1>2. Words(line) = WordList(s, S)
  BY WordsFound
<1>3. Typed(line) = [n \in DOMAIN from |-> WordBy(s, from[n])]
  BY TypedBy
<1> HIDE DEF s
<1>4. /\ IsFiniteSet(S) /\ S \in SUBSET Nat /\ N \in Nat
      /\ \A n \in 1 .. N : from[n] \in S
  BY <1>1, WordListIs
<1>5. DOMAIN from = 1 .. N
  BY DEF InOrder
<1>6. \A n \in 1 .. N : WordBy(s, from[n]) = WordAt(s, from[n])
  BY <1>1, <1>4, WordByIs
<1>7. WordList(s, S) = [n \in 1 .. N |-> WordAt(s, from[n])]
  BY DEF WordList
<1> HIDE DEF from, N, S
<1> QED BY <1>2, <1>3, <1>5, <1>6, <1>7

\* A line has a first word, which begins with the drive.
LEMMA FirstWord ==
    ASSUME NEW line, IsString(line)
    PROVE  /\ Words(line) \in Seq(Seq(Chars)) /\ Len(Words(line)) \in Nat /\ Len(Words(line)) >= 1
           /\ Words(line)[1] # << >> /\ IsString(Tail(Words(line)[1]))
<1> DEFINE s == Whole(line)
           S == Splits(s)
           N == Cardinality(S)
           u == WordAt(s, 1)
           e == EndOfWord(s, 1)
<1>1. /\ s \in Seq(Chars) /\ S \in SUBSET (1 .. Len(s)) /\ 1 \in S
      /\ \A k \in 1 .. Len(s) : s[k] # Nul
  BY WholeIs DEF IsString, ToSet
<1>2. Words(line) = WordList(s, S)
  BY WordsFound
<1> HIDE DEF s
<1>3. /\ IsFiniteSet(S) /\ S \in SUBSET Nat /\ N \in Nat
      /\ WordList(s, S) \in Seq(Seq(Chars)) /\ Len(WordList(s, S)) = N
      /\ \A n \in 1 .. N : WordList(s, S)[n] = WordAt(s, InOrder(S)[n])
  BY <1>1, WordListIs
<1>4. \A y \in S : 1 <= y
  <2>1. ASSUME NEW y \in S PROVE 1 <= y
    <3>1. y \in 1 .. Len(s)
      BY <1>1
    <3> QED BY <3>1
  <2> QED BY <2>1
<1>5. InOrder(S)[1] = 1 /\ N >= 1
  <2>1. /\ InOrder(S)[1] = 1 /\ Cardinality(S \ {1}) \in Nat
        /\ N = Cardinality(S \ {1}) + 1
    BY <1>1, <1>3, <1>4, InOrderCons
  <2> QED BY <2>1
<1>6. WordList(s, S)[1] = u
  <2>1. 1 \in 1 .. N
    BY <1>3, <1>5
  <2> QED BY <1>3, <1>5, <2>1
<1>7. /\ u \in Seq(Chars) /\ Len(u) = e - 1
      /\ \A n \in 1 .. (e - 1) : u[n] = s[1 + n - 1]
  BY <1>1, WordAtIs
<1>8. e \in 2 .. (Len(s) + 1)
  <2>1. e \in (1 + 1) .. (Len(s) + 1)
    BY <1>1, EndIs
  <2> QED BY <2>1
<1> HIDE DEF u, e, S, N
<1>9. u # << >>
  <2>1. e - 1 # 0
    BY <1>8
  <2> QED BY <1>7, <2>1
<1> DEFINE t == Tail(u)
<1>10. /\ t \in Seq(Chars) /\ Len(t) = Len(u) - 1
       /\ \A k \in 1 .. (Len(u) - 1) : t[k] = u[k + 1]
  BY <1>7, <1>9, TailIs
<1> HIDE DEF t
<1>11. ASSUME NEW k \in 1 .. Len(t) PROVE t[k] # Nul
  <2>1. Len(s) \in Nat
    BY <1>1
  <2>2. Len(t) = e - 2
    BY <1>7, <1>8, <1>10
  <2>3. k \in 1 .. (Len(u) - 1) /\ k + 1 \in 1 .. (e - 1) /\ 1 + (k + 1) - 1 = k + 1
    BY <1>7, <1>8, <1>10, <2>2
  <2>4. k + 1 \in 1 .. Len(s)
    BY <1>8, <2>1, <2>3
  <2>5. t[k] = s[k + 1]
    BY <1>7, <1>10, <2>3
  <2> QED BY <1>1, <2>4, <2>5
<1>12. IsString(t)
  BY <1>10, <1>11 DEF IsString, ToSet
<1> QED BY <1>2, <1>3, <1>5, <1>6, <1>9, <1>12 DEF t

----------------------------------------------------------------------------
(* The invariant of system().                                              *)

Strings  == {s \in Seq(Chars) : IsString(s)}
Programs == [argc : Nat, line : Strings, walk : Seq(Entries), called : BOOLEAN]

Opens == {"elf opens", "binary opens"}
Loads == {"elf", "binary"} \cup Opens

HasWords(line) == \A n \in 1 .. Len(Words(line)) : rows[n - 1] = Words(line)[n]

\* While a program is loaded, the rows hold the words of its line, and the path
\* that is opened is the first of them.
LoadOK ==
    /\ loading \in {"none", "wild"} \cup Loads
    /\ loading \in Loads => /\ given \in Strings /\ Fits(Words(given)) /\ HasWords(given)
                            /\ Top.called
    /\ loading \in Opens => path = Name

Named(program) ==
    LET names == Names(Tail(Typed(program.line)[1])) IN
    /\ Len(program.walk) = Len(names)
    /\ \A i \in DOMAIN names : IsPrefix(Upper(names[i]), FullName(program.walk[i]))
    /\ Last(program.walk).kind # "directory"

\* Every program that waits has called system().
ChainOK ==
    /\ chain \in Seq(Programs) /\ Running >= 1
    /\ \A n \in 1 .. (Running - 1) : chain[n].called
    /\ \A n \in 2 .. Running : Named(chain[n])

ArgvOK ==
    ~ Top.called =>
        /\ Top.argc = Len(Words(Top.line))
        /\ \A n \in 1 .. Top.argc : n <= Untouched => rows[n - 1] = Words(Top.line)[n]

CmdInv == DirInv /\ LoadOK /\ ChainOK /\ ArgvOK

LEMMA TopIs ==
    ASSUME ChainOK
    PROVE  /\ Running \in Nat /\ Running \in 1 .. Len(chain) /\ Top \in Programs
           /\ DOMAIN chain = 1 .. Running
<1>1. chain \in Seq(Programs) /\ Running >= 1
  BY DEF ChainOK
<1>2. Running \in Nat /\ DOMAIN chain = 1 .. Running
  BY <1>1 DEF Running
<1>3. Running \in 1 .. Len(chain)
  BY <1>1, <1>2 DEF Running
<1>4. chain[Running] \in Programs
  BY <1>1, <1>3
<1> QED BY <1>2, <1>3, <1>4 DEF Top

LEMMA EmptyString == << >> \in Strings
BY DEF Strings, IsString, ToSet

LEMMA CmdInit == CInit => CmdInv
<1> SUFFICES ASSUME CInit PROVE CmdInv
  OBVIOUS
<1> DEFINE p == [argc |-> 1, line |-> << >>, walk |-> << >>, called |-> TRUE]
<1>1. Init /\ chain = <<p>> /\ loading = "none"
  BY DEF CInit
<1>2. p \in Programs
  <2> DEFINE T == Entries
  <2> HIDE DEF T
  <2>1. << >> \in Seq(T)
    OBVIOUS
  <2> QED BY <2>1, EmptyString DEF Programs, T
<1>3. p.called
  OBVIOUS
<1> HIDE DEF p
<1>4. Running = 1 /\ Top = p
  BY <1>1 DEF Running, Top
<1>5. DirInv
  BY <1>1, DirInit
<1>6. LoadOK
  BY <1>1 DEF LoadOK, Loads, Opens
<1>7. ChainOK
  <2> DEFINE T == Programs
  <2> HIDE DEF T
  <2>1. p \in T
    BY <1>2 DEF T
  <2>2. <<p>> \in Seq(T)
    BY <2>1
  <2>3. chain \in Seq(Programs)
    BY <1>1, <2>2 DEF T
  <2>4. /\ \A n \in 1 .. (Running - 1) : FALSE
        /\ \A n \in 2 .. Running : FALSE
    BY <1>4
  <2> QED BY <1>4, <2>3, <2>4 DEF ChainOK
<1>8. ArgvOK
  BY <1>3, <1>4 DEF ArgvOK
<1> QED BY <1>5, <1>6, <1>7, <1>8 DEF CmdInv

\* The name that is opened is the first word without the drive.
LEMMA NameIs ==
    ASSUME LoadOK, loading \in Loads
    PROVE  IsString(Name) /\ Name = Tail(Words(given)[1])
<1>1. given \in Strings /\ HasWords(given)
  BY DEF LoadOK
<1>2. /\ Len(Words(given)) \in Nat /\ Len(Words(given)) >= 1
      /\ IsString(Tail(Words(given)[1]))
  BY <1>1, FirstWord DEF Strings
<1>3. rows[0] = Words(given)[1]
  <2> DEFINE m == Len(Words(given))
  <2>1. 1 \in 1 .. m
    BY <1>2
  <2>2. rows[1 - 1] = Words(given)[1]
    BY <1>1, <2>1 DEF HasWords
  <2> QED BY <2>2
<1> QED BY <1>2, <1>3 DEF Name

LEMMA SystemKeeps ==
    ASSUME CmdInv, NEW line \in Lines, System(line)
    PROVE  LoadOK' /\ ChainOK' /\ ArgvOK'
<1> DEFINE words == Words(line)
           m == Len(words)
           top == [Top EXCEPT !.called = TRUE]
<1>1. line \in Strings
  BY CommandAssumption DEF Strings, IsString
<1>2. m \in Nat /\ m >= 1
  BY <1>1, FirstWord DEF Strings
<1>3. ChainOK /\ loading = "none"
  BY DEF CmdInv, System
<1>4. CASE ~ Fits(words)
  <2>1. rows' = rows /\ chain' = chain /\ loading' = "wild"
    BY <1>4 DEF System
  <2>2. LoadOK'
    BY <2>1 DEF LoadOK, Loads, Opens
  <2>3. ChainOK'
    BY <1>3, <2>1 DEF ChainOK, Running
  <2>4. ArgvOK'
    BY <2>1 DEF CmdInv, ArgvOK, Top, Running
  <2> QED BY <2>2, <2>3, <2>4
<1>5. CASE Fits(words)
  <2>1. /\ rows' = [r \in Rows |-> IF r < m THEN words[r + 1] ELSE << >>]
        /\ chain' = [chain EXCEPT ![Running].called = TRUE]
        /\ loading' = IF Running < MaxProcesses THEN "elf" ELSE "none"
        /\ given' = IF loading' = "elf" THEN line ELSE << >>
    BY <1>5 DEF System
  <2>2. /\ Running \in 1 .. Len(chain) /\ Top \in Programs /\ Running \in Nat
        /\ chain \in Seq(Programs) /\ DOMAIN chain = 1 .. Running
    BY <1>3, TopIs DEF ChainOK
  <2>3. top \in Programs /\ top.called /\ top.line = Top.line /\ top.walk = Top.walk
    BY <2>2 DEF Programs
  <2> HIDE DEF top
  <2>4. chain' = [chain EXCEPT ![Running] = top]
    BY <2>1 DEF top, Top
  <2>5. /\ chain' \in Seq(Programs) /\ Len(chain') = Running
        /\ chain'[Running] = top
        /\ \A n \in 1 .. Running : n # Running => chain'[n] = chain[n]
    <3> DEFINE R == Running
               T == Programs
    <3>1. chain \in Seq(T) /\ R \in 1 .. Len(chain) /\ top \in T /\ Len(chain) = R
      BY <2>2, <2>3 DEF Running
    <3> HIDE DEF R, T
    <3>2. chain' = [chain EXCEPT ![R] = top]
      BY <2>4 DEF R
    <3>3. /\ chain' \in Seq(T) /\ Len(chain') = Len(chain) /\ chain'[R] = top
          /\ \A n \in 1 .. Len(chain) : n # R => chain'[n] = chain[n]
      BY <3>1, <3>2
    <3> QED BY <3>1, <3>3 DEF R, T
  <2>6. Running' = Running /\ Top' = top
    BY <2>5 DEF Running, Top
  <2>7. ChainOK'
    <3>1. \A n \in 1 .. (Running - 1) : chain'[n].called
      <4>1. ASSUME NEW n \in 1 .. (Running - 1) PROVE chain'[n].called
        <5>1. n \in 1 .. Running /\ n # Running
          BY <2>2
        <5> QED BY <1>3, <2>5, <5>1 DEF ChainOK
      <4> QED BY <4>1
    <3>2. ASSUME NEW n \in 2 .. Running PROVE Named(chain'[n])
      <4>1. n \in 1 .. Running /\ Named(chain[n])
        BY <1>3, <2>2 DEF ChainOK
      <4>2. CASE n # Running
        BY <2>5, <4>1, <4>2
      <4>3. CASE n = Running
        <5>1. Named(Top)
          BY <4>1, <4>3 DEF Top
        <5>2. Named(top)
          BY <2>3, <5>1 DEF Named
        <5> QED BY <2>5, <4>3, <5>2
      <4> QED BY <4>2, <4>3
    <3>3. Running' >= 1
      BY <1>3, <2>6 DEF ChainOK
    <3> QED BY <2>5, <2>6, <3>1, <3>2, <3>3 DEF ChainOK
  <2>8. ArgvOK'
    BY <2>3, <2>6 DEF ArgvOK
  <2>9. LoadOK'
    <3>1. CASE loading' = "elf"
      <4>1. given' = line
        BY <2>1, <3>1
      <4>2. ASSUME NEW n \in 1 .. m PROVE rows'[n - 1] = words[n]
        <5>1. m <= MaxArgs /\ MaxArgs \in Nat
          BY <1>5, CommandAssumption DEF Fits
        <5>2. n - 1 \in Rows /\ n - 1 < m /\ (n - 1) + 1 = n
          BY <1>2, <5>1 DEF Rows
        <5> HIDE DEF m, words
        <5> QED BY <2>1, <5>2
      <4>3. HasWords(given)'
        BY <4>1, <4>2 DEF HasWords
      <4>4. loading' \notin Opens
        BY <3>1 DEF Opens
      <4> QED BY <1>1, <1>5, <2>3, <2>6, <3>1, <4>1, <4>3, <4>4 DEF LoadOK, Loads
    <3>2. CASE loading' = "none"
      BY <3>2 DEF LoadOK, Loads, Opens
    <3> QED BY <2>1, <3>1, <3>2
  <2> QED BY <2>7, <2>8, <2>9
<1> QED BY <1>4, <1>5

LEMMA LoadOpensKeeps ==
    ASSUME CmdInv, LoadOpens
    PROVE  LoadOK' /\ ChainOK' /\ ArgvOK' /\ DirStep
<1>1. /\ loading \in Loads /\ Fopen(Name)
      /\ rows' = rows /\ chain' = chain /\ given' = given
      /\ loading' \in Opens
  BY DEF LoadOpens, Loads, Opens
<1>2. path' = Name
  BY <1>1 DEF Fopen
<1>3. LoadOK' /\ IsString(Name)
  <2>1. LoadOK
    BY DEF CmdInv
  <2>2. IsString(Name)
    BY <1>1, <2>1, NameIs
  <2>3. Top' = Top /\ Name' = Name /\ HasWords(given)' = HasWords(given) /\ loading' \in Loads
    BY <1>1 DEF Top, Running, Name, HasWords, Loads
  <2> QED BY <1>1, <1>2, <2>1, <2>2, <2>3 DEF LoadOK
<1>4. ChainOK' /\ ArgvOK'
  BY <1>1 DEF CmdInv, ChainOK, ArgvOK, Top, Running
<1> QED BY <1>1, <1>3, <1>4 DEF DirStep

\* Steps that leave the rows and the programs as they are.
LEMMA SameChain ==
    ASSUME CmdInv, rows' = rows, chain' = chain
    PROVE  /\ ChainOK' /\ ArgvOK' /\ Top' = Top /\ Name' = Name
           /\ given' = given => HasWords(given)' = HasWords(given)
BY DEF CmdInv, ChainOK, ArgvOK, Top, Running, Name, HasWords

LEMMA LoadSearchesKeeps ==
    ASSUME CmdInv, LoadSearches
    PROVE  LoadOK' /\ ChainOK' /\ ArgvOK' /\ DirStep
<1>1. /\ Search /\ rows' = rows /\ chain' = chain /\ given' = given /\ loading' = loading
  BY DEF LoadSearches, argvars
<1>2. path' = path
  BY <1>1 DEF Search, Miss, Descend, Arrive
<1>3. LoadOK'
  BY <1>1, <1>2, SameChain DEF CmdInv, LoadOK
<1> QED BY <1>1, <1>3, SameChain DEF DirStep

LEMMA LoadEndsKeeps ==
    ASSUME CmdInv, loading \in Opens, rows' = rows, chain' = chain, given' = Kept,
           loading' \in {"binary", "none"}
    PROVE  LoadOK'
<1>1. LoadOK /\ loading \in Loads /\ loading' \notin Opens
  BY DEF CmdInv, Loads, Opens
<1>2. CASE loading' = "none"
  BY <1>2 DEF LoadOK, Loads, Opens
<1>3. CASE loading' = "binary"
  <2>1. given' = given
    BY <1>3 DEF Kept
  <2> QED BY <1>1, <1>3, <2>1, SameChain DEF LoadOK, Loads
<1> QED BY <1>2, <1>3

LEMMA LoadMissesKeeps ==
    ASSUME CmdInv, LoadMisses
    PROVE  LoadOK' /\ ChainOK' /\ ArgvOK' /\ DirStep
<1>1. /\ loading \in Opens /\ rows' = rows /\ chain' = chain /\ UNCHANGED vars
      /\ given' = Kept /\ loading' \in {"binary", "none"}
  BY DEF LoadMisses, Opens, dirvars, Failed
<1> QED BY <1>1, LoadEndsKeeps, SameChain DEF DirStep

LEMMA LoadFailsKeeps ==
    ASSUME CmdInv, LoadFails
    PROVE  LoadOK' /\ ChainOK' /\ ArgvOK' /\ DirStep
<1>1. /\ loading \in Opens /\ rows' = rows /\ chain' = chain /\ Fclose
      /\ given' = Kept /\ loading' \in {"binary", "none"}
  BY DEF LoadFails, Found, Opens, Failed
<1> QED BY <1>1, LoadEndsKeeps, SameChain DEF DirStep

LEMMA StartsKeeps ==
    ASSUME CmdInv, Starts
    PROVE  LoadOK' /\ ChainOK' /\ ArgvOK' /\ DirStep
<1> DEFINE m == Len(Words(given))
           p == Started(m, walk)
           n == Running
<1>1. /\ loading \in Opens /\ dir = NoDir /\ walk # << >> /\ Last(walk).kind # "directory"
      /\ Fclose /\ rows' = rows /\ loading' = "none"
      /\ chain' = Append(chain, p)
  BY DEF Starts, Found, Opens
<1>2. /\ given \in Strings /\ Fits(Words(given)) /\ HasWords(given) /\ Top.called
      /\ path = Name /\ Name = Tail(Words(given)[1])
  BY <1>1, NameIs DEF CmdInv, LoadOK, Loads
<1>3. m \in Nat
  BY <1>2, FirstWord DEF Strings
<1>4. ChainOK /\ n \in Nat /\ n >= 1 /\ chain \in Seq(Programs) /\ Len(chain) = n
  BY TopIs DEF CmdInv, ChainOK, Running
<1>5. walk \in Seq(Entries)
  BY DEF CmdInv, DirInv, WalkOK
<1>6. p \in Programs /\ p.argc = m /\ p.line = given /\ p.walk = walk
  <2> DEFINE T == Seq(Entries)
             W == Strings
  <2>1. m \in Nat /\ given \in W /\ walk \in T
    BY <1>2, <1>3, <1>5
  <2> HIDE DEF m, T, W
  <2>2. /\ p \in [argc : Nat, line : W, walk : T, called : BOOLEAN]
        /\ p.argc = m /\ p.line = given /\ p.walk = walk
    BY <2>1 DEF Started
  <2> QED BY <2>2 DEF Programs, T, W
<1> HIDE DEF p, n
<1>7. /\ chain' \in Seq(Programs) /\ Len(chain') = n + 1 /\ chain'[n + 1] = p
      /\ \A k \in 1 .. n : chain'[k] = chain[k]
  <2> DEFINE T == Programs
  <2>1. p \in T /\ chain \in Seq(T)
    BY <1>4, <1>6
  <2> HIDE DEF T
  <2>2. /\ chain' \in Seq(T) /\ Len(chain') = Len(chain) + 1 /\ chain'[Len(chain) + 1] = p
        /\ \A k \in 1 .. Len(chain) : chain'[k] = chain[k]
    BY <1>1, <2>1
  <2> QED BY <1>4, <2>2 DEF T
<1>8. Running' = n + 1 /\ Top' = p
  BY <1>7 DEF Running, Top
<1>9. Named(p)
  <2> DEFINE names == Names(Tail(Typed(given)[1]))
  <2>1. Typed(given) = Words(given)
    BY <1>2, TypedIs DEF Strings
  <2>2. names = Names(path)
    BY <1>2, <2>1
  <2>3. /\ Len(walk) = Len(Names(path)) /\ DOMAIN Names(path) = DOMAIN walk
        /\ \A i \in DOMAIN walk : IsPrefix(Upper(Names(path)[i]), FullName(walk[i]))
    BY <1>1, DirOpens DEF CmdInv, OpensWhatIsNamed
  <2> HIDE DEF names
  <2>6. /\ Len(walk) = Len(names)
        /\ \A i \in DOMAIN names : IsPrefix(Upper(names[i]), FullName(walk[i]))
    BY <2>2, <2>3
  <2> QED BY <1>1, <1>6, <2>6 DEF Named, names
<1>10. ChainOK'
  <2>1. ASSUME NEW k \in 1 .. n PROVE chain'[k].called
    <3>1. CASE k = n
      <4>1. chain[n].called
        BY <1>2 DEF Top, n
      <4> QED BY <1>7, <3>1, <4>1
    <3>2. CASE k # n
      <4>1. k \in 1 .. (n - 1)
        BY <1>4, <3>2
      <4>2. chain[k].called
        BY <1>4, <4>1 DEF ChainOK, n
      <4> QED BY <1>7, <4>2
    <3> QED BY <3>1, <3>2
  <2>2. ASSUME NEW k \in 2 .. (n + 1) PROVE Named(chain'[k])
    <3>1. CASE k = n + 1
      BY <1>7, <1>9, <3>1
    <3>2. CASE k # n + 1
      <4>1. k \in 2 .. n /\ k \in 1 .. n
        BY <1>4, <3>2
      <4>2. Named(chain[k])
        BY <1>4, <4>1 DEF ChainOK, n
      <4> QED BY <1>7, <4>1, <4>2
    <3> QED BY <3>1, <3>2
  <2>3. (n + 1) - 1 = n /\ n + 1 >= 1
    BY <1>4
  <2> QED BY <1>7, <1>8, <2>1, <2>2, <2>3 DEF ChainOK
<1>11. ArgvOK'
  <2>1. \A k \in 1 .. m : rows'[k - 1] = Words(given)[k]
    BY <1>1, <1>2 DEF HasWords
  <2> HIDE DEF m
  <2>2. p.argc = Len(Words(p.line))
    BY <1>6 DEF m
  <2>3. \A k \in 1 .. p.argc : rows'[k - 1] = Words(p.line)[k]
    BY <1>6, <2>1
  <2> QED BY <1>8, <2>2, <2>3 DEF ArgvOK
<1>12. LoadOK'
  BY <1>1 DEF LoadOK, Loads, Opens
<1> QED BY <1>1, <1>10, <1>11, <1>12 DEF DirStep

LEMMA ReachedIs ==
    ASSUME NEW k \in Nat, k >= 1, k <= Untouched
    PROVE  Reached[k - 1] = rows[k - 1]
<1>1. k - 1 \in Rows /\ k - 1 < Untouched
  BY CommandAssumption DEF Rows
<1> QED BY <1>1 DEF Reached

LEMMA ExitKeeps ==
    ASSUME CmdInv, Exit
    PROVE  LoadOK' /\ ChainOK' /\ ArgvOK' /\ DirStep
<1> DEFINE n == Running
<1>1. /\ loading = "none" /\ loading' = loading /\ n > 1 /\ chain' = Front(chain)
      /\ UNCHANGED vars
  BY DEF Exit, dirvars
<1>2. ChainOK /\ n \in Nat /\ chain \in Seq(Programs) /\ Len(chain) = n
  BY TopIs DEF CmdInv, ChainOK, Running
<1>3. chain' = SubSeq(chain, 1, n - 1)
  BY <1>1, <1>2 DEF Front
<1> HIDE DEF n
<1> DEFINE m == n - 1
           T == Programs
<1>4. /\ 1 \in Nat /\ m \in Nat /\ 1 <= m + 1 /\ m <= Len(chain) /\ 1 >= 1 /\ m - 1 + 1 = m
      /\ m >= 1 /\ m + 1 = n
  BY <1>1, <1>2
<1>5. chain \in Seq(T)
  BY <1>2
<1> HIDE DEF m, T
<1> DEFINE u == SubSeq(chain, 1, m)
<1>6. /\ u \in Seq(T) /\ Len(u) = m - 1 + 1
      /\ \A k \in 1 .. (m - 1 + 1) : u[k] = chain[1 + k - 1]
  BY <1>4, <1>5, SubIs
<1> HIDE DEF u
<1>7. chain' \in Seq(T) /\ Len(chain') = m /\ \A k \in 1 .. m : chain'[k] = chain[k]
  <2>1. chain' = u
    BY <1>3 DEF u, m
  <2>2. \A k \in 1 .. m : 1 + k - 1 = k
    BY <1>4
  <2> QED BY <1>4, <1>6, <2>1, <2>2
<1>8. Running' = m /\ Top' = chain[m]
  <2>1. m \in 1 .. m
    BY <1>4
  <2> QED BY <1>7, <2>1 DEF Running, Top
<1>9. Top'.called
  <2>1. m \in 1 .. (n - 1)
    BY <1>4
  <2> QED BY <1>2, <1>8, <2>1 DEF ChainOK, n
<1>10. ChainOK'
  <2>1. ASSUME NEW k \in 1 .. (m - 1) PROVE chain'[k].called
    <3>1. k \in 1 .. m /\ k \in 1 .. (n - 1)
      BY <1>4
    <3> QED BY <1>2, <1>7, <3>1 DEF ChainOK, n
  <2>2. ASSUME NEW k \in 2 .. m PROVE Named(chain'[k])
    <3>1. k \in 1 .. m /\ k \in 2 .. n
      BY <1>4
    <3> QED BY <1>2, <1>7, <3>1 DEF ChainOK, n
  <2> QED BY <1>4, <1>7, <1>8, <2>1, <2>2 DEF ChainOK, T
<1>11. ArgvOK'
  BY <1>9 DEF ArgvOK
<1>12. LoadOK'
  BY <1>1 DEF LoadOK, Loads, Opens
<1> QED BY <1>1, <1>10, <1>11, <1>12 DEF DirStep

LEMMA OtherCallKeeps ==
    ASSUME CmdInv, OtherCall
    PROVE  LoadOK' /\ ChainOK' /\ ArgvOK' /\ DirStep
<1>1. /\ loading = "none" /\ loading' = loading /\ chain' = chain
      /\ FileCall \/ UNCHANGED vars
      /\ rows' = Reached
  BY DEF OtherCall, dirvars
<1>2. DirStep
  <2>1. CASE UNCHANGED vars
    BY <2>1 DEF DirStep
  <2>2. CASE FileCall
    BY <2>2, TextAssumption DEF FileCall, DirStep
  <2> QED BY <1>1, <2>1, <2>2
<1>3. ChainOK'
  BY <1>1 DEF CmdInv, ChainOK, Running
<1>4. LoadOK'
  BY <1>1 DEF LoadOK, Loads, Opens
<1>5. ArgvOK'
  <2>1. Top' = Top /\ ChainOK
    BY <1>1 DEF Top, Running, CmdInv
  <2>2. Top.argc \in Nat
    BY <2>1, TopIs DEF Programs
  <2>3. ASSUME ~ Top.called, NEW k \in 1 .. Top.argc, k <= Untouched
        PROVE  rows'[k - 1] = Words(Top.line)[k]
    <3>1. rows[k - 1] = Words(Top.line)[k]
      BY <2>3 DEF CmdInv, ArgvOK
    <3>2. k \in Nat /\ k >= 1
      BY <2>2
    <3> QED BY <1>1, <2>3, <3>1, <3>2, ReachedIs
  <2>4. ~ Top.called => Top.argc = Len(Words(Top.line))
    BY DEF CmdInv, ArgvOK
  <2> QED BY <2>1, <2>3, <2>4 DEF ArgvOK
<1> QED BY <1>2, <1>3, <1>4, <1>5

LEMMA CmdNext == CmdInv /\ [CNext]_allvars => CmdInv'
<1> SUFFICES ASSUME CmdInv, [CNext]_allvars PROVE CmdInv'
  OBVIOUS
<1>1. CASE CNext
  <2>1. ASSUME NEW line \in Lines, System(line)
        PROVE  LoadOK' /\ ChainOK' /\ ArgvOK' /\ DirStep
    <3>1. UNCHANGED vars
      BY <2>1 DEF System, dirvars
    <3> QED BY <2>1, <3>1, SystemKeeps DEF DirStep
  <2>2. LoadOK' /\ ChainOK' /\ ArgvOK' /\ DirStep
    BY <1>1, <2>1, LoadOpensKeeps, LoadSearchesKeeps, LoadMissesKeeps, LoadFailsKeeps,
       StartsKeeps, ExitKeeps, OtherCallKeeps DEF CNext
  <2> QED BY <2>2, DirNext DEF CmdInv
<1>2. CASE UNCHANGED allvars
  <2>1. /\ rows' = rows /\ chain' = chain /\ given' = given /\ loading' = loading
        /\ UNCHANGED vars
    BY <1>2 DEF allvars, argvars
  <2>2. path' = path
    BY <2>1 DEF vars
  <2>3. LoadOK'
    BY <2>1, <2>2, SameChain DEF CmdInv, LoadOK
  <2>4. DirStep
    BY <2>1 DEF DirStep
  <2> QED BY <2>1, <2>3, <2>4, SameChain, DirNext DEF CmdInv
<1> QED BY <1>1, <1>2

\* Every step of a search, of a load and of a program keeps the invariant.
THEOREM Invariant == CSpec => []CmdInv
<1>1. CInit => CmdInv
  BY CmdInit
<1>2. CmdInv /\ [CNext]_allvars => CmdInv'
  BY CmdNext
<1> QED BY <1>1, <1>2, PTL DEF CSpec

----------------------------------------------------------------------------
(* What follows from it.                                                   *)

LEMMA CmdArgv == CmdInv => ArgvIsCommand
<1> SUFFICES ASSUME CmdInv, ~ Top.called
             PROVE  /\ Top.argc = Len(Typed(Top.line))
                    /\ \A n \in 1 .. Top.argc : n <= Untouched => rows[n - 1] = Typed(Top.line)[n]
  BY DEF ArgvIsCommand
<1>1. ArgvOK /\ Top \in Programs
  BY TopIs DEF CmdInv
<1>2. Typed(Top.line) = Words(Top.line)
  BY <1>1, TypedIs DEF Programs, Strings
<1> QED BY <1>1, <1>2 DEF ArgvOK

LEMMA CmdRuns == CmdInv => RunsWhatIsNamed
BY DEF CmdInv, ChainOK, Named, RunsWhatIsNamed

\* A search holds a directory of the volume, and what is open and what was
\* walked are entries of it.
THEOREM TypeCorrect == CSpec => []TypeOK
<1>1. CmdInv => TypeOK
  BY DirTypes DEF CmdInv
<1> QED BY <1>1, Invariant, PTL

\* load_directory and free: the entries of directories that are in memory are
\* those in use, on every way out of a search.
THEOREM MemoryBalanced == CSpec => []HoldsWhatItUses
<1>1. CmdInv => HoldsWhatItUses
  BY DirHolds DEF CmdInv
<1> QED BY <1>1, Invariant, PTL

\* compare_item_name: an entry whose name and extension are told apart is found
\* by its name and by no other.
THEOREM SearchExact == CSpec => []FindsExactly
<1>1. CmdInv => FindsExactly
  BY DirFinds DEF CmdInv
<1> QED BY <1>1, Invariant, PTL

\* get_directory_entry: a path is opened only along the entries it names.
THEOREM OpensNamed == CSpec => []OpensWhatIsNamed
<1>1. CmdInv => OpensWhatIsNamed
  BY DirOpens DEF CmdInv
<1> QED BY <1>1, Invariant, PTL

\* systemcall_system: a program finds the words of its line in argv, in the
\* rows that only system() reaches and until it calls system() itself.
THEOREM ArgvHolds == CSpec => []ArgvIsCommand
<1>1. CmdInv => ArgvIsCommand
  BY CmdArgv
<1> QED BY <1>1, Invariant, PTL

\* process::load: what runs is what the first word of its line names.
THEOREM RunsNamed == CSpec => []RunsWhatIsNamed
<1>1. CmdInv => RunsWhatIsNamed
  BY CmdRuns
<1> QED BY <1>1, Invariant, PTL
=============================================================================
