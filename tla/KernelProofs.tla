---------------------------- MODULE KernelProofs ----------------------------
(***************************************************************************)
(* Proofs about Kernel while system() is not nested: the shell alone calls *)
(* it, as in the repository, or the table has two slots.  The processes,   *)
(* tasks, keys, programs, refusals and the length of the keyboard buffer   *)
(* are any.  What needs more assumes it: that the shell never ends, or     *)
(* that memory for a page directory is never refused.                      *)
(***************************************************************************)
EXTENDS Kernel, FiniteSetTheorems, SequenceTheorems, WellFoundedInduction, TLAPS

Shallow == Spawners \subseteq {Shell} \/ MaxProcesses <= 2

Lasting == Shallow /\ Shell \notin Exiters

\* What holds of the shell, in user mode.
ShellInv ==
    /\ focus = 0 /\ program[0] = Shell
    /\ list.head \in Tasks
    /\ ptask[0] = list.head /\ pidOf[list.head] = 0
    /\ list.prev[list.head] = Null

\* The shell runs, alone.
Alone ==
    /\ \A s \in Slots : taken[s] <=> s = 0
    /\ list.next[list.head] = Null
    /\ list.tail = list.head /\ list.curr = list.head
    /\ dir = list.head /\ ctx = 0

\* The shell waits for process s.  No key was typed to s, and none is read.
Waits(s) ==
    /\ s # 0
    /\ \A u \in Slots : taken[u] <=> u \in {0, s}
    /\ ptask[s] \in Tasks /\ ptask[s] # list.head /\ pidOf[ptask[s]] = s
    /\ list.next[list.head] = ptask[s]
    /\ list.prev[ptask[s]] = list.head /\ list.next[ptask[s]] = Null
    /\ list.tail = ptask[s] /\ list.curr = ptask[s]
    /\ dir = ptask[s] /\ ctx = s
    /\ saved[list.head] = 0
    /\ keys[s] = << >> /\ ~entered[s]

\* The last process, the shell, has ended.
Ended == /\ list.curr = Null
         /\ \A s \in Slots : ~taken[s]

KInv == /\ TypeOK
        /\ Running => \/ Ended
                      \/ ShellInv /\ (Alone \/ \E s \in Slots : Waits(s))

----------------------------------------------------------------------------
(* The list.                                                               *)

\* The operations on the task list return a task list.
LEMMA ListTypes ==
    ASSUME NEW l \in ListType, NEW t \in Tasks
    PROVE  /\ Listed(l, t) \in ListType
           /\ Cleared(l, t) \in ListType
           /\ Remove(l, t) \in ListType
           /\ \A p \in Pointers : SwitchTo(l, p) \in ListType
           /\ l.curr \in Tasks => NextTask(l) \in Pointers
<1> USE DEF ListType, Pointers, With
<1>1. Cleared(l, t) \in ListType
  BY DEF Cleared
<1>2. Listed(l, t) \in ListType
  BY <1>1 DEF Listed
<1>3. l.curr \in Tasks => NextTask(l) \in Pointers
  BY DEF NextTask
<1>4. \A p \in Pointers : SwitchTo(l, p) \in ListType
  BY DEF SwitchTo
<1>5. Remove(l, t) \in ListType
  <2>1. CASE l.head = l.tail
    BY <2>1 DEF Remove
  <2>2. CASE l.head # l.tail
    <3> DEFINE m == [l EXCEPT !.next = With(l.next, l.prev[t], l.next[t]),
                              !.head = IF t = l.head THEN l.next[t] ELSE l.head,
                              !.tail = IF t = l.tail THEN l.prev[t] ELSE l.tail]
    <3>1. m \in ListType
      OBVIOUS
    <3>2. m.curr = l.curr
      OBVIOUS
    <3>4. Remove(l, t) = IF t = l.curr THEN [m EXCEPT !.curr = NextTask(m)] ELSE m
      BY <2>2 DEF Remove
    <3> HIDE DEF m
    <3>3. t = l.curr => NextTask(m) \in Pointers
      BY <3>1, <3>2 DEF NextTask
    <3> QED
      BY <3>1, <3>3, <3>4
  <2> QED
    BY <2>1, <2>2
<1> QED
  BY <1>1, <1>2, <1>3, <1>4, <1>5

\* A task listed after the only one.
LEMMA ListedSecond ==
    ASSUME NEW l \in ListType, NEW a \in Tasks, NEW b \in Tasks, a # b,
           Null \notin Tasks,
           l.head = a, l.tail = a, l.next[a] = Null, l.prev[a] = Null
    PROVE  LET m == Listed(l, b) IN
           /\ m.head = a /\ m.tail = b /\ m.curr = l.curr
           /\ m.next[a] = b /\ m.next[b] = Null
           /\ m.prev[a] = Null /\ m.prev[b] = a
  BY DEF Listed, Cleared, With, ListType, Pointers

\* The second of two tasks is removed.
LEMMA RemoveSecond ==
    ASSUME NEW l \in ListType, NEW a \in Tasks, NEW b \in Tasks, a # b,
           Null \notin Tasks,
           l.head = a, l.tail = b, l.next[a] = b, l.next[b] = Null,
           l.prev[a] = Null, l.prev[b] = a
    PROVE  LET m == Remove(l, b) IN
           /\ m.head = a /\ m.tail = a
           /\ m.curr = (IF l.curr = b THEN a ELSE l.curr)
           /\ m.next[a] = Null /\ m.prev[a] = Null
<1> USE DEF ListType, Pointers, With
<1> DEFINE m == [l EXCEPT !.next = With(l.next, l.prev[b], l.next[b]),
                          !.head = IF b = l.head THEN l.next[b] ELSE l.head,
                          !.tail = IF b = l.tail THEN l.prev[b] ELSE l.tail]
<1>1. /\ m \in ListType
      /\ m.head = a /\ m.tail = a /\ m.curr = l.curr
      /\ m.next[a] = Null /\ m.next[b] = Null /\ m.prev[a] = Null
  OBVIOUS
<1>2. b = l.curr => NextTask(m) = a
  BY <1>1 DEF NextTask
<1>3. Remove(l, b) = IF b = l.curr THEN [m EXCEPT !.curr = NextTask(m)] ELSE m
  BY DEF Remove
<1> HIDE DEF m
<1> QED
  BY <1>1, <1>2, <1>3

----------------------------------------------------------------------------
(* Who may act.                                                            *)

\* In user mode the processor is where it should be, and the process that
\* runs is the shell, or one that may start no other.
LEMMA WhoRuns ==
    ASSUME KInv, Running, list.curr # Null
    PROVE  /\ ShellInv /\ (Alone \/ \E s \in Slots : Waits(s))
           /\ list.curr \in Tasks /\ InPlace /\ ctx = Current /\ Current \in Slots
           /\ dir = list.curr /\ ptask[Current] = list.curr /\ taken[Current]
           /\ Current = 0 <=> Alone
           /\ Alone <=> list.curr = list.head
<1> USE KernelAssumption
<1>1. 0 \in Slots
  BY DEF Slots
<1>2. ShellInv /\ (Alone \/ \E s \in Slots : Waits(s))
  BY DEF KInv, Ended
<1>3. CASE Alone
  BY <1>1, <1>2, <1>3 DEF ShellInv, Alone, InPlace, Current
<1>4. ASSUME NEW s \in Slots, Waits(s)
      PROVE  /\ list.curr \in Tasks /\ InPlace /\ ctx = Current /\ Current \in Slots
             /\ dir = list.curr /\ ptask[Current] = list.curr /\ taken[Current]
             /\ Current = 0 <=> Alone
             /\ Alone <=> list.curr = list.head
  <2>1. /\ list.curr = ptask[s] /\ Current = s /\ ctx = s /\ s # 0 /\ dir = list.curr
        /\ ptask[s] \in Tasks /\ ptask[s] # list.head /\ taken[s]
    BY <1>4 DEF Waits, Current
  <2>2. ~Alone
    BY <2>1 DEF Alone
  <2> QED
    BY <2>1, <2>2 DEF InPlace
<1> QED
  BY <1>2, <1>3, <1>4

\* Only the shell starts a program: the other process is not the shell, or is
\* one that has read no line, or has taken the last slot.
LEMMA OnlyShellSpawns ==
    ASSUME Shallow, KInv, MaySpawn, FreeSlots # {}
    PROVE  Running /\ ShellInv /\ Alone /\ Current = 0
<1>1. Running /\ list.curr # Null
  BY DEF MaySpawn, MayDo
<1>2. ASSUME NEW s \in Slots, Waits(s), Spawners \subseteq {Shell} PROVE FALSE
  <2>1. Current = s /\ InPlace
    BY <1>1, <1>2, WhoRuns DEF Waits, Current
  <2>2. program[s] = Shell
    BY <1>2, <2>1 DEF MaySpawn, MayDo
  <2>3. entered[s]
    BY <2>1, <2>2 DEF MaySpawn
  <2> QED
    BY <1>2, <2>3 DEF Waits
<1>3. ASSUME NEW s \in Slots, Waits(s), MaxProcesses <= 2 PROVE FALSE
  <2>1. s # 0 /\ \A u \in Slots : taken[u] <=> u \in {0, s}
    BY <1>3 DEF Waits
  <2>2. \A u \in Slots : u \in {0, s}
    BY <1>3, <2>1, KernelAssumption DEF Slots
  <2> QED
    BY <2>1, <2>2 DEF FreeSlots, TheTaken
<1>4. ShellInv /\ Alone
  BY <1>1, <1>2, <1>3, WhoRuns DEF Shallow
<1> QED
  BY <1>1, <1>4, WhoRuns

----------------------------------------------------------------------------
(* Every step keeps the invariant, and is a step of Calls or a stutter.    *)

Abstract == [Promise!CNext]_(Promise!cvars)

\* A step that leaves the processes, the list and the registers alone.
LEMMA QuietStep ==
    ASSUME KInv, Running, UNCHANGED <<taken, ptask, program, focus, list, pidOf, ctx, mode>>,
           dir' = Back(list, Kernel),
           keys' \in [Slots -> Seq(Keys \cup {NoKey})],
           \A s \in Slots : Len(keys'[s]) <= BufferSize,
           entered' \in [Slots -> BOOLEAN],
           saved' \in [Tasks -> Slots],
           list.curr # Null =>
              \A s \in Slots : s # 0 /\ keys[s] = << >> /\ ~entered[s] =>
                                   keys'[s] = << >> /\ ~entered'[s],
           \A t \in Tasks : t # list.curr => saved'[t] = saved[t]
    PROVE  KInv' /\ Abstract
<1>1. dir' \in Tasks \cup {Kernel} /\ (list.curr # Null => dir' = dir)
  BY WhoRuns DEF Back
<1>2. TypeOK'
  BY <1>1 DEF KInv, TypeOK
<1>3. Running'
  BY DEF Running
<1>4. Ended => Ended'
  BY DEF Ended
<1>5. ASSUME ShellInv, Alone PROVE ShellInv' /\ Alone'
  <2>1. dir' = dir
    BY <1>1, <1>5, KernelAssumption DEF ShellInv, Alone
  <2> QED
    BY <1>5, <2>1 DEF ShellInv, Alone
<1>6. ASSUME NEW s \in Slots, ShellInv, Waits(s) PROVE ShellInv' /\ Waits(s)'
  <2>1. saved'[list.head] = saved[list.head]
    BY <1>6 DEF Waits, ShellInv
  <2>2. list.curr # Null /\ dir' = dir
    BY <1>1, <1>6, KernelAssumption DEF Waits
  <2>3. keys'[s] = << >> /\ ~entered'[s]
    BY <1>6, <2>2 DEF Waits
  <2> QED
    BY <1>6, <2>1, <2>2, <2>3 DEF ShellInv, Waits
<1>7. KInv'
  BY <1>2, <1>3, <1>4, <1>5, <1>6 DEF KInv
<1>8. UNCHANGED Promise!cvars
  <2>1. TheTaken' = TheTaken
    BY DEF TheTaken
  <2>2. Callers' = Callers
    BY <2>1 DEF Callers
  <2> QED
    BY <2>2 DEF Promise!cvars
<1> QED
  BY <1>7, <1>8 DEF Abstract

\* save_current stores the registers in the task they belong to.
LEMMA SavedType ==
    ASSUME KInv, Running, list.curr # Null
    PROVE  /\ Saved \in [Tasks -> Slots]
           /\ \A t \in Tasks : t # list.curr => Saved[t] = saved[t]
           /\ Saved[list.curr] = ctx
  BY WhoRuns DEF KInv, TypeOK, Saved

\* A key that arrives keeps the invariant, and is a step of the promise.
LEMMA KeyStep == ASSUME KInv, NEW k \in Keys \cup {NoKey}, Key(k)
                 PROVE  KInv' /\ Abstract
<1> USE KernelAssumption
<1>1. Running /\ focus \in Slots /\ (list.curr # Null => focus = 0)
  BY WhoRuns DEF Key, KInv, TypeOK, ShellInv
<1>2. /\ keys \in [Slots -> Seq(Keys \cup {NoKey})]
      /\ \A s \in Slots : Len(keys[s]) <= BufferSize
  BY DEF KInv, TypeOK
<1>3. /\ Append(keys[focus], k) \in Seq(Keys \cup {NoKey})
      /\ Len(Append(keys[focus], k)) = Len(keys[focus]) + 1 /\ Len(keys[focus]) \in Nat
  BY <1>1, <1>2, AppendProperties, LenProperties
<1>4. /\ keys' \in [Slots -> Seq(Keys \cup {NoKey})]
      /\ \A s \in Slots : Len(keys'[s]) <= BufferSize
      /\ \A s \in Slots : s # focus => keys'[s] = keys[s]
  <2>1. CASE Len(keys[focus]) < BufferSize
    <3>1. keys' = [keys EXCEPT ![focus] = Append(keys[focus], k)]
      BY <1>1, <2>1 DEF Key
    <3> QED
      BY <1>1, <1>2, <1>3, <2>1, <3>1
  <2>2. CASE ~(Len(keys[focus]) < BufferSize)
    BY <1>1, <1>2, <2>2 DEF Key
  <2> QED
    BY <2>1, <2>2
<1>5. dir' = Back(list, Kernel)
  BY DEF Key
<1>6. UNCHANGED <<taken, ptask, program, focus, list, pidOf, saved, ctx, entered, mode>>
  BY DEF Key, taskvars
<1>7. entered' \in [Slots -> BOOLEAN] /\ saved' \in [Tasks -> Slots]
  BY <1>6 DEF KInv, TypeOK
<1> QED
  BY <1>1, <1>4, <1>5, <1>6, <1>7, QuietStep

\* A tick of the clock keeps the invariant, and is a step of the promise.
LEMMA TickStep == ASSUME KInv, Tick PROVE KInv' /\ Abstract
<1>1. Running
  BY DEF Tick
<1>2. dir' = Back(list, Kernel)
  BY DEF Tick
<1>3. UNCHANGED <<procvars, taskvars, ctx, entered, mode>>
  BY DEF Tick
<1> QED
  BY <1>1, <1>2, <1>3, QuietStep DEF procvars, taskvars, KInv, TypeOK

\* getchar keeps the invariant, and is a step of the promise.
LEMMA GetCharStep == ASSUME KInv, GetChar PROVE KInv' /\ Abstract
<1> USE KernelAssumption
<1>1. Running /\ list.curr # Null /\ Current \in Slots
  BY WhoRuns DEF GetChar, MayDo
<1>2. /\ keys \in [Slots -> Seq(Keys \cup {NoKey})]
      /\ \A s \in Slots : Len(keys[s]) <= BufferSize
      /\ entered \in [Slots -> BOOLEAN]
  BY DEF KInv, TypeOK
<1>3. /\ dir' = Back(list, Kernel) /\ saved' = Saved
      /\ UNCHANGED <<taken, ptask, program, focus, list, pidOf, ctx, mode>>
  BY <1>1 DEF GetChar, Back
<1>4. CASE keys[Current] = << >> /\ UNCHANGED <<keys, entered>>
  BY <1>1, <1>2, <1>3, <1>4, SavedType, QuietStep
<1>5. CASE keys[Current] # << >>
  <2>1. keys' = [keys EXCEPT ![Current] = Tail(keys[Current])]
    BY <1>5 DEF GetChar
  <2>2. PICK ends \in EndsLine(Head(keys[Current])) :
          entered' = [entered EXCEPT ![Current] = ends]
    BY <1>5 DEF GetChar
  <2>3. ends \in BOOLEAN
    BY DEF EndsLine
  <2>4. /\ Tail(keys[Current]) \in Seq(Keys \cup {NoKey})
        /\ Len(Tail(keys[Current])) = Len(keys[Current]) - 1
        /\ Len(keys[Current]) \in Nat
    BY <1>1, <1>2, <1>5, HeadTailProperties, LenProperties
  <2>5. /\ keys' \in [Slots -> Seq(Keys \cup {NoKey})]
        /\ \A s \in Slots : Len(keys'[s]) <= BufferSize
        /\ entered' \in [Slots -> BOOLEAN]
    BY <1>1, <1>2, <2>1, <2>2, <2>3, <2>4
  <2>6. \A s \in Slots : s # Current => keys'[s] = keys[s] /\ entered'[s] = entered[s]
    BY <1>2, <2>1, <2>2
  <2> QED
    BY <1>1, <1>3, <1>5, <2>5, <2>6, SavedType, QuietStep
<1> QED
  BY <1>4, <1>5 DEF GetChar

----------------------------------------------------------------------------
(* system().                                                               *)

\* The least of a set of naturals is in the set.
LEMMA LeastIsIn ==
    ASSUME NEW S, S \subseteq Nat, S # {}
    PROVE  Least(S) \in S
<1>1. \E b \in S : \A c \in S : ~ (<<c, b>> \in OpToRel(<, Nat))
  BY WFMin, NatLessThanWellFounded
<1>2. \E b \in S : \A c \in S : ~ (c < b)
  BY <1>1 DEF OpToRel
<1>3. \E b \in S : \A c \in S : b <= c
  BY <1>2
<1> QED
  BY <1>3 DEF Least

\* A search for a slot ends at one that is free, and not the shell's.
LEMMA FirstFree ==
    ASSUME KInv, Running, list.curr # Null, FreeSlots # {}
    PROVE  Least(FreeSlots) \in Slots \ {0} /\ ~taken[Least(FreeSlots)]
<1>1. FreeSlots \subseteq Nat
  BY KernelAssumption DEF FreeSlots, Slots
<1>2. Least(FreeSlots) \in FreeSlots
  BY <1>1, LeastIsIn
<1>3. taken[0]
  BY WhoRuns, KernelAssumption DEF Alone, Waits, Slots
<1> QED
  BY <1>2, <1>3 DEF FreeSlots, TheTaken

\* What is known of the state in which system() finds a free slot.
LEMMA AtSystem ==
    ASSUME Shallow, KInv, MaySpawn, FreeSlots # {}
    PROVE  /\ Running /\ list.curr # Null /\ Alone /\ ShellInv /\ Current = 0 /\ 0 \in Slots
           /\ list \in ListType /\ list.head \in Tasks
           /\ TheTaken = {0} /\ LiveTasks = {list.head}
           /\ Callers = {}
<1>1. Running /\ list.curr # Null /\ Alone /\ ShellInv /\ Current = 0
  BY OnlyShellSpawns DEF MaySpawn, MayDo
<1>2. 0 \in Slots
  BY KernelAssumption DEF Slots
<1>3. TheTaken = {0}
  BY <1>1, <1>2 DEF TheTaken, Alone
<1>4. Callers = {}
  BY <1>1, <1>3 DEF Callers, ShellInv
<1>5. LiveTasks = {list.head}
  BY <1>1, <1>3 DEF LiveTasks, ShellInv
<1> QED
  BY <1>1, <1>2, <1>3, <1>4, <1>5 DEF KInv, TypeOK, ShellInv

\* system() that finds its program keeps the invariant and enters it.
LEMMA SystemEntersStep ==
    ASSUME Shallow, KInv, NEW p \in Files, NEW t \in Tasks, SystemEnters(p, t)
    PROVE  KInv' /\ Abstract
<1> USE KernelAssumption
<1> PICK a : a = list.head
  OBVIOUS
<1> PICK s : s = Least(FreeSlots)
  OBVIOUS
<1>1. /\ Running /\ list.curr # Null /\ Alone /\ ShellInv /\ Current = 0 /\ 0 \in Slots
      /\ list \in ListType /\ a \in Tasks /\ TheTaken = {0} /\ LiveTasks = {a}
      /\ Callers = {}
  BY AtSystem DEF SystemEnters
<1>2. s \in Slots /\ s # 0 /\ ~taken[s]
  BY <1>1, FirstFree DEF SystemEnters
<1>3. t # a
  BY <1>1 DEF SystemEnters
<1>4. /\ taken' = [taken EXCEPT ![s] = TRUE]
      /\ ptask' = [ptask EXCEPT ![s] = t]
      /\ program' = [program EXCEPT ![s] = p]
      /\ keys' = [keys EXCEPT ![s] = << >>]
      /\ entered' = [entered EXCEPT ![0] = FALSE, ![s] = FALSE]
      /\ pidOf' = [pidOf EXCEPT ![t] = s]
      /\ saved' = [Saved EXCEPT ![t] = s]
      /\ ctx' = s /\ dir' = t
      /\ list' = SwitchTo(Listed(list, t), t)
      /\ UNCHANGED <<focus, mode>>
  BY <1>1 DEF SystemEnters
<1>5. /\ list' \in ListType
      /\ list'.head = a /\ list'.tail = t /\ list'.curr = t
      /\ list'.next[a] = t /\ list'.next[t] = Null
      /\ list'.prev[a] = Null /\ list'.prev[t] = a
  <2> DEFINE m == Listed(list, t)
  <2>1. /\ m \in ListType /\ m.head = a /\ m.tail = t
        /\ m.next[a] = t /\ m.next[t] = Null /\ m.prev[a] = Null /\ m.prev[t] = a
    <3>1. m \in ListType
      BY <1>1, ListTypes
    <3>2. /\ list.head = a /\ list.tail = a
          /\ list.next[a] = Null /\ list.prev[a] = Null
      BY <1>1 DEF Alone, ShellInv
    <3> QED
      BY <1>1, <1>3, <3>1, <3>2, ListedSecond, KernelAssumption
  <2> HIDE DEF m
  <2>2. list' = [m EXCEPT !.curr = t]
    BY <1>4 DEF SwitchTo, m
  <2> QED
    BY <2>1, <2>2 DEF ListType, Pointers
<1>6. Saved \in [Tasks -> Slots] /\ Saved[a] = 0
  BY <1>1, SavedType DEF Alone
<1>7. TypeOK'
  <2>1. << >> \in Seq(Keys \cup {NoKey}) /\ Len(<< >>) = 0
    BY EmptySeq
  <2>2. /\ keys' \in [Slots -> Seq(Keys \cup {NoKey})]
        /\ \A u \in Slots : Len(keys'[u]) <= BufferSize
    BY <1>2, <1>4, <2>1 DEF KInv, TypeOK
  <2>3. /\ taken' \in [Slots -> BOOLEAN] /\ ptask' \in [Slots -> Pointers]
        /\ program' \in [Slots -> Programs] /\ focus' \in Slots
        /\ entered' \in [Slots -> BOOLEAN]
    BY <1>2, <1>4 DEF KInv, TypeOK, Pointers
  <2>4. /\ pidOf' \in [Tasks -> Slots] /\ saved' \in [Tasks -> Slots]
        /\ dir' \in Tasks \cup {Kernel} /\ ctx' \in Slots
        /\ mode' \in {"user", "halted", "wild"}
    BY <1>2, <1>4, <1>6 DEF KInv, TypeOK
  <2> QED
    BY <1>5, <2>2, <2>3, <2>4 DEF TypeOK
<1>8. Running'
  BY <1>1, <1>4 DEF Running
<1>9. /\ taken \in [Slots -> BOOLEAN] /\ ptask \in [Slots -> Pointers]
      /\ program \in [Slots -> Programs] /\ keys \in [Slots -> Seq(Keys \cup {NoKey})]
      /\ entered \in [Slots -> BOOLEAN] /\ pidOf \in [Tasks -> Slots]
  BY DEF KInv, TypeOK
<1>10. \A u \in Slots : taken'[u] <=> u \in {0, s}
  BY <1>1, <1>2, <1>4, <1>9 DEF Alone
<1>11. /\ ptask'[0] = a /\ ptask'[s] = t /\ pidOf'[a] = 0 /\ pidOf'[t] = s
       /\ program'[0] = Shell /\ focus' = 0
  BY <1>1, <1>2, <1>3, <1>4, <1>9 DEF ShellInv
<1>12. ShellInv'
  BY <1>1, <1>5, <1>11 DEF ShellInv
<1>13. saved'[a] = 0
  BY <1>1, <1>3, <1>4, <1>6
<1>14. keys'[s] = << >> /\ ~entered'[s]
  BY <1>1, <1>2, <1>4, <1>9
<1>15. Waits(s)'
  BY <1>2, <1>3, <1>4, <1>5, <1>10, <1>11, <1>13, <1>14 DEF Waits
<1>16. Promise!Call(s) /\ mode' = mode
  <2>1. TheTaken' = {0, s}
    BY <1>1, <1>2, <1>10 DEF TheTaken
  <2>2. Callers' = {s}
    BY <1>1, <1>2, <1>5, <1>11, <2>1 DEF Callers
  <2>3. pidOf'[list'.prev[ptask'[s]]] = 0
    BY <1>5, <1>11
  <2>4. ctx = 0 /\ ctx' = s
    BY <1>1, <1>4 DEF Alone
  <2> QED
    BY <1>1, <1>2, <1>4, <2>2, <2>3, <2>4 DEF Promise!Call, Promise!Active
<1>17. mode' = "user"
  BY <1>8 DEF Running
<1>18. KInv'
  BY <1>2, <1>7, <1>8, <1>12, <1>15 DEF KInv
<1>19. Promise!CNext
  BY <1>2, <1>16, <1>17 DEF Promise!CNext
<1> QED
  BY <1>18, <1>19 DEF Abstract

\* A failed load leaves the shell as it was.
LEMMA FailedLoad ==
    ASSUME Shallow, KInv, MaySpawn, FreeSlots # {},
           UNCHANGED <<taken, program, focus, ctx, mode>>,
           ptask' \in [Slots -> Pointers], ptask'[0] = list.head,
           keys' \in [Slots -> Seq(Keys \cup {NoKey})],
           \A s \in Slots : Len(keys'[s]) <= BufferSize,
           list' \in ListType,
           list'.head = list.head, list'.tail = list.head, list'.curr = list.head,
           list'.next[list.head] = Null, list'.prev[list.head] = Null,
           pidOf' \in [Tasks -> Slots], pidOf'[list.head] = 0,
           saved' \in [Tasks -> Slots],
           entered' \in [Slots -> BOOLEAN],
           dir' = Back(list', list.curr)
    PROVE  KInv' /\ Abstract
<1> USE KernelAssumption
<1>1. /\ Running /\ Alone /\ ShellInv /\ Current = 0 /\ 0 \in Slots
      /\ list.head \in Tasks /\ TheTaken = {0} /\ Callers = {}
  BY AtSystem
<1>2. dir' = list.head
  BY <1>1 DEF Back
<1>3. TypeOK'
  BY <1>1, <1>2 DEF KInv, TypeOK
<1>4. Running' /\ ShellInv' /\ Alone'
  BY <1>1, <1>2 DEF Running, ShellInv, Alone, KInv
<1>5. UNCHANGED Promise!cvars
  <2>1. TheTaken' = {0}
    BY <1>1 DEF TheTaken
  <2>2. Callers' = {}
    BY <1>1, <2>1 DEF Callers
  <2> QED
    BY <1>1, <2>2 DEF Promise!cvars
<1> QED
  BY <1>3, <1>4, <1>5 DEF KInv, Abstract

\* system() that finds no free slot returns to its caller.
LEMMA SystemFullStep ==
    ASSUME KInv, SystemFails,
           saved' = Saved, UNCHANGED <<ptask, keys, list, pidOf>>
    PROVE  KInv' /\ Abstract
<1>1. Running /\ list.curr # Null /\ Current \in Slots
  BY WhoRuns DEF SystemFails, MaySpawn, MayDo
<1>2. /\ UNCHANGED <<taken, ptask, program, keys, focus, list, pidOf, ctx, mode>>
      /\ entered' = [entered EXCEPT ![Current] = FALSE]
      /\ dir' = Back(list, Kernel)
  BY <1>1 DEF SystemFails, Back
<1>3. /\ entered \in [Slots -> BOOLEAN]
      /\ keys' \in [Slots -> Seq(Keys \cup {NoKey})]
      /\ \A u \in Slots : Len(keys'[u]) <= BufferSize
  BY <1>2 DEF KInv, TypeOK
<1>4. /\ entered' \in [Slots -> BOOLEAN]
      /\ \A u \in Slots : ~entered[u] => ~entered'[u]
  BY <1>1, <1>2, <1>3
<1> QED
  BY <1>1, <1>2, <1>3, <1>4, SavedType, QuietStep

\* system() that fails keeps the invariant and returns to its caller.
LEMMA SystemFailsStep ==
    ASSUME Shallow, KInv, SystemFails, FreeSlots # {}
    PROVE  KInv' /\ Abstract
<1> USE KernelAssumption
<1> PICK a : a = list.head
  OBVIOUS
<1> PICK s : s = Least(FreeSlots)
  OBVIOUS
<1>1. /\ Running /\ list.curr # Null /\ Alone /\ ShellInv /\ Current = 0 /\ 0 \in Slots
      /\ list \in ListType /\ a \in Tasks /\ LiveTasks = {a}
  BY AtSystem DEF SystemFails
<1>2. /\ MaySpawn
      /\ UNCHANGED <<taken, program, focus, ctx, mode>>
      /\ entered' = [entered EXCEPT ![0] = FALSE]
      /\ dir' = Back(list', list.curr)
  BY <1>1 DEF SystemFails
<1>3. entered' \in [Slots -> BOOLEAN]
  BY <1>2 DEF KInv, TypeOK
<1>4. /\ ptask \in [Slots -> Pointers] /\ pidOf \in [Tasks -> Slots]
      /\ keys \in [Slots -> Seq(Keys \cup {NoKey})]
      /\ \A u \in Slots : Len(keys[u]) <= BufferSize
  BY DEF KInv, TypeOK
<1>5. Saved \in [Tasks -> Slots]
  BY <1>1, SavedType
<1>6. /\ list.head = a /\ list.tail = a /\ list.curr = a
      /\ list.next[a] = Null /\ list.prev[a] = Null
      /\ ptask[0] = a /\ pidOf[a] = 0
  BY <1>1 DEF Alone, ShellInv
\* What is left of the slot does no harm.
<1>7. ASSUME NEW t \in Pointers, Leaves(s, t)
      PROVE  /\ s \in Slots /\ s # 0
             /\ ptask' \in [Slots -> Pointers] /\ ptask'[0] = a
             /\ keys' \in [Slots -> Seq(Keys \cup {NoKey})]
             /\ \A u \in Slots : Len(keys'[u]) <= BufferSize
  <2>1. s \in Slots /\ s # 0
    BY <1>1, <1>7, FirstFree
  <2>2. <<NoKey>> \in Seq(Keys \cup {NoKey}) /\ Len(<<NoKey>>) = 1
    OBVIOUS
  <2> QED
    BY <1>1, <1>4, <1>6, <1>7, <2>1, <2>2 DEF Leaves
<1>9. CASE /\ Leaves(s, Null)
           /\ saved' = Saved /\ UNCHANGED <<list, pidOf>>
  <2>1. Null \in Pointers
    BY DEF Pointers
  <2> QED
    BY <1>1, <1>2, <1>3, <1>4, <1>5, <1>6, <1>7, <1>9, <2>1, FailedLoad
<1>10. ASSUME NEW t \in Tasks \ LiveTasks, Leaves(s, t),
              list' = Remove(Listed(list, t), t),
              pidOf' = [pidOf EXCEPT ![t] = s], saved' = [Saved EXCEPT ![t] = s]
       PROVE  KInv' /\ Abstract
  <2>1. t # a /\ t \in Pointers
    BY <1>1 DEF Pointers
  <2> DEFINE m == Listed(list, t)
  <2>2. /\ m \in ListType /\ m.head = a /\ m.tail = t /\ m.curr = a
        /\ m.next[a] = t /\ m.next[t] = Null /\ m.prev[a] = Null /\ m.prev[t] = a
    <3>1. m \in ListType
      BY <1>1, ListTypes
    <3> QED
      BY <1>1, <1>6, <2>1, <3>1, ListedSecond
  <2>3. list' = Remove(m, t)
    BY <1>10
  <2> HIDE DEF m
  <2>4. /\ list' \in ListType /\ list'.head = a /\ list'.tail = a
        /\ list'.curr = a /\ list'.next[a] = Null /\ list'.prev[a] = Null
    <3>1. Remove(m, t) \in ListType
      BY <2>2, ListTypes
    <3> QED
      BY <1>1, <2>1, <2>2, <2>3, <3>1, RemoveSecond
  <2>5. /\ s \in Slots /\ ptask' \in [Slots -> Pointers] /\ ptask'[0] = a
        /\ keys' \in [Slots -> Seq(Keys \cup {NoKey})]
        /\ \A u \in Slots : Len(keys'[u]) <= BufferSize
    BY <1>7, <1>10, <2>1
  <2>6. /\ pidOf' \in [Tasks -> Slots] /\ pidOf'[a] = 0
        /\ saved' \in [Tasks -> Slots]
    BY <1>1, <1>4, <1>5, <1>6, <1>10, <2>1, <2>5
  <2> QED
    BY <1>2, <1>3, <1>6, <2>4, <2>5, <2>6, FailedLoad
<1> QED
  BY <1>9, <1>10 DEF SystemFails

\* Where the registers of a null task are used, every variable is still in
\* its set, and the promise has ended.
LEMMA SystemWildStep ==
    ASSUME KInv, SystemRunsWild
    PROVE  KInv' /\ Abstract
<1> USE KernelAssumption
<1> PICK s : s = Least(FreeSlots)
  OBVIOUS
<1>1. Running /\ list.curr \in Tasks /\ Current \in Slots /\ FreeSlots # {}
  BY WhoRuns DEF SystemRunsWild, MaySpawn, MayDo
<1>2. s \in Slots
  BY <1>1, FirstFree
<1>3. /\ ptask' = [ptask EXCEPT ![s] = Null] /\ keys' = [keys EXCEPT ![s] = <<NoKey>>]
      /\ entered' = [entered EXCEPT ![Current] = FALSE]
      /\ saved' = Saved /\ dir' = list.curr /\ mode' = "wild"
      /\ UNCHANGED <<taken, program, focus, pidOf, ctx>>
  BY DEF SystemRunsWild, Leaves
<1>4. list' \in ListType
  <2>1. list \in ListType
    BY DEF KInv, TypeOK
  <2>2. ASSUME NEW t \in Tasks PROVE Remove(Cleared(list, t), t) \in ListType
    BY <2>1, ListTypes
  <2> QED
    BY <2>1, <2>2 DEF SystemRunsWild
<1>5. saved' \in [Tasks -> Slots]
  BY <1>1, <1>3, SavedType
<1>6. /\ keys' \in [Slots -> Seq(Keys \cup {NoKey})]
      /\ \A u \in Slots : Len(keys'[u]) <= BufferSize
  <2>1. <<NoKey>> \in Seq(Keys \cup {NoKey}) /\ Len(<<NoKey>>) = 1
    OBVIOUS
  <2> QED
    BY <1>2, <1>3, <2>1 DEF KInv, TypeOK
<1>7. ptask' \in [Slots -> Pointers] /\ entered' \in [Slots -> BOOLEAN]
  BY <1>3 DEF KInv, TypeOK, Pointers
<1>8. TypeOK'
  BY <1>1, <1>3, <1>4, <1>5, <1>6, <1>7 DEF KInv, TypeOK
<1> QED
  BY <1>3, <1>8 DEF KInv, Running, Abstract, Promise!CNext

----------------------------------------------------------------------------
(* exit(), and the ways to halt.                                           *)

\* The shell that ends, alone, leaves no process and no task.
LEMMA LastExitStep == ASSUME KInv, Exit, Alone PROVE KInv' /\ Abstract
<1> USE KernelAssumption
<1> PICK a : a = list.head
  OBVIOUS
<1>1. Running /\ list.curr # Null
  BY DEF Exit, MayDo
<1>2. /\ ShellInv /\ 0 \in Slots /\ list \in ListType /\ Current = 0
      /\ a \in Tasks /\ ptask[0] = a /\ list.head = a /\ list.tail = a
  BY <1>1, WhoRuns DEF KInv, TypeOK, ShellInv, Alone, Slots
<1> PICK m : m = Terminated
  OBVIOUS
<1>3. m \in ListType /\ m.head = Null /\ m.tail = Null /\ m.curr = Null
  <2>1. m = Remove(list, a)
    BY <1>2 DEF Terminated
  <2>2. m \in ListType
    BY <1>2, <2>1, ListTypes
  <2>3. m = [list EXCEPT !.head = Null, !.tail = Null, !.curr = Null]
    BY <1>2, <2>1 DEF Remove
  <2> QED
    BY <1>2, <2>2, <2>3 DEF ListType
<1>4. /\ list' = m /\ dir' = Kernel /\ ctx' = ctx /\ saved' = Saved
      /\ UNCHANGED <<entered, mode>>
  BY <1>3 DEF Exit
<1>5. TheTaken = {0} /\ Callers = {}
  BY <1>2 DEF TheTaken, Callers, Alone, ShellInv
<1>6. /\ taken' = [taken EXCEPT ![0] = FALSE]
      /\ focus' = focus
      /\ UNCHANGED <<ptask, program, keys, pidOf>>
  BY <1>2, <1>5 DEF Exit, Terminate
<1>7. Saved \in [Tasks -> Slots]
  BY <1>1, SavedType
<1>8. TypeOK'
  BY <1>3, <1>4, <1>6, <1>7 DEF KInv, TypeOK
<1>9. \A u \in Slots : ~taken'[u]
  BY <1>2, <1>6 DEF KInv, TypeOK, Alone
<1>10. KInv'
  BY <1>3, <1>4, <1>8, <1>9 DEF KInv, Ended
<1>11. Callers' = {}
  BY <1>9 DEF Callers, TheTaken
<1>12. UNCHANGED Promise!cvars
  BY <1>4, <1>5, <1>11 DEF Promise!cvars
<1> QED
  BY <1>10, <1>12 DEF Abstract

\* exit keeps the invariant and returns to the caller of the process.
LEMMA ExitStep == ASSUME KInv, Exit, ~Alone PROVE KInv' /\ Abstract
<1> USE KernelAssumption
<1>0. Running /\ list.curr # Null
  BY DEF Exit, MayDo
<1> PICK s \in Slots : Waits(s)
  BY <1>0, WhoRuns
<1> PICK a : a = list.head
  OBVIOUS
<1> PICK b : b = ptask[s]
  OBVIOUS
<1>1. /\ Running /\ ShellInv /\ 0 \in Slots /\ list \in ListType
      /\ Current = s /\ s # 0 /\ ctx = s
      /\ a \in Tasks /\ b \in Tasks /\ a # b
      /\ ptask[0] = a /\ pidOf[a] = 0 /\ focus = 0 /\ program[0] = Shell
      /\ saved[a] = 0
      /\ \A u \in Slots : taken[u] <=> u \in {0, s}
  BY <1>0, WhoRuns DEF KInv, TypeOK, ShellInv, Waits, Current, Slots
<1>2. /\ list.head = a /\ list.tail = b /\ list.curr = b
      /\ list.next[a] = b /\ list.next[b] = Null
      /\ list.prev[a] = Null /\ list.prev[b] = a
  BY <1>1 DEF Waits, ShellInv
<1> PICK m : m = Terminated
  OBVIOUS
<1>3. /\ m \in ListType /\ m.head = a /\ m.tail = a /\ m.curr = a
      /\ m.next[a] = Null /\ m.prev[a] = Null
  <2>1. m = Remove(list, b)
    BY <1>1 DEF Terminated
  <2>2. m \in ListType
    BY <1>1, <2>1, ListTypes
  <2> QED
    BY <1>1, <1>2, <2>1, <2>2, RemoveSecond
<1>4. NextTask(m) = a
  BY <1>3 DEF NextTask
<1> PICK w : w = SwitchTo(m, a)
  OBVIOUS
<1>5. /\ w \in ListType /\ w.head = a /\ w.tail = a /\ w.curr = a
      /\ w.next[a] = Null /\ w.prev[a] = Null
  BY <1>1, <1>3 DEF SwitchTo, ListType, Pointers
<1>6. NextTask(w) = a
  BY <1>5 DEF NextTask
<1>7. /\ list' = w /\ dir' = a /\ ctx' = Saved[a] /\ saved' = Saved
      /\ UNCHANGED <<entered, mode>>
  BY <1>1, <1>3, <1>4, <1>5, <1>6 DEF Exit
<1>8. Saved \in [Tasks -> Slots] /\ Saved[a] = 0
  BY <1>1, <1>2, SavedType
<1>9. /\ taken' = [taken EXCEPT ![s] = FALSE]
      /\ focus' = 0
      /\ UNCHANGED <<ptask, program, keys, pidOf>>
  BY <1>1 DEF Exit, Terminate
<1>10. TypeOK'
  BY <1>1, <1>5, <1>7, <1>8, <1>9 DEF KInv, TypeOK
<1>11. \A u \in Slots : taken'[u] <=> u = 0
  BY <1>1, <1>9 DEF KInv, TypeOK
<1>12. ShellInv' /\ Alone'
  BY <1>1, <1>5, <1>7, <1>8, <1>9, <1>11 DEF ShellInv, Alone
<1>13. Running' /\ mode' = "user"
  BY <1>1, <1>7 DEF Running
<1>14. KInv'
  BY <1>10, <1>12, <1>13 DEF KInv
<1>15. Promise!Return
  <2>1. TheTaken = {0, s} /\ TheTaken' = {0}
    BY <1>1, <1>11 DEF TheTaken
  <2>2. Callers = {s}
    BY <1>1, <1>2, <2>1 DEF Callers
  <2>3. Callers' = {}
    BY <1>1, <1>5, <1>7, <1>9, <2>1 DEF Callers
  <2>4. pidOf[list.prev[ptask[s]]] = 0 /\ ctx' = 0
    BY <1>1, <1>2, <1>7, <1>8
  <2> QED
    BY <1>1, <2>2, <2>3, <2>4 DEF Promise!Return
<1> QED
  BY <1>13, <1>14, <1>15 DEF Abstract, Promise!CNext

\* A fault halts the machine, and is a step of the promise.
LEMMA FaultStep == ASSUME KInv, Fault PROVE KInv' /\ Abstract
<1> USE KernelAssumption
<1>1. Running
  BY DEF Fault, MayDo
<1>11. CASE list.curr = Null
  <2>1. /\ mode' = "halted" /\ dir' = Kernel
        /\ UNCHANGED <<procvars, pidOf, list, saved, ctx, entered>>
    BY <1>11 DEF Fault
  <2>2. TypeOK'
    BY <2>1 DEF KInv, TypeOK, procvars
  <2> QED
    BY <2>1, <2>2 DEF KInv, Running, Abstract, Promise!CNext
<1>12. SUFFICES ASSUME list.curr # Null PROVE KInv' /\ Abstract
  BY <1>11
<1>2. /\ list.curr \in Tasks /\ Current \in Slots
      /\ ptask[Current] = list.curr /\ list \in ListType
  BY <1>1, <1>12, WhoRuns DEF KInv, TypeOK
<1>3. Terminate
  BY <1>12 DEF Fault
<1>4. Terminated \in ListType
  BY <1>2, ListTypes DEF Terminated
<1>5. list' \in ListType
  <2>1. CASE Terminated.curr = Null
    BY <1>12, <1>4, <2>1 DEF Fault
  <2>2. CASE Terminated.curr # Null
    <3>1. Terminated.curr \in Tasks
      BY <1>4, <2>2 DEF ListType, Pointers
    <3>2. NextTask(Terminated) \in Pointers
      BY <1>2, <1>4, <3>1, ListTypes
    <3>3. list' = SwitchTo(Terminated, NextTask(Terminated))
      BY <1>12, <2>2 DEF Fault
    <3> QED
      BY <1>2, <1>4, <3>2, <3>3, ListTypes
  <2> QED
    BY <2>1, <2>2
<1>6. dir' \in Tasks \cup {Kernel}
  <2>1. dir' = Back(list', Kernel)
    BY <1>12 DEF Fault
  <2> QED
    BY <1>5, <2>1 DEF Back, ListType, Pointers
<1>7. focus' \in Slots
  <2>1. TheTaken \ {Current} \subseteq Slots /\ TheTaken \ {Current} \subseteq Nat
    BY DEF TheTaken, Slots
  <2>2. TheTaken \ {Current} # {} => Least(TheTaken \ {Current}) \in TheTaken \ {Current}
    BY <2>1, LeastIsIn
  <2> QED
    BY <1>3, <2>1, <2>2 DEF Terminate, KInv, TypeOK
<1>8. taken' \in [Slots -> BOOLEAN]
  BY <1>3 DEF Terminate, KInv, TypeOK
<1>9. mode' = "halted" /\ UNCHANGED <<ptask, program, keys, pidOf, saved, ctx, entered>>
  BY <1>3 DEF Fault, Terminate
<1>10. TypeOK'
  BY <1>5, <1>6, <1>7, <1>8, <1>9 DEF KInv, TypeOK
<1> QED
  BY <1>9, <1>10 DEF KInv, Running, Abstract, Promise!CNext

\* save_current panics only when the last process has ended.
LEMMA PanicStep == ASSUME KInv, Panic PROVE KInv' /\ Abstract
<1>1. /\ mode' = "halted" /\ dir' = Kernel
      /\ UNCHANGED <<procvars, taskvars, ctx, entered>>
  BY DEF Panic
<1>2. TypeOK'
  BY <1>1 DEF KInv, TypeOK, procvars, taskvars
<1> QED
  BY <1>1, <1>2 DEF KInv, Running, Abstract, Promise!CNext

\* The kernel starts with the shell, as the promise does.
LEMMA InitStep == Init => KInv /\ Promise!CInit
<1> USE KernelAssumption
<1> SUFFICES ASSUME Init PROVE KInv /\ Promise!CInit
  OBVIOUS
<1>1. PICK t \in Tasks :
        /\ taken = [s \in Slots |-> s = 0]
        /\ ptask = [s \in Slots |-> IF s = 0 THEN t ELSE Null]
        /\ program = [s \in Slots |-> Shell]
        /\ keys = [s \in Slots |-> IF s = 0 THEN << >> ELSE <<NoKey>>]
        /\ focus = 0
        /\ list = Listed(NoTasks, t)
        /\ pidOf = [u \in Tasks |-> 0] /\ saved = [u \in Tasks |-> 0]
        /\ dir = t /\ ctx = 0
        /\ entered = [s \in Slots |-> FALSE]
        /\ mode = "user"
  BY DEF Init
<1>2. 0 \in Slots
  BY DEF Slots
<1>3. NoTasks \in ListType
  BY DEF NoTasks, ListType, Pointers
<1>4. /\ list.head = t /\ list.tail = t /\ list.curr = t
      /\ list.next[t] = Null /\ list.prev[t] = Null
  BY <1>1, <1>3 DEF Listed, Cleared, With, NoTasks, ListType
<1>5. list \in ListType
  BY <1>1, <1>3, ListTypes
<1>6. /\ keys \in [Slots -> Seq(Keys \cup {NoKey})]
      /\ \A s \in Slots : Len(keys[s]) <= BufferSize
  <2>1. << >> \in Seq(Keys \cup {NoKey}) /\ Len(<< >>) = 0
    BY EmptySeq
  <2>2. <<NoKey>> \in Seq(Keys \cup {NoKey}) /\ Len(<<NoKey>>) = 1
    OBVIOUS
  <2>3. 1 <= BufferSize /\ 0 <= BufferSize
    OBVIOUS
  <2>4. ASSUME NEW s \in Slots
        PROVE  keys[s] \in Seq(Keys \cup {NoKey}) /\ Len(keys[s]) <= BufferSize
    <3>1. CASE s = 0
      BY <1>1, <2>1, <2>3, <3>1
    <3>2. CASE s # 0
      BY <1>1, <2>2, <2>3, <3>2
    <3> QED
      BY <3>1, <3>2
  <2>5. keys = [s \in Slots |-> keys[s]]
    BY <1>1
  <2> QED
    BY <2>4, <2>5
<1>7. TypeOK
  BY <1>1, <1>2, <1>5, <1>6 DEF TypeOK, Pointers
<1>8. ShellInv /\ Alone
  BY <1>1, <1>2, <1>4 DEF ShellInv, Alone
<1>9. Promise!CInit
  <2>1. TheTaken = {0}
    BY <1>1, <1>2 DEF TheTaken
  <2>2. Callers = {}
    BY <1>1, <1>2, <1>4, <2>1 DEF Callers
  <2> QED
    BY <1>1, <1>2, <2>2 DEF Promise!CInit
<1> QED
  BY <1>1, <1>7, <1>8, <1>9 DEF KInv

\* Every step keeps the invariant and is a step of the promise, or none.
LEMMA NextStep ==
    ASSUME Shallow, KInv, [Next]_vars
    PROVE  KInv' /\ Abstract
<1>1. CASE UNCHANGED vars
  <2>1. KInv'
    BY <1>1 DEF vars, procvars, taskvars, KInv, TypeOK, Running, ShellInv, Alone, Waits, Ended
  <2>2. UNCHANGED Promise!cvars
    BY <1>1 DEF vars, procvars, taskvars, Promise!cvars, Callers, TheTaken
  <2> QED
    BY <2>1, <2>2 DEF Abstract
<1>2. CASE \E k \in Keys \cup {NoKey} : Key(k)
  BY <1>2, KeyStep
<1>3. CASE Tick
  BY <1>3, TickStep
<1>4. CASE GetChar
  BY <1>4, GetCharStep
<1>5. CASE System
  <2>1. CASE SystemFails
    <3>1. CASE FreeSlots # {}
      BY <2>1, <3>1, SystemFailsStep
    <3>2. CASE FreeSlots = {}
      <4>1. saved' = Saved /\ UNCHANGED <<ptask, keys, list, pidOf>>
        BY <2>1, <3>2 DEF SystemFails
      <4> QED
        BY <2>1, <4>1, SystemFullStep
    <3> QED
      BY <3>1, <3>2
  <2> QED
    BY <1>5, <2>1, SystemEntersStep, SystemWildStep DEF System
<1>6. CASE Exit
  BY <1>6, ExitStep, LastExitStep
<1>7. CASE Fault
  BY <1>7, FaultStep
<1>8. CASE Panic
  BY <1>8, PanicStep
<1> QED
  BY <1>1, <1>2, <1>3, <1>4, <1>5, <1>6, <1>7, <1>8 DEF Next

----------------------------------------------------------------------------
(* The theorems.                                                           *)

\* While system() is not nested the kernel is in one of three situations: the
\* shell runs alone, or it waits for one process to which no key is typed and
\* which can start no other, or it has ended.
THEOREM KernelInvariance == Shallow => (Spec => []KInv)
<1> SUFFICES ASSUME Shallow PROVE Spec => []KInv
  OBVIOUS
<1>1. Init => KInv
  BY InitStep
<1>2. KInv /\ [Next]_vars => KInv'
  BY NextStep
<1> QED
  BY <1>1, <1>2, PTL DEF Spec

\* Every variable of the kernel stays in its set: no slot, task or pointer of
\* the list is ever one that does not exist, and a buffer never exceeds its size.
THEOREM KernelTypeCorrect == Shallow => (Spec => []TypeOK)
<1> SUFFICES ASSUME Shallow PROVE Spec => []TypeOK
  OBVIOUS
<1>1. KInv => TypeOK
  BY DEF KInv
<1> QED
  BY <1>1, KernelInvariance, PTL

\* The registers, the directory and the current task are always those of one
\* process: exit resumes the process it switches to.
THEOREM KernelContext == Shallow => (Spec => []ContextMatches)
<1> SUFFICES ASSUME Shallow PROVE Spec => []ContextMatches
  OBVIOUS
<1>1. KInv => ContextMatches
  BY WhoRuns DEF ContextMatches
<1> QED
  BY <1>1, KernelInvariance, PTL

\* A process that waits in system() keeps its own registers.
THEOREM KernelSaved == Shallow => (Spec => []SavedIntact)
<1> SUFFICES ASSUME Shallow PROVE Spec => []SavedIntact
  OBVIOUS
<1>1. KInv => SavedIntact
  BY DEF KInv, SavedIntact, TheTaken, ShellInv, Alone, Waits, Ended
<1> QED
  BY <1>1, KernelInvariance, PTL

\* exit returns to user mode without a task only when the last process has
\* ended: no list of two tasks is ever emptied.  Where a third process is
\* started this is not so, see the README.
THEOREM KernelEnds == Shallow => (Spec => []NoTaskNoProcess)
<1> SUFFICES ASSUME Shallow PROVE Spec => []NoTaskNoProcess
  OBVIOUS
<1>1. KInv => NoTaskNoProcess
  <2>1. SUFFICES ASSUME KInv, Running, list.curr = Null PROVE TheTaken = {}
    BY DEF NoTaskNoProcess
  <2>2. Ended
    BY <2>1, KernelAssumption DEF KInv, ShellInv, Alone, Waits
  <2> QED
    BY <2>2 DEF Ended, TheTaken
<1> QED
  BY <1>1, KernelInvariance, PTL

\* A shell that never calls exit() is there as long as the kernel runs.
Lives == mode = "user" => taken[0] /\ list.curr # Null

LEMMA ShellLives == Lasting => (Spec => []Lives)
<1> SUFFICES ASSUME Lasting PROVE Spec => []Lives
  OBVIOUS
<1> USE KernelAssumption
<1>1. 0 \in Slots /\ Shallow
  BY DEF Slots, Lasting
<1>2. ASSUME KInv, Running PROVE Ended <=> ~taken[0]
  BY <1>1, <1>2 DEF KInv, Ended, ShellInv, Alone, Waits
<1>3. ASSUME KInv, Running, ~Ended PROVE list.curr # Null
  BY <1>3 DEF KInv, ShellInv, Alone, Waits
<1>4. ASSUME Init PROVE Lives
  <2>1. taken[0]
    <3>1. taken = [s \in Slots |-> s = 0]
      BY <1>4, Zenon DEF Init
    <3> QED
      BY <1>1, <3>1
  <2>2. KInv
    BY <1>4, InitStep
  <2> QED
    BY <1>2, <1>3, <2>1, <2>2 DEF Lives, Running
<1>5. ASSUME KInv, KInv', Lives, [Next]_vars PROVE Lives'
  <2>1. SUFFICES ASSUME Running' PROVE taken'[0]
    <3>1. Running' /\ taken'[0] => ~Ended'
      BY <1>1 DEF Ended
    <3>2. Running' /\ ~Ended' => list'.curr # Null
      BY <1>5 DEF KInv, ShellInv, Alone, Waits
    <3> QED
      BY <3>1, <3>2 DEF Lives, Running
  <2>2. taken \in [Slots -> BOOLEAN]
    BY <1>5 DEF KInv, TypeOK
  <2>3. CASE taken' = taken /\ Running
    BY <1>5, <2>3 DEF Lives, Running
  <2>4. CASE Exit
    <3>1. Running /\ list.curr # Null
      BY <2>4 DEF Exit, MayDo
    <3>2. Current # 0
      <4>1. SUFFICES ASSUME Current = 0 PROVE FALSE
        OBVIOUS
      <4>2. InPlace /\ program[0] = Shell
        BY <1>5, <3>1, WhoRuns DEF ShellInv
      <4> QED
        BY <2>4, <4>1, <4>2 DEF Exit, MayDo, Lasting
    <3>3. taken' = [taken EXCEPT ![Current] = FALSE]
      BY <2>4 DEF Exit, Terminate
    <3> QED
      BY <1>1, <1>5, <2>2, <3>1, <3>2, <3>3 DEF Lives, Running
  <2>5. ASSUME NEW p \in Files, NEW t \in Tasks, SystemEnters(p, t) PROVE taken'[0]
    <3>1. Running /\ taken' = [taken EXCEPT ![Least(FreeSlots)] = TRUE]
      BY <2>5 DEF SystemEnters, MaySpawn, MayDo
    <3> QED
      BY <1>1, <1>5, <2>2, <3>1 DEF Lives, Running
  <2>6. CASE UNCHANGED vars
    <3>1. taken' = taken /\ mode' = mode
      BY <2>6 DEF vars, procvars
    <3> QED
      BY <2>1, <2>3, <3>1 DEF Running
  <2>7. CASE Next /\ ~Exit /\ ~(\E p \in Files, t \in Tasks : SystemEnters(p, t))
    <3>1. CASE Fault \/ Panic
      BY <2>1, <3>1 DEF Fault, Panic, Running
    <3>2. CASE ~(Fault \/ Panic)
      <4>1. \/ \E k \in Keys \cup {NoKey} : Key(k)
            \/ Tick \/ GetChar \/ SystemFails \/ SystemRunsWild
        BY <2>7, <3>2 DEF Next, System
      <4>2. taken' = taken /\ Running
        BY <4>1 DEF Key, Tick, GetChar, SystemFails, SystemRunsWild, MaySpawn, MayDo, procvars
      <4> QED
        BY <2>3, <4>2
    <3> QED
      BY <3>1, <3>2
  <2> QED
    BY <1>5, <2>4, <2>5, <2>6, <2>7
<1> QED
  BY <1>1, <1>4, <1>5, KernelInvariance, PTL DEF Spec

\* The links of the task list agree, and no pointer of it dangles.
THEOREM KernelList == Lasting => (Spec => []ListIntact)
<1> SUFFICES ASSUME Lasting PROVE Spec => []ListIntact
  OBVIOUS
<1>1. ASSUME KInv, Lives, Running PROVE ListIntact
  <2>1. 0 \in Slots /\ Null \notin Tasks
    BY KernelAssumption DEF Slots
  <2>2. ShellInv /\ (Alone \/ \E s \in Slots : Waits(s))
    BY <1>1, WhoRuns DEF Lives, Running
  <2>3. CASE Alone
    <3>1. TheTaken = {0}
      BY <2>1, <2>3 DEF TheTaken, Alone
    <3>2. LiveTasks = {list.head}
      BY <2>2, <3>1 DEF LiveTasks, ShellInv
    <3> QED
      BY <2>1, <2>2, <2>3, <3>1, <3>2 DEF ListIntact, ShellInv, Alone
  <2>4. ASSUME NEW s \in Slots, Waits(s) PROVE ListIntact
    <3>1. TheTaken = {0, s}
      BY <2>1, <2>4 DEF TheTaken, Waits
    <3>2. LiveTasks = {list.head, ptask[s]}
      BY <2>2, <3>1 DEF LiveTasks, ShellInv
    <3> QED
      BY <2>1, <2>2, <2>4, <3>1, <3>2 DEF ListIntact, ShellInv, Waits
  <2> QED
    BY <2>2, <2>3, <2>4
<1>2. KInv /\ Lives => ListIntact
  BY <1>1 DEF ListIntact
<1>3. Shallow
  BY DEF Lasting
<1> QED
  BY <1>2, <1>3, KernelInvariance, ShellLives, PTL

\* The keyboard stays with the shell, and no other process is given a key.
THEOREM KernelKeyboard == Lasting => (Spec => []ShellHasKeyboard)
<1> SUFFICES ASSUME Lasting PROVE Spec => []ShellHasKeyboard
  OBVIOUS
<1>1. 0 \in Slots /\ Shallow
  BY KernelAssumption DEF Slots, Lasting
<1>2. ASSUME KInv, Lives, Running
      PROVE  /\ taken[focus] /\ program[focus] = Shell
             /\ \A s \in TheTaken \ {focus} : keys[s] = << >>
  <2>1. ShellInv /\ (Alone \/ \E s \in Slots : Waits(s)) /\ taken[0]
    BY <1>2, WhoRuns DEF Lives, Running
  <2> QED
    BY <1>1, <2>1 DEF TheTaken, ShellInv, Alone, Waits
<1>3. KInv /\ Lives => ShellHasKeyboard
  BY <1>2 DEF ShellHasKeyboard
<1> QED
  BY <1>1, <1>3, KernelInvariance, ShellLives, PTL

\* There are never more than two processes, so exit never has to choose
\* between several tasks.
THEOREM KernelTwo == Shallow => (Spec => []AtMostTwo)
<1> SUFFICES ASSUME Shallow PROVE Spec => []AtMostTwo
  OBVIOUS
<1>1. 0 \in Slots
  BY KernelAssumption DEF Slots
<1>2. ASSUME KInv, Running PROVE Cardinality(TheTaken) <= 2
  <2>1. CASE Alone
    <3>1. TheTaken = {0}
      BY <1>1, <2>1 DEF TheTaken, Alone
    <3>2. Cardinality({0}) = 1
      BY FS_Singleton
    <3> QED
      BY <3>1, <3>2
  <2>2. ASSUME NEW s \in Slots, Waits(s) PROVE Cardinality(TheTaken) <= 2
    <3>1. TheTaken = {0} \cup {s}
      BY <1>1, <2>2 DEF TheTaken, Waits
    <3>2. IsFiniteSet({0}) /\ Cardinality({0}) = 1
      BY FS_Singleton
    <3>3. Cardinality({0} \cup {s}) = IF s \in {0} THEN 1 ELSE 2
      BY <3>2, FS_AddElement
    <3> QED
      BY <3>1, <3>3
  <2> QED
    <3>1. CASE Ended
      <4>1. TheTaken = {}
        BY <3>1 DEF Ended, TheTaken
      <4>2. Cardinality({}) = 0
        BY FS_EmptySet
      <4> QED
        BY <4>1, <4>2
    <3> QED
      BY <1>2, <2>1, <2>2, <3>1 DEF KInv
<1>3. KInv => AtMostTwo
  BY <1>2 DEF AtMostTwo
<1> QED
  BY <1>3, KernelInvariance, PTL

\* There is always a next task, since the shell is always there, as timer.cpp
\* has it.  A page directory that is refused empties the list all the same.
THEOREM KernelNextTask ==
    Lasting /\ "directory" \notin Refusals => (Spec => []AlwaysNextTask)
<1> SUFFICES ASSUME Lasting, "directory" \notin Refusals PROVE Spec => []AlwaysNextTask
  OBVIOUS
<1>1. Init /\ Lives => AlwaysNextTask
  BY DEF Init, Lives, AlwaysNextTask
<1>2. ASSUME TypeOK', Lives, Lives', AlwaysNextTask, [Next]_vars PROVE AlwaysNextTask'
  <2>1. CASE mode' # "wild"
    BY <1>2, <2>1 DEF TypeOK, Lives, AlwaysNextTask
  <2>2. CASE mode' = "wild" /\ mode = "wild"
    <3>1. UNCHANGED vars
      BY <1>2, <2>2 DEF Next, Key, Tick, GetChar, System, SystemEnters, SystemFails,
                        SystemRunsWild, Exit, Fault, Panic, MaySpawn, MayDo, Running
    <3> QED
      BY <1>2, <3>1 DEF AlwaysNextTask, vars, procvars, taskvars
  <2>3. CASE mode' = "wild" /\ mode # "wild"
    <3>1. SystemRunsWild
      BY <1>2, <2>3 DEF Next, Key, Tick, GetChar, System, SystemEnters, SystemFails,
                        Exit, Fault, Panic, vars
    <3>2. taken' = taken /\ list' = list /\ mode = "user"
      BY <3>1 DEF SystemRunsWild, MaySpawn, MayDo, Running
    <3> QED
      BY <1>2, <3>2 DEF Lives, AlwaysNextTask
  <2> QED
    BY <2>1, <2>2, <2>3
<1>3. Shallow
  BY DEF Lasting
<1> QED
  BY <1>1, <1>2, <1>3, KernelTypeCorrect, ShellLives, PTL DEF Spec

\* system() and exit() are a call and a return.
THEOREM KernelImplementsCalls == Shallow => (Spec => CallsRefinement)
<1> SUFFICES ASSUME Shallow PROVE Spec => CallsRefinement
  OBVIOUS
<1>1. Init => Promise!CInit
  BY InitStep
<1>2. KInv /\ [Next]_vars => [Promise!CNext]_(Promise!cvars)
  BY NextStep DEF Abstract
<1> QED
  BY <1>1, <1>2, KernelInvariance, PTL DEF Spec, CallsRefinement, Promise!CSpec
=============================================================================
