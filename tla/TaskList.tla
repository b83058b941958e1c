------------------------------ MODULE TaskList ------------------------------
(***************************************************************************)
(* The list of tasks of task/task.cpp: s_head, s_tail, s_current and the   *)
(* next and prev pointers in the tasks.  A task is the address of its      *)
(* memory; next and prev are read and written there whether or not a task  *)
(* is in the list, since the code follows pointers without a check.        *)
(***************************************************************************)
CONSTANTS
    Tasks,          \* the addresses a task may be given
    Null

Pointers == Tasks \cup {Null}

ListType == [head : Pointers, tail : Pointers, curr : Pointers,
             next : [Tasks -> Pointers], prev : [Tasks -> Pointers]]

\* The statics and the heap before the first task.
NoTasks == [head |-> Null, tail |-> Null, curr |-> Null,
            next |-> [t \in Tasks |-> Null], prev |-> [t \in Tasks |-> Null]]

With(f, t, p) == [u \in Tasks |-> IF u = t THEN p ELSE f[u]]

\* Mutant of NextTask: the last task has no next.
NextInLine(l) == l.next[l.curr]

\* task::next: the list is a ring.
NextTask(l) == IF l.next[l.curr] = Null THEN l.head ELSE l.next[l.curr]

\* Mutant of SwitchTo: the current task is not recorded.
NoSwitch(l, t) == l

\* task::_switch: a null task is refused.
SwitchTo(l, t) == IF t = Null THEN l ELSE [l EXCEPT !.curr = t]

\* The memory of a new task is cleared.
Cleared(l, t) == [l EXCEPT !.next = With(l.next, t, Null),
                           !.prev = With(l.prev, t, Null)]

\* Mutant of Listed: the new task is not linked back.
ListedOneWay(l, t) ==
    LET c == Cleared(l, t)
    IN  IF c.head = Null
        THEN [c EXCEPT !.head = t, !.tail = t, !.curr = t]
        ELSE [c EXCEPT !.next = With(c.next, c.tail, t), !.tail = t]

\* What task::create does to the list.
Listed(l, t) ==
    LET c == Cleared(l, t)
    IN  IF c.head = Null
        THEN [c EXCEPT !.head = t, !.tail = t, !.curr = t]
        ELSE [c EXCEPT !.next = With(c.next, c.tail, t),
                       !.prev = With(c.prev, t, c.tail),
                       !.tail = t]

\* Mutant of Remove: the tail is left as it is.
RemoveKeepsTail(l, t) ==
    IF l.head = l.tail
    THEN [l EXCEPT !.head = Null, !.tail = Null, !.curr = Null]
    ELSE LET unlinked ==
                [l EXCEPT !.next = With(l.next, l.prev[t], l.next[t]),
                          !.head = IF t = l.head THEN l.next[t] ELSE l.head]
         IN  IF t = l.curr
             THEN [unlinked EXCEPT !.curr = NextTask(unlinked)]
             ELSE unlinked

\* task::remove.  The prev of the task that follows is left as it is, and a
\* list of one task is emptied whichever task is removed.
Remove(l, t) ==
    IF l.head = l.tail
    THEN [l EXCEPT !.head = Null, !.tail = Null, !.curr = Null]
    ELSE LET unlinked ==
                [l EXCEPT !.next = With(l.next, l.prev[t], l.next[t]),
                          !.head = IF t = l.head THEN l.next[t] ELSE l.head,
                          !.tail = IF t = l.tail THEN l.prev[t] ELSE l.tail]
         IN  IF t = l.curr
             THEN [unlinked EXCEPT !.curr = NextTask(unlinked)]
             ELSE unlinked
=============================================================================
