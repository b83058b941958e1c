------------------------------- MODULE Kernel -------------------------------
(***************************************************************************)
(* The kernel once it has handed the processor to the shell: the process   *)
(* table of task/process.cpp, the task list of task/task.cpp, the system   *)
(* calls that change them, the exception handler and the keyboard          *)
(* interrupt.                                                              *)
(*                                                                         *)
(* Interrupts are off in a handler (return_task and iret turn them on), so *)
(* a handler is one step, from the entry of interrupt_handler to the       *)
(* return to user mode.  What the user programs are is a parameter:        *)
(* Spawners call system(), Exiters end, Faulters may raise an exception.   *)
(* The shell calls system() when it has read the Enter key.                *)
(*                                                                         *)
(* A set of registers is named by the process whose registers they are: a  *)
(* process that is entered, interrupted or suspended in a system call.     *)
(***************************************************************************)
EXTENDS Integers, Sequences, FiniteSets, TaskList

CONSTANTS
    MaxProcesses,   \* MAX_PROCESSES
    Kernel,         \* the kernel's page directory
    BufferSize,     \* KEYBOARD_BUFFER_SIZE
    Keys, Enter,    \* the keys with a character, and the one that ends a line
    NoKey,          \* the character 0 of the other keys
    Programs, Shell, Spawners, Exiters, Faulters,
    Files,          \* the programs a command line may name
    Refusals        \* where process::load_at may fail

ASSUME KernelAssumption ==
    /\ MaxProcesses \in Nat \ {0}
    /\ BufferSize \in Nat \ {0}
    /\ Kernel \notin Tasks /\ Null \notin Tasks
    /\ Enter \in Keys /\ NoKey \notin Keys
    /\ Shell \in Programs /\ Files \subseteq Programs
    /\ Refusals \subseteq {"data", "mapping", "task", "directory"}

Slots == 0 .. (MaxProcesses - 1)

VARIABLES
    taken,          \* s_is_taken
    ptask,          \* process_t::task of each slot
    program,        \* the file a process was loaded from
    keys,           \* process_t::keyboard of each slot
    focus,          \* process::s_current, which the keyboard types to
    list,           \* the task list
    pidOf, saved,   \* task_t::pid and task_t::registers
    dir,            \* the page directory the processor uses
    ctx,            \* the registers in the processor
    entered,        \* user memory: the shell has read a line
    mode            \* "user"; "halted" for good; or "wild", see below

procvars == <<taken, ptask, program, keys, focus>>
taskvars == <<list, pidOf, saved>>
vars == <<procvars, taskvars, dir, ctx, entered, mode>>

TheTaken  == {s \in Slots : taken[s]}
FreeSlots == Slots \ TheTaken
LiveTasks == {ptask[s] : s \in TheTaken}
Least(S)  == CHOOSE s \in S : \A t \in S : s <= t

----------------------------------------------------------------------------
(* Who runs.                                                               *)

Running == mode = "user"
Current == pidOf[list.curr]

\* The registers in the processor belong to the program that is mapped.
\* Where they do not, instructions are fetched from another program and any
\* of them may follow.
InPlace == /\ dir = list.curr
           /\ program[ctx] = program[Current]

MayDo(set) == /\ Running /\ list.curr # Null
              /\ InPlace => program[Current] \in set

\* Mutant of Saved: the registers go to the first task.
SavedInHead == [saved EXCEPT ![list.head] = ctx]

\* save_current, with which every system call begins.
Saved == [saved EXCEPT ![list.curr] = ctx]

\* The end of interrupt_handler loads the directory of the current task; d
\* is what the handler left loaded.
Back(l, d) == IF l.curr = Null THEN d ELSE l.curr

----------------------------------------------------------------------------
(* Interrupts.                                                             *)

\* Mutants of Key: the key goes to the process that runs; a full buffer takes
\* another key.
KeyToCurrent(k) ==
    /\ Running
    /\ keys' = IF Len(keys[Current]) < BufferSize
               THEN [keys EXCEPT ![Current] = Append(@, k)] ELSE keys
    /\ dir' = Back(list, Kernel)
    /\ UNCHANGED <<taken, ptask, program, focus, taskvars, ctx, entered, mode>>

KeyUnchecked(k) ==
    /\ Running
    /\ keys' = [keys EXCEPT ![focus] = Append(@, k)]
    /\ dir' = Back(list, Kernel)
    /\ UNCHANGED <<taken, ptask, program, focus, taskvars, ctx, entered, mode>>

\* keyboard_listener: a click goes to the process in focus.
Key(k) ==
    /\ Running
    /\ keys' = IF focus \in Slots /\ Len(keys[focus]) < BufferSize
               THEN [keys EXCEPT ![focus] = Append(@, k)] ELSE keys
    /\ dir' = Back(list, Kernel)
    /\ UNCHANGED <<taken, ptask, program, focus, taskvars, ctx, entered, mode>>

\* An interrupt without a handler, as the timer's.
Tick ==
    /\ Running
    /\ dir' = Back(list, Kernel)
    /\ UNCHANGED <<procvars, taskvars, ctx, entered, mode>>

----------------------------------------------------------------------------
(* System calls.                                                           *)

\* readline ends a line at Enter, or at another key when the line is full.
EndsLine(k) == CASE k = Enter -> {TRUE}
                 [] k = NoKey -> {FALSE}
                 [] OTHER     -> BOOLEAN

\* getchar: the answer to an empty buffer is 0, as it is to NoKey.
GetChar ==
    /\ MayDo(Programs)
    /\ InPlace => ~entered[Current]
    /\ \/ keys[Current] = << >> /\ UNCHANGED <<keys, entered>>
       \/ /\ keys[Current] # << >>
          /\ keys' = [keys EXCEPT ![Current] = Tail(@)]
          /\ \E ends \in EndsLine(Head(keys[Current])) :
                entered' = [entered EXCEPT ![Current] = ends]
    /\ saved' = Saved
    /\ dir' = list.curr
    /\ UNCHANGED <<taken, ptask, program, focus, list, pidOf, ctx, mode>>

MaySpawn == /\ MayDo(Spawners)
            /\ InPlace /\ program[Current] = Shell => entered[Current]

\* system, when the program is loaded as task t in the first free slot: the
\* handler does not return, it enters the new task.
SystemEnters(p, t) ==
    /\ MaySpawn
    /\ FreeSlots # {}
    /\ t \notin LiveTasks
    /\ LET s == Least(FreeSlots) IN
       /\ taken'   = [taken EXCEPT ![s] = TRUE]
       /\ ptask'   = [ptask EXCEPT ![s] = t]
       /\ program' = [program EXCEPT ![s] = p]
       /\ keys'    = [keys EXCEPT ![s] = << >>]
       /\ entered' = [entered EXCEPT ![Current] = FALSE, ![s] = FALSE]
       /\ pidOf'   = [pidOf EXCEPT ![t] = s]
       /\ saved'   = [Saved EXCEPT ![t] = s]
       /\ ctx'     = s
    /\ list' = SwitchTo(Listed(list, t), t)
    /\ dir' = t
    /\ UNCHANGED <<focus, mode>>

\* What load_at leaves of slot s when it fails: process_t is cleared, and a
\* cleared queue holds one character 0.
Leaves(s, t) == /\ ptask' = [ptask EXCEPT ![s] = t]
                /\ keys' = [keys EXCEPT ![s] = <<NoKey>>]

\* system, when it returns an error to its caller: every slot is taken; the
\* file cannot be read or there is no memory for it or for its stack; or the
\* file cannot be mapped, and load_at frees the task it has listed.
SystemFails ==
    /\ MaySpawn
    /\ \/ /\ FreeSlots = {} /\ saved' = Saved
          /\ UNCHANGED <<ptask, keys, list, pidOf>>
       \/ /\ FreeSlots # {} /\ "data" \in Refusals
          /\ Leaves(Least(FreeSlots), Null)
          /\ saved' = Saved
          /\ UNCHANGED <<list, pidOf>>
       \/ \E t \in Tasks \ LiveTasks :
          /\ FreeSlots # {} /\ "mapping" \in Refusals
          /\ Leaves(Least(FreeSlots), t)
          /\ list' = Remove(Listed(list, t), t)
          /\ pidOf' = [pidOf EXCEPT ![t] = Least(FreeSlots)]
          /\ saved' = [Saved EXCEPT ![t] = Least(FreeSlots)]
    /\ entered' = [entered EXCEPT ![Current] = FALSE]
    /\ dir' = Back(list', list.curr)    \* task::read left the caller's
    /\ UNCHANGED <<taken, program, focus, ctx, mode>>

\* system, when there is no memory for the task, or for its page directory,
\* and task::create frees a task it has not listed.  load_at negates the
\* error twice, so load takes it for success: the processor is given the
\* registers of a null task.
SystemRunsWild ==
    /\ MaySpawn
    /\ FreeSlots # {}
    /\ \/ "task" \in Refusals /\ list' = list
       \/ \E t \in Tasks \ LiveTasks :
             "directory" \in Refusals /\ list' = Remove(Cleared(list, t), t)
    /\ Leaves(Least(FreeSlots), Null)
    /\ entered' = [entered EXCEPT ![Current] = FALSE]
    /\ saved' = Saved
    /\ dir' = list.curr
    /\ mode' = "wild"
    /\ UNCHANGED <<taken, program, focus, pidOf, ctx>>

System == \/ \E p \in Files, t \in Tasks : SystemEnters(p, t)
          \/ SystemFails
          \/ SystemRunsWild

\* process::terminate of the current process.
Terminate ==
    /\ taken' = [taken EXCEPT ![Current] = FALSE]
    /\ focus' = LET left == TheTaken \ {Current}
                IN  IF focus = Current /\ left # {} THEN Least(left) ELSE focus
    /\ UNCHANGED <<ptask, program, keys, pidOf>>

Terminated == Remove(list, ptask[Current])

\* exit: the next task of the current one is asked for twice, before the
\* switch for the directory and after it for the registers.
Exit ==
    /\ MayDo(Exiters)
    /\ Terminate
    /\ saved' = Saved
    /\ IF Terminated.curr # Null
       THEN LET switched == SwitchTo(Terminated, NextTask(Terminated)) IN
            /\ list' = switched
            /\ dir' = switched.curr
            /\ ctx' = Saved[NextTask(switched)]
       ELSE list' = Terminated /\ dir' = Kernel /\ ctx' = ctx
    /\ UNCHANGED <<entered, mode>>

----------------------------------------------------------------------------
(* The ways to halt.                                                       *)

\* exception_handler: the current process is terminated, the next task is
\* switched to, and the machine halts all the same.  This is an exception
\* whose number reaches the handler: isr.asm pushes the number of those with
\* an error code as a word, and where the code is not 0 anything may follow.
Fault ==
    /\ IF list.curr = Null
       THEN Running /\ UNCHANGED <<procvars, pidOf, list>> /\ dir' = Kernel
       ELSE /\ MayDo(Faulters)
            /\ Terminate
            /\ list' = IF Terminated.curr = Null THEN Terminated
                       ELSE SwitchTo(Terminated, NextTask(Terminated))
            /\ dir' = Back(list', Kernel)
    /\ mode' = "halted"
    /\ UNCHANGED <<saved, ctx, entered>>

\* save_current panics when no task is current.
Panic ==
    /\ Running /\ list.curr = Null
    /\ mode' = "halted" /\ dir' = Kernel
    /\ UNCHANGED <<procvars, taskvars, ctx, entered>>

----------------------------------------------------------------------------

\* kernel_main has loaded the shell into slot 0, switched to it and run it.
Init == \E t \in Tasks :
    /\ taken = [s \in Slots |-> s = 0]
    /\ ptask = [s \in Slots |-> IF s = 0 THEN t ELSE Null]
    /\ program = [s \in Slots |-> Shell]
    /\ keys = [s \in Slots |-> IF s = 0 THEN << >> ELSE <<NoKey>>]
    /\ focus = 0
    /\ list = Listed(NoTasks, t)
    /\ pidOf = [u \in Tasks |-> 0] /\ saved = [u \in Tasks |-> 0]
    /\ dir = t /\ ctx = 0
    /\ entered = [s \in Slots |-> FALSE]
    /\ mode = "user"

\* Where the registers of a null task are used, nothing more is said.
Next == \/ \E k \in Keys \cup {NoKey} : Key(k)
        \/ Tick
        \/ GetChar
        \/ System
        \/ Exit
        \/ Fault
        \/ Panic

Spec == Init /\ [][Next]_vars

\* A user program is left to run until it makes its next system call: the
\* shell polls getchar, and a command comes to its exit.
FairSpec == Spec /\ WF_vars(GetChar) /\ WF_vars(System) /\ WF_vars(Exit)

----------------------------------------------------------------------------
(* Properties.                                                             *)

TypeOK ==
    /\ taken \in [Slots -> BOOLEAN]
    /\ ptask \in [Slots -> Pointers]
    /\ program \in [Slots -> Programs]
    /\ keys \in [Slots -> Seq(Keys \cup {NoKey})]
    /\ \A s \in Slots : Len(keys[s]) <= BufferSize
    /\ focus \in Slots
    /\ list \in ListType
    /\ pidOf \in [Tasks -> Slots]
    /\ saved \in [Tasks -> Slots]
    /\ dir \in Tasks \cup {Kernel}
    /\ ctx \in Slots
    /\ entered \in [Slots -> BOOLEAN]
    /\ mode \in {"user", "halted", "wild"}

\* In user mode the registers, the page directory and the current task are
\* those of one process, which is in the process table.  Each is set at
\* another place: _return, _switch, remove, next, and the calls that load a
\* directory on the way and leave it to interrupt_handler to load the right one.
ContextMatches ==
    Running /\ list.curr # Null =>
        /\ dir = list.curr
        /\ ctx = Current
        /\ taken[ctx] /\ ptask[ctx] = list.curr

\* The processor is in user mode without a current task only when the last
\* process has ended: exit returns there, into memory that was freed.  This is
\* so while calls of system() are not nested.  Where they are, remove leaves a
\* prev that leads nowhere, and may later empty a list of two tasks.
NoTaskNoProcess == Running /\ list.curr = Null => TheTaken = {}

\* The registers kept for a process that waits in system() are its own:
\* save_current never stores those of one process in the task of another.
SavedIntact ==
    Running => \A s \in TheTaken \ {ctx} : saved[ptask[s]] = s

\* The list holds the tasks of the process table, and its links agree in
\* both directions: remove and the failure of load_at leave no pointer to a
\* task that was freed.
ListIntact ==
    Running =>
      /\ {list.head, list.tail, list.curr} \subseteq LiveTasks
      /\ \A s \in TheTaken : LET t == ptask[s] IN
         /\ pidOf[t] = s
         /\ list.next[t] = Null <=> t = list.tail
         /\ list.prev[t] = Null <=> t = list.head
         /\ list.next[t] # Null =>
               list.next[t] \in LiveTasks /\ list.prev[list.next[t]] = t

\* The keyboard types to a shell that is in the table, and no other process
\* is ever given a key.
ShellHasKeyboard ==
    Running => /\ taken[focus] /\ program[focus] = Shell
               /\ \A s \in TheTaken \ {focus} : keys[s] = << >>

\* There is at most the shell and the one program it has started, and one of
\* them runs.  A shell started from the shell is given no keys, so it never
\* reads a line and never starts a third: this is what keeps exit, which
\* asks for the next task twice, from resuming the wrong one.
AtMostTwo == Running => Cardinality(TheTaken) <= 2

\* timer.cpp: "there will always be next task (because the shell is running
\* infinitely)".
AlwaysNextTask == mode # "halted" => list.curr # Null /\ taken[0]

\* system() and exit() keep the promise of Calls.  A process returns to the
\* one whose task stands before its own in the list.
Callers == {s \in TheTaken : list.prev[ptask[s]] # Null}

Promise == INSTANCE Calls WITH
    running <- ctx,
    caller  <- [s \in Callers |-> pidOf[list.prev[ptask[s]]]],
    halted  <- mode # "user"

CallsRefinement == Promise!CSpec

\* When the shell has started a command it runs again, unless the machine
\* was halted: exit reaches _return with a task that is still there.
CommandReturns == (program[ctx] # Shell) ~> (ctx = 0 \/ ~Running)

\* A full keyboard buffer does not stay full: the keys of the shell are read
\* between the commands, unless it has started a shell, which never ends.
BufferDrains ==
    (Len(keys[0]) = BufferSize) ~>
        (Len(keys[0]) < BufferSize \/ ~Running \/ (ctx # 0 /\ program[ctx] = Shell))
=============================================================================
