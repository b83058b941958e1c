------------------------------- MODULE Console -------------------------------
(***************************************************************************)
(* The machine from power-on to the shell's prompt, and the shell at its   *)
(* prompt: kernel_main, the interrupts that come between its calls, and    *)
(* main and readline of the shell, with the keyboard and the terminal.     *)
(*                                                                         *)
(* A system call, with what the shell does until its next one, is a step.  *)
(* Commands are seen only in what they print (see Kernel for the rest);    *)
(* none of them reads the keyboard or starts a shell.                      *)
(***************************************************************************)
EXTENDS Terminal, Keyboard

CONSTANTS
    MaxLine,        \* MAX_LINE
    Cleared,        \* the bytes readline clears: sizeof a pointer
    Prompt, End,    \* the characters '>' and 0
    Output          \* the characters that commands print

ASSUME ConsoleAssumption ==
    /\ MaxLine \in Nat \ {0, 1} /\ Cleared \in 0 .. MaxLine
    /\ MaxLine <= Width * (Height - 1)
    /\ KeyChars \subseteq Chars \cup {NewLine, Backspace, NoKey}
    /\ Output \subseteq Chars \cup {NewLine, Backspace}
    /\ Prompt \in Chars /\ NoKey \notin Chars \cup {NewLine} /\ End \notin Chars \cup {Backspace}

VARIABLES
    stage,          \* the call of kernel_main that is next
    paging, cr3,    \* whether paging is on, and the directory in cr3
    pc,             \* where the shell is
    line, i, key,   \* shell: line; readline: i and key
    spoilt          \* history: a backspace was put into the line

bootvars  == <<stage, paging, cr3>>
shellvars == <<pc, line, i, key, spoilt>>
vars == <<tvars, keystates, held, buffer, bootvars, shellvars>>

----------------------------------------------------------------------------
(* kernel_main.  Interrupts are on from isr::init on.                      *)

Stages == <<"init", "isr", "heap", "directory", "switch", "paging", "process",
            "load", "focus", "run", "user">>

At(s) == CHOOSE n \in DOMAIN Stages : Stages[n] = s

Past(s) == stage # "panic" /\ At(stage) > At(s)

\* The listener is known from process::init on; until _switch gives process 0
\* the focus it drops every key.
Listening == Past("focus")

\* The directory that interrupt_handler leaves: that of the current task, once
\* load has listed one, or kernel_directory, which is null until it is made.
AfterInterrupt == IF Past("load") THEN {"task"}
                  ELSE IF stage = "load" THEN {"kernel", "task"}
                  ELSE IF Past("directory") THEN {"kernel"} ELSE {"null"}

\* Mutant of Boot: paging is turned on before a directory is made.
BootPagingEarly ==
    /\ stage \notin {"user", "panic"}
    /\ stage' = Stages[At(stage) + 1]
    /\ paging' = (paging \/ stage = "directory")
    /\ cr3' = CASE stage = "switch" -> "kernel" [] stage = "run" -> "task" [] OTHER -> cr3
    /\ UNCHANGED <<tvars, keystates, held, buffer, shellvars>>

Boot ==
    /\ stage \notin {"user", "panic"}
    /\ stage' = Stages[At(stage) + 1]
    /\ paging' = (paging \/ stage = "paging")
    /\ cr3' = CASE stage = "switch" -> "kernel" [] stage = "run" -> "task" [] OTHER -> cr3
    /\ UNCHANGED <<tvars, keystates, held, buffer, shellvars>>

\* The shell cannot be loaded.
BootFails == /\ stage = "load"
             /\ stage' = "panic"
             /\ UNCHANGED <<tvars, keystates, held, buffer, paging, cr3, shellvars>>

Interrupt ==
    /\ Past("isr")
    /\ \/ \E k \in Codes, released \in BOOLEAN : ScanCode(k, released, Listening)
       \/ BeyondTables(Listening)
       \/ UNCHANGED <<keystates, held, buffer>>       \* the timer
    /\ cr3' \in AfterInterrupt
    /\ UNCHANGED <<tvars, stage, paging, shellvars>>

----------------------------------------------------------------------------
(* The shell.                                                              *)

Shell(from) == stage = "user" /\ pc = from

PrintPrompt ==
    /\ Shell("prompt")
    /\ PrintChar(Prompt)
    /\ pc' = "read"
    /\ line' = [n \in DOMAIN line |-> IF n < Cleared THEN End ELSE line[n]]
    /\ UNCHANGED <<keystates, held, buffer, bootvars, i, key, spoilt>>

\* Mutant of GetChar: the character stays in the buffer.
GetCharKeeping ==
    /\ Shell("read")
    /\ LET got == IF buffer = << >> THEN NoKey ELSE Head(buffer) IN
       /\ UNCHANGED buffer
       /\ \/ got = NoKey /\ UNCHANGED <<pc, line, key>>
          \/ got = NewLine /\ pc' = "end" /\ line' = [line EXCEPT ![i] = End] /\ UNCHANGED key
          \/ got \notin {NoKey, NewLine} /\ pc' = "echo" /\ key' = got /\ UNCHANGED line
    /\ UNCHANGED <<tvars, keystates, held, bootvars, i, spoilt>>

\* getchar: 0 when there is no key, and the shell asks again.
GetChar ==
    /\ Shell("read")
    /\ LET got == IF buffer = << >> THEN NoKey ELSE Head(buffer) IN
       /\ buffer' = IF buffer = << >> THEN buffer ELSE Tail(buffer)
       /\ \/ got = NoKey /\ UNCHANGED <<pc, line, key>>
          \/ got = NewLine /\ pc' = "end" /\ line' = [line EXCEPT ![i] = End] /\ UNCHANGED key
          \/ got \notin {NoKey, NewLine} /\ pc' = "echo" /\ key' = got /\ UNCHANGED line
    /\ UNCHANGED <<tvars, keystates, held, bootvars, i, spoilt>>

\* What readline does with a key, and where the line is then cut.
Stored == IF key = Backspace /\ i >= 1
          THEN [line EXCEPT ![i - 1] = End] ELSE [line EXCEPT ![i] = key]

\* Mutant of NextI: the place is not moved back for the increment of the loop.
NextIOff == IF key = Backspace /\ i >= 1 THEN i ELSE i + 1

NextI == IF key = Backspace /\ i >= 1 THEN i - 1 ELSE i + 1

\* putchar of the key, and the end of the loop's body.
Echo ==
    /\ Shell("echo")
    /\ PrintChar(key)
    /\ i' = NextI
    /\ IF NextI = MaxLine - 1
       THEN pc' = "end" /\ line' = [Stored EXCEPT ![NextI] = End]
       ELSE pc' = "read" /\ line' = Stored
    /\ spoilt' = (spoilt \/ (key = Backspace /\ i = 0))
    /\ key' = NoKey                     \* it is used no more
    /\ UNCHANGED <<keystates, held, buffer, bootvars>>

EndLine == /\ Shell("end")
           /\ PrintChar(NewLine)
           /\ pc' = "system"
           /\ i' = 0 /\ spoilt' = FALSE
           /\ UNCHANGED <<keystates, held, buffer, bootvars, line, key>>

\* A command prints while it runs; system() returns when it has ended, or
\* with an error.
CommandPrints == /\ Shell("system")
                 /\ \E c \in Output : PrintChar(c)
                 /\ UNCHANGED <<keystates, held, buffer, bootvars, shellvars>>

SystemReturns == /\ Shell("system")
                 /\ pc' = "prompt"
                 /\ UNCHANGED <<tvars, keystates, held, buffer, bootvars, line, i, key, spoilt>>

----------------------------------------------------------------------------

Init == /\ TermInit /\ KeyInit
        /\ stage = "init" /\ paging = FALSE /\ cr3 = "null"
        /\ pc = "prompt"
        /\ line = [n \in 0 .. (MaxLine - 1) |-> End]
        /\ i = 0 /\ key = NoKey /\ spoilt = FALSE

Step == Boot \/ BootFails \/ PrintPrompt \/ GetChar \/ Echo \/ EndLine \/ SystemReturns

Next == Step \/ Interrupt \/ CommandPrints

Spec == Init /\ [][Next]_vars

\* The processor goes on between two interrupts, and a command ends.
FairSpec == Spec /\ WF_vars(Step)

----------------------------------------------------------------------------
(* Properties.                                                             *)

TypeOK ==
    /\ TermTypeOK
    /\ keystates \in [Codes -> {"released", "clicked", "pressed"}]
    /\ buffer \in Seq(KeyChars) /\ Len(buffer) <= BufferSize /\ held \subseteq Codes
    /\ stage \in {Stages[n] : n \in DOMAIN Stages} \cup {"panic"}
    /\ paging \in BOOLEAN /\ cr3 \in {"null", "kernel", "task"}
    /\ pc \in {"prompt", "read", "echo", "end", "system"}
    /\ line \in [0 .. (MaxLine - 1) -> KeyChars \cup {End}]
    /\ i \in 0 .. (MaxLine - 1)
    /\ pc \in {"read", "echo"} => i < MaxLine - 1
    /\ key \in KeyChars \cup {NoKey} /\ spoilt \in BOOLEAN

\* Paging is never on with a null directory, and a key is only kept once the
\* shell is loaded: whichever step of the boot an interrupt comes after.
BootIsSafe == /\ paging => cr3 # "null"
              /\ buffer # << >> => Past("focus")

\* The line on the screen is the line that is read: the tape ends with the
\* prompt and the characters in front of i, however the screen has scrolled
\* and whatever was erased, unless a backspace was typed into an empty line.
LineSoFar == [n \in 1 .. i |-> line[n - 1]]

EndsWith(t, s) == Len(t) >= Len(s) /\ SubSeq(t, Len(t) - Len(s) + 1, Len(t)) = s

EchoIsLine == stage = "user" /\ pc = "read" /\ ~spoilt => EndsWith(Shown, <<Prompt>> \o LineSoFar)

\* The string that system() is given.
LineGiven == LET ends == {n \in DOMAIN line : line[n] = End}
                 length == CHOOSE n \in ends : \A m \in ends : n <= m
             IN  [n \in 1 .. length |-> line[n - 1]]

\* What is typed is what is run: see Typing.
Edited == IF Shell("echo") THEN [n \in 1 .. NextI |-> Stored[n - 1]]
          ELSE IF Shell("end") \/ Shell("system") THEN LineGiven
          ELSE IF Shell("read") THEN LineSoFar ELSE << >>

Whole == \/ Shell("end") \/ Shell("system")
         \/ Shell("echo") /\ NextI = MaxLine - 1

Typed == INSTANCE Typing WITH
    listening <- Listening, down <- held, pending <- buffer, text <- Edited, ended <- Whole,
    Longest <- MaxLine - 1

TypingRefinement == Typed!YSpec

\* A line that is ended is run.
TypedLineRuns == (\E n \in DOMAIN buffer : buffer[n] = NewLine) /\ pc = "read" ~> pc = "system"
=============================================================================
