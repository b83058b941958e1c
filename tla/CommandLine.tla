----------------------------- MODULE CommandLine -----------------------------
(***************************************************************************)
(* system(): a command line is cut into words, the first word leads to a   *)
(* program (Directories), and the words become its arguments.  The words   *)
(* stand in an object on the kernel stack, in systemcall_system's frame,   *)
(* and the pointers that the program is given lead there: the words are    *)
(* still there when it reads them as long as no later system call has      *)
(* reached that far down the stack.                                        *)
(*                                                                         *)
(* A handler's steps while it loads a program are steps of the model, but  *)
(* nothing comes between them: interrupts are off.                         *)
(***************************************************************************)
EXTENDS Directories

CONSTANTS
    Drive,          \* "0:/", as one character
    Lines,          \* the lines that programs give to system()
    MaxArgs, MaxArgSize,
    Untouched,      \* the rows that only system() reaches on the stack
    Junk,           \* what other handlers leave in a row
    MaxProcesses

ASSUME CommandAssumption == /\ MaxArgs \in Nat \ {0} /\ MaxArgSize \in Nat
                            /\ Untouched \in 0 .. MaxArgs
                            /\ MaxProcesses \in Nat \ {0}
                            /\ Drive \in Chars \ {Space, Nul}
                            /\ \A line \in Lines : IsString(line)

VARIABLES
    rows,           \* arguments_t::m_args_data on the kernel stack
    chain,          \* the programs that wait in system(), and the one that runs
    given,          \* history: the line that is loaded
    loading         \* where process::load_data is

dirvars == vars
argvars == <<rows, chain, given, loading>>
allvars == <<vars, argvars>>

Rows == 0 .. (MaxArgs - 1)

\* A program knows argc and, through argv, the rows.  History: the line it was
\* started with, the entries its name led along, and whether it has called
\* system() itself.
Started(argc, names) == [argc |-> argc, line |-> given, walk |-> names, called |-> FALSE]

Running == Len(chain)

----------------------------------------------------------------------------
(* The words of a line.                                                    *)

\* The first character from k on that is one of chars, or the end.
FirstFrom(s, k, chars) ==
    LET at == {n \in k .. Len(s) : s[n] \in chars}
    IN  IF at = {} THEN Len(s) + 1 ELSE Least(at)

EndOfWord(s, k) == FirstFrom(s, k, {Space})

\* Mutant of NextWord: one space is skipped and not the run of them.
NextWordAfterOne(s, k) == k + 1

NextWord(s, k) == FirstFrom(s, k, ToSet(s) \ {Space})

\* The loop of systemcall_system over kernel_line, which begins with the drive.
Words(line) ==
    LET s == <<Drive>> \o line
        words[k \in 1 .. (Len(s) + 1)] ==
            IF k > Len(s) THEN << >>
            ELSE LET end == EndOfWord(s, k) IN
                 <<SubSeq(s, k, end - 1)>>
                   \o (IF end > Len(s) THEN << >> ELSE words[NextWord(s, end)])
    IN  words[1]

\* No word is longer than its buffer, and there are no more than the rows.
Fits(words) == /\ Len(words) <= MaxArgs
               /\ \A n \in DOMAIN words : Len(words[n]) <= MaxArgSize

----------------------------------------------------------------------------

\* The frames of the other handlers end above these rows.
Reached == [r \in Rows |-> IF r < Untouched THEN rows[r] ELSE Junk]

\* The name that load_data opens: args.filename() without the drive.
Name == Tail(rows[0])

CInit == /\ Init
         /\ rows = [r \in Rows |-> Junk]
         /\ chain = <<[argc |-> 1, line |-> << >>, walk |-> << >>, called |-> TRUE]>>
         /\ given = << >> /\ loading = "none"

\* systemcall_system up to load.  The constructor clears every row.  Words that
\* do not fit are written over what lies behind: nothing more is said.
System(line) ==
    /\ loading = "none" /\ dir = NoDir /\ Len(opened) < MaxOpen
    /\ IF Fits(Words(line))
       THEN /\ rows' = [r \in Rows |->
                         IF r < Len(Words(line)) THEN Words(line)[r + 1] ELSE << >>]
            /\ chain' = [chain EXCEPT ![Running].called = TRUE]
            /\ loading' = IF Running < MaxProcesses THEN "elf" ELSE "none"
       ELSE UNCHANGED <<rows, chain>> /\ loading' = "wild"
    /\ given' = (IF loading' = "elf" THEN line ELSE << >>)
    /\ UNCHANGED dirvars

\* load_elf and load_binary open the file, one after the other.
LoadOpens ==
    /\ loading \in {"elf", "binary"}
    /\ Fopen(Name)
    /\ loading' = (IF loading = "elf" THEN "elf opens" ELSE "binary opens")
    /\ UNCHANGED <<rows, chain, given>>

LoadSearches == /\ loading \in {"none", "elf opens", "binary opens"}
                /\ Search
                /\ UNCHANGED argvars

Failed == IF loading = "elf opens" THEN "binary" ELSE "none"

Kept == IF loading' = "none" THEN << >> ELSE given

\* The name was not found.
LoadMisses == /\ loading \in {"elf opens", "binary opens"}
              /\ dir = NoDir /\ walk = << >>
              /\ loading' = Failed /\ given' = Kept
              /\ UNCHANGED <<dirvars, rows, chain>>

Found == loading \in {"elf opens", "binary opens"} /\ dir = NoDir /\ walk # << >>

\* It is a directory, which has no size, or a file that cannot be read, is no
\* program or finds no memory; or what load_at does with it fails, and it is not
\* tried again.
LoadFails == /\ Found /\ Fclose
             /\ loading' = Failed \/ (loading' = "none" /\ Last(walk).kind # "directory")
             /\ given' = Kept
             /\ UNCHANGED <<rows, chain>>

\* The program is loaded and entered; argc and the pointers are copied.
Starts == /\ Found /\ Last(walk).kind # "directory"
          /\ Fclose
          /\ chain' = Append(chain, Started(Len(Words(given)), walk))
          /\ loading' = "none" /\ given' = << >>
          /\ UNCHANGED rows

\* exit, which closes no file.
Exit == /\ loading = "none" /\ dir = NoDir
        /\ Running > 1
        /\ chain' = Front(chain)
        /\ rows' = Reached
        /\ UNCHANGED <<dirvars, given, loading>>

\* Any other handler: an interrupt, or a system call on files.
OtherCall == /\ loading = "none" /\ dir = NoDir
             /\ FileCall \/ UNCHANGED dirvars
             /\ rows' = Reached
             /\ UNCHANGED <<chain, given, loading>>

CNext == /\ ~freed
         /\ \/ \E line \in Lines : System(line)
            \/ LoadOpens \/ LoadSearches \/ LoadMisses \/ LoadFails
            \/ Starts \/ Exit \/ OtherCall

CSpec == CInit /\ [][CNext]_allvars

----------------------------------------------------------------------------
(* Properties.                                                             *)

\* The words of a line: what stands between its spaces.
Splits(s) == {k \in 1 .. Len(s) : s[k] # Space /\ (k = 1 \/ s[k - 1] = Space)}

Typed(line) ==
    LET s == <<Drive>> \o line
        from == InOrder(Splits(s))
        Word(k) == CHOOSE w \in {SubSeq(s, k, n) : n \in k .. Len(s)} :
                     /\ Space \notin ToSet(w)
                     /\ k + Len(w) > Len(s) \/ s[k + Len(w)] = Space
    IN  [n \in DOMAIN from |-> Word(from[n])]

Top == chain[Running]

\* A program is given the words of its line, and still finds them whenever it
\* reads them, as long as it has not called system() itself, whether that
\* succeeded or not, and in the rows that only system() reaches: whatever was
\* loaded, refused, interrupted or ended in between.
ArgvIsCommand ==
    loading = "none" /\ ~Top.called =>
        /\ Top.argc = Len(Typed(Top.line))
        /\ \A n \in 1 .. Top.argc : n <= Untouched => rows[n - 1] = Typed(Top.line)[n]

\* A program runs only if the first word of its line names it, along the
\* directories of that word, however often the search was made and whatever
\* the buffers were left with.
RunsWhatIsNamed ==
    \A n \in 2 .. Running :
        LET names == Names(Tail(Typed(chain[n].line)[1])) IN
        /\ Len(chain[n].walk) = Len(names)
        /\ \A i \in DOMAIN names : IsPrefix(Upper(names[i]), FullName(chain[n].walk[i]))
        /\ Last(chain[n].walk).kind # "directory"
=============================================================================
