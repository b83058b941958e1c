----------------------------- MODULE UserMemory -----------------------------
(***************************************************************************)
(* The memory of the user programs: the blocks a process takes from the    *)
(* heap, the page directory that maps them, and what the kernel touches    *)
(* while the directory of a caller is loaded.  The system calls are those  *)
(* of Kernel, seen from the memory; a handler is one step.                 *)
(*                                                                         *)
(* A page of the address space is its number, and a block of the heap the  *)
(* number of its page.  The kernel's own directory maps every page to      *)
(* itself and is never changed, so a step taken with it cannot fault; the  *)
(* processor checks no write permission in the kernel (CR0.WP is clear).   *)
(*                                                                         *)
(* The processes are a stack: load takes the first free slot, and exit     *)
(* returns to the caller (that is what Calls promises and Kernel shows).   *)
(***************************************************************************)
EXTENDS Integers, Sequences

CONSTANTS
    PageSize,       \* PAGING_PAGE_SIZE, and HEAP_BLOCK_SIZE
    FirstPage, LastPage,    \* the pages of the heap
    LowPages,       \* the pages below KHEAP_TABLE_ADDRESS, where nothing is
    StackAt, StackPages,    \* PROGRAM_VIRTUAL_STACK_ADDRESS_END and the stack's size
    TaskPages,      \* task_t, its directory and the tables, taken as one
    PathPages, ItemPages,   \* what fopen takes and nobody gives back
    MaxProcesses,   \* MAX_PROCESSES
    MaxAllocations, \* PROGRAM_MAX_ALLOCATIONS
    Sizes,          \* the sizes that programs ask for
    Programs, Shell,
    FileSize,       \* of each program
    Segments,       \* the program headers of each program
    Freers          \* the programs that call free()

\* align_address, and the blocks of a request.
PagesOf(bytes) == (bytes + PageSize - 1) \div PageSize

\* The pages that a program header is mapped to.
PagesIn(g) ==
    LET first == g.vaddr \div PageSize
    IN  first .. (first + PagesOf(g.offset + g.memsz) - g.offset \div PageSize - 1)

\* The linker scripts begin every section at a page of its own, and no program
\* is so large that it reaches the heap.  The shell is loaded at boot (Init).
ASSUME UserMemoryAssumption ==
    /\ {PageSize, FirstPage, LastPage, LowPages, StackAt, StackPages,
        TaskPages, PathPages, ItemPages, MaxProcesses, MaxAllocations} \subseteq Nat \ {0}
    /\ Sizes \subseteq Nat \ {0}
    /\ Shell \in Programs /\ Freers \subseteq Programs
    /\ FileSize \in [Programs -> Nat \ {0}]
    /\ \A p \in Programs : \A i \in DOMAIN Segments[p] :
          LET g == Segments[p][i] IN
          /\ g.vaddr \in Nat /\ g.offset \in Nat /\ g.memsz \in Nat
          /\ g.vaddr % PageSize = g.offset % PageSize
          /\ PagesIn(g) \subseteq (StackAt + StackPages) .. (FirstPage - 1)
          /\ \A j \in DOMAIN Segments[p] \ {i} : PagesIn(g) \cap PagesIn(Segments[p][j]) = {}
    \* free(0) may unmap as much as a request from page 0 on: not the kernel.
    /\ \A size \in Sizes : PagesOf(size) <= LowPages
    /\ LowPages <= StackAt /\ StackAt + StackPages <= FirstPage

Slots == 0 .. (MaxProcesses - 1)
Pages == 0 .. LastPage
HeapPages == FirstPage .. LastPage
Null == 0

VARIABLES
    held,       \* the regions taken from the heap: first page and length
    lost,       \* those that no pointer leads to any more
    depth,      \* the slots in use are 0 .. depth - 1, and the last one runs
    proc,       \* process_t of each slot
    pages,      \* the page directory of each slot
    mode        \* "user"; "faulted" in the kernel; "spent", the heap has run out

vars == <<held, lost, depth, proc, pages, mode>>

Live    == 0 .. (depth - 1)
Current == depth - 1
Least(S) == CHOOSE a \in S : \A b \in S : a <= b

----------------------------------------------------------------------------
(* Pages and directories.                                                  *)

\* new_four_gb_directory for a task: every page is there and may be read.
Identity == [v \in Pages |-> [frame |-> v, rights |-> "read"]]

\* Mutant of MapTo: the last page is left out.
MapToButLast(d, v, first, end, rights) ==
    [p \in Pages |-> IF p - v \in 0 .. (end - first - 2)
                     THEN [frame |-> first + (p - v), rights |-> rights]
                     ELSE d[p]]

\* map_to: the pages from v on lead to the frames from first to end.
MapTo(d, v, first, end, rights) ==
    [p \in Pages |-> IF p - v \in 0 .. (end - first - 1)
                     THEN [frame |-> first + (p - v), rights |-> rights]
                     ELSE d[p]]

\* One program header of a file that lies at page data.  Its memory is taken
\* from the file, its bss too, whether or not the file is that long.
MapSegment(d, g, data) ==
    MapTo(d, g.vaddr \div PageSize,
          data + g.offset \div PageSize, data + PagesOf(g.offset + g.memsz),
          IF g.writable THEN "write" ELSE "read")

\* map_memory, over the entries of d: each page by the header it belongs to.
MapInto(d, p, data, stack) ==
    LET Headers(v) == {i \in DOMAIN Segments[p] : v \in PagesIn(Segments[p][i])}
        elf == [v \in Pages |->
                  IF Headers(v) = {} THEN d[v]
                  ELSE MapSegment(d, Segments[p][CHOOSE i \in Headers(v) : TRUE], data)[v]]
    IN  MapTo(elf, StackAt, stack, stack + StackPages, "write")

\* The directory of a new process.
MapMemory(p, data, stack) == MapInto(Identity, p, data, stack)

Holes(d) == {v \in Pages : d[v].rights = "none"}

----------------------------------------------------------------------------
(* The heap, as Allocator describes it, with the choice of Heap: the first *)
(* run of blocks that fits.                                                *)

Region(b, n) == b .. (b + n - 1)
Blocks(h) == UNION {Region(r.at, r.length) : r \in h}

Fits(h, n) == LET free == HeapPages \ Blocks(h)
              IN  {b \in free : Region(b, n) \subseteq free}
FirstFit(h, n) == LET fits == Fits(h, n)
                  IN  IF fits = {} THEN Null ELSE Least(fits)

Granted(h, b, n) == h \cup {[at |-> b, length |-> n]}

\* kfree of an address that is no region of the heap's: the null pointer, the
\* argument strings and the elf_file in process_t lie below the heap, and so
\* does the byte of the table that is cleared for them, where nobody reads.
Kfree(h, freed) == {r \in h : r.at \notin freed}

\* One request after others: s.cleared is what kzalloc cleared so far.
NoRequest(h) == [heap |-> h, at |-> << >>, cleared |-> {}, served |-> TRUE]

Request(s, n) ==
    LET b == FirstFit(s.heap, n)
    IN  [heap    |-> Granted(s.heap, b, n),
         at      |-> Append(s.at, b),
         cleared |-> s.cleared \cup Region(b, n),
         served  |-> s.served /\ b # Null]

\* The arguments of a process, the path and the item of a file: taken by
\* arguments_t, by path::parse and by new_fat_item_for_directory_item.
Arguments(h) == Request(NoRequest(h), 1)
Parsed(s)    == Request(s, PathPages)
Found(s)     == Request(s, ItemPages)

\* fopen, up to the search: the path and the descriptor.
Open(s) == Request(Parsed(s), 1)

\* elf32::load: the file is opened, read into a region, and closed.  fclose
\* gives the descriptor back, the third of the requests, and not the item.
ElfLoad(s, p) ==
    LET file == Request(Found(Open(s)), PagesOf(FileSize[p]))
    IN  [file EXCEPT !.heap = Kfree(@, {file.at[3]})]

\* What a system() takes that succeeds: the file, the stack, the task.
Load(h, p) ==
    LET all == Request(Request(ElfLoad(Arguments(h), p), StackPages), TaskPages)
    IN  [heap |-> all.heap, cleared |-> all.cleared, served |-> all.served,
         argv |-> all.at[1], kept |-> {all.at[2], all.at[4]},
         data |-> all.at[5], stack |-> all.at[6], task |-> all.at[7]]

\* What a system() takes that fails: when there is a slot, load_elf and
\* load_binary each leave what they took for a file they do not find.
Failing(h) == IF depth = MaxProcesses THEN Arguments(h) ELSE Open(Open(Arguments(h)))

\* The shell finds the memory it needs.
ASSUME ShellAssumption == Load({}, Shell).served

NoAllocations == [i \in 1 .. MaxAllocations |-> [address |-> Null, size |-> 0]]

\* process_t of a program that was loaded as l describes.
Process(p, l) == [program |-> p, argv |-> l.argv, data |-> l.data,
                  stack |-> l.stack, task |-> l.task, allocations |-> NoAllocations]

----------------------------------------------------------------------------
(* malloc and free.                                                        *)

Running == mode = "user"
Allocations == proc[Current].allocations
Entries(address) == {i \in 1 .. MaxAllocations : Allocations[i].address = address}

Granting(n, b) == Running /\ b = FirstFit(held, n) /\ b # Null
                  /\ held' = Granted(held, b, n)

\* malloc: the block is cleared, then a place in the table is looked for.
\* Without one the block is not given back.
Malloc(size) ==
    LET n == PagesOf(size) IN
    \E b \in HeapPages :
    /\ Granting(n, b)
    /\ \/ /\ Entries(Null) = {}
          /\ lost' = lost \cup {b}
          /\ UNCHANGED <<proc, pages>>
       \/ /\ Entries(Null) # {}
          /\ pages' = [pages EXCEPT ![Current] = MapTo(@, b, b, b + n, "write")]
          /\ proc' = [proc EXCEPT ![Current].allocations[Least(Entries(Null))] =
                                       [address |-> b, size |-> size]]
          /\ UNCHANGED lost
    /\ UNCHANGED <<depth, mode>>

\* Mutant of Free: the pages stay as they are.
FreeKeepsPages(address) ==
    /\ Running /\ proc[Current].program \in Freers
    /\ Entries(address) # {}
    /\ proc' = [proc EXCEPT ![Current].allocations[Least(Entries(address))].address = Null]
    /\ held' = Kfree(held, {address})
    /\ UNCHANGED <<lost, depth, pages, mode>>

\* Mutant of Free: the pages are taken from the directory of every process.
FreeEverywhere(address) ==
    /\ Running /\ proc[Current].program \in Freers
    /\ Entries(address) # {}
    /\ LET size == Allocations[Least(Entries(address))].size IN
       pages' = [s \in Slots |-> MapTo(pages[s], address, address,
                                      address + PagesOf(size), "none")]
    /\ proc' = [proc EXCEPT ![Current].allocations[Least(Entries(address))].address = Null]
    /\ held' = Kfree(held, {address})
    /\ UNCHANGED <<lost, depth, mode>>

\* free: the pages are gone from the directory for good, also when the block
\* has another owner.  The null pointer is found in the first empty entry,
\* with the size of what was there before.
Free(address) ==
    /\ Running /\ proc[Current].program \in Freers
    /\ Entries(address) # {}
    /\ LET size == Allocations[Least(Entries(address))].size IN
       pages' = [pages EXCEPT ![Current] =
                   MapTo(@, address, address, address + PagesOf(size), "none")]
    /\ proc' = [proc EXCEPT ![Current].allocations[Least(Entries(address))].address = Null]
    /\ held' = Kfree(held, {address})
    /\ UNCHANGED <<lost, depth, mode>>

----------------------------------------------------------------------------
(* The calls that read a string of the caller.                             *)

\* The kernel may touch the pages of set with the caller's directory loaded.
Mapped(set) == set \cap Holes(pages[Current]) = {}

\* print: task::read and no more.  The block tmp is mapped for the copy and
\* then as it was, which may be not at all: whether the last read of it faults
\* depends on what the processor remembers of the mapping.  tmp is not given
\* back.
ReadString ==
    /\ \E tmp \in HeapPages : Granting(1, tmp) /\ lost' = lost \cup {tmp}
    /\ UNCHANGED <<depth, proc, pages, mode>>

\* system, when the program is found: everything after the read is done with
\* the caller's directory.
SystemEnters(p) ==
    \E tmp \in HeapPages :
    /\ Running /\ depth < MaxProcesses
    /\ tmp = FirstFit(held, 1)
    /\ LET l == Load(Granted(held, tmp, 1), p) IN
       /\ l.served /\ Mapped(l.cleared)
       /\ held' = l.heap
       /\ lost' = lost \cup {tmp} \cup l.kept
       /\ proc' = [proc EXCEPT ![depth] = Process(p, l)]
       /\ pages' = [pages EXCEPT ![depth] = MapMemory(p, l.data, l.stack)]
    /\ depth' = depth + 1
    /\ UNCHANGED mode

\* system, when it returns an error: no slot, or no such file.
SystemFails ==
    \E tmp \in HeapPages :
    /\ Running /\ tmp = FirstFit(held, 1)
    /\ LET f == Failing(Granted(held, tmp, 1)) IN
       /\ f.served /\ Mapped(f.cleared)
       /\ held' = f.heap
       /\ lost' = lost \cup {tmp} \cup {f.at[i] : i \in DOMAIN f.at}
    /\ UNCHANGED <<depth, proc, pages, mode>>

System == (\E p \in Programs : SystemEnters(p)) \/ SystemFails

\* A page fault in the kernel: the last read of tmp, or a block that is
\* cleared.  The exception handler halts the machine.
KernelFaults ==
    /\ Running
    /\ \E tmp \in HeapPages :
       /\ tmp = FirstFit(held, 1)
       /\ LET h == Granted(held, tmp, 1) IN
          \/ ~Mapped({tmp})
          \/ Failing(h).served /\ ~Mapped(Failing(h).cleared)
          \/ /\ depth < MaxProcesses
             /\ \E p \in Programs : LET l == Load(h, p) IN
                                      l.served /\ ~Mapped(l.cleared)
    /\ mode' = "faulted"
    /\ UNCHANGED <<held, lost, depth, proc, pages>>

----------------------------------------------------------------------------

Pointers(s) == <<proc[s].argv, proc[s].data, proc[s].stack, proc[s].task>>
AllocatedBy(s) == {proc[s].allocations[i].address : i \in 1 .. MaxAllocations} \ {Null}
OwnedBy(s) == AllocatedBy(s) \cup {Pointers(s)[i] : i \in 1 .. 4}

\* Entries that free has emptied keep their size.
Emptied(allocations) ==
    [i \in DOMAIN allocations |-> [allocations[i] EXCEPT !.address = Null]]

\* Mutant of Exit: the arguments are not freed.
ExitKeepsArguments ==
    /\ Running /\ depth > 1
    /\ held' = Kfree(held, OwnedBy(Current) \ {proc[Current].argv})
    /\ proc' = [proc EXCEPT ![Current].allocations = Emptied(@)]
    /\ depth' = depth - 1
    /\ UNCHANGED <<lost, pages, mode>>

\* exit: terminate frees the allocations, the program, the stack, the task and
\* the arguments.  What it unmaps is in the directory it frees, so pages is
\* left as it is.  The first process, the shell, does not end.
Exit ==
    /\ Running /\ depth > 1
    /\ held' = Kfree(held, OwnedBy(Current))
    /\ proc' = [proc EXCEPT ![Current].allocations = Emptied(@)]
    /\ depth' = depth - 1
    /\ UNCHANGED <<lost, pages, mode>>

\* A request of the calls above does not fit.  What follows is the heap's
\* answer (see Heap) and the failures of Kernel; nothing more is said here.
Spends ==
    /\ Running
    /\ \/ \E size \in Sizes : FirstFit(held, PagesOf(size)) = Null
       \/ FirstFit(held, 1) = Null
       \/ FirstFit(held, 1) # Null
          /\ LET h == Granted(held, FirstFit(held, 1), 1) IN
             \/ ~Failing(h).served
             \/ depth < MaxProcesses /\ \E p \in Programs : ~Load(h, p).served
    /\ mode' = "spent"
    /\ UNCHANGED <<held, lost, depth, proc, pages>>

\* kernel_main has loaded the shell, with the kernel's directory.
Init ==
    LET l == Load({}, Shell)
        d == MapInto(Identity, Shell, l.data, l.stack)
    IN  /\ held = l.heap /\ lost = l.kept
        /\ depth = 1
        /\ proc = [s \in Slots |-> Process(Shell, l)]
        /\ pages = [s \in Slots |-> IF s = 0 THEN d ELSE Identity]
        /\ mode = "user"

Next == \/ \E size \in Sizes : Malloc(size)
        \/ \E address \in HeapPages \cup {Null} : Free(address)
        \/ ReadString
        \/ System
        \/ KernelFaults
        \/ Exit
        \/ Spends

Spec == Init /\ [][Next]_vars

----------------------------------------------------------------------------
(* Properties.                                                             *)

AllocationType == [address : HeapPages \cup {Null}, size : Sizes \cup {0}]

ProcessType == [program : Programs, argv : HeapPages, data : HeapPages, stack : HeapPages,
                task : HeapPages, allocations : [1 .. MaxAllocations -> AllocationType]]

DirectoryType == [Pages -> [frame : Nat, rights : {"none", "read", "write"}]]

TypeOK == /\ held \subseteq [at : HeapPages, length : Nat \ {0}]
          /\ lost \subseteq HeapPages
          /\ depth \in 1 .. MaxProcesses
          /\ proc \in [Slots -> ProcessType]
          /\ pages \in [Slots -> DirectoryType]
          /\ mode \in {"user", "faulted", "spent"}

\* Every region of the heap is lost or is led to by exactly one pointer of one
\* process that runs or waits: no process keeps a pointer to memory that was
\* given back, and exit leaves nothing behind that the process was given.
OneOwner ==
    /\ {r.at : r \in held} = lost \cup UNION {OwnedBy(s) : s \in Live}
    /\ \A s \in Live :
          /\ OwnedBy(s) \cap lost = {}
          /\ \A t \in Live \ {s} : OwnedBy(s) \cap OwnedBy(t) = {}
          /\ AllocatedBy(s) \cap {Pointers(s)[i] : i \in 1 .. 4} = {}
          /\ \A i, j \in 1 .. 4 : i # j => Pointers(s)[i] # Pointers(s)[j]
          /\ \A i, j \in 1 .. MaxAllocations :
                i # j /\ proc[s].allocations[i].address # Null =>
                    proc[s].allocations[i].address # proc[s].allocations[j].address

\* The memory of process s that it may use: not its directory.
UsableBy(s) == Blocks({r \in held :
                         r.at \in AllocatedBy(s) \cup {proc[s].data, proc[s].stack}})

\* The segments of a program, its bss too, lie in its file.
InFile(p) == \A i \in DOMAIN Segments[p] :
    PagesOf(Segments[p][i].offset + Segments[p][i].memsz) <= PagesOf(FileSize[p])

\* What a process may write is its own: after a block was given back, by free
\* or by the exit of another, no directory still leads to it.
WritesOwn ==
    \A s \in Live : InFile(proc[s].program) =>
        \A v \in Pages : pages[s][v].rights = "write" => pages[s][v].frame \in UsableBy(s)

Leads(s, v, frame, rights) == pages[s][v] = [frame |-> frame, rights |-> rights]

\* A process that waits or runs finds its stack, its program and the whole of
\* its allocations where it was told they are, whatever was freed and taken.
MemoryInPlace ==
    \A s \in Live :
      /\ \A k \in 0 .. (StackPages - 1) :
            Leads(s, StackAt + k, proc[s].stack + k, "write")
      /\ \A i \in 1 .. MaxAllocations : LET a == proc[s].allocations[i] IN
            a.address # Null => \A k \in 0 .. (a.size - 1) :
                LET v == a.address + k \div PageSize IN Leads(s, v, v, "write")
      /\ \A i \in DOMAIN Segments[proc[s].program] :
            LET g == Segments[proc[s].program][i] IN
            \A k \in 0 .. (g.memsz - 1) :
                pages[s][(g.vaddr + k) \div PageSize].frame =
                    proc[s].data + (g.offset + k) \div PageSize

\* The kernel faults on a page only for a caller that has called free: what a
\* command gives back leaves no hole in the directory of the shell, or of the
\* next process in its slot.
OnlyFreersFault == mode = "faulted" => proc[Current].program \in Freers
=============================================================================
