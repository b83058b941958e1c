# A TLA+ model of rdk-os

rdk-os is a 32-bit hobby operating system: a boot loader, a kernel with paging,
a heap, processes, a keyboard, a FAT16 reader and a terminal, and a shell that
starts other programs. This directory holds TLA+ modules of its core, the TLC
configurations that check them and TLAPS proofs about them. Paths below are
relative to `src/os/kernel/` unless they say otherwise.

## The system

| Component | State | Operations | Hard parts |
|---|---|---|---|
| heap (`memory/heap`) | a table of one byte per 4096-byte block | kmalloc, kzalloc, kfree | first fit over a table of marks; what happens at its end and when it refuses |
| tasks (`task/task.cpp`) | head, tail, current; next, prev, registers and directory of each task | create, free, remove, next, _switch, _return, save_current | the list, the directory and the registers change at different moments |
| processes (`task/process.cpp`) | the table of slots, who is taken, the keyboard focus, per process: memory, stack, allocations, key buffer | load, terminate, malloc, free, keyboard_listener, keyboard_pop | failures halfway through a load; order inside terminate |
| system calls (`systemcall`) | the table of handlers | system, exit, getchar, malloc, free, file calls | system and exit do not return where they were called from |
| interrupts (`isr`, `idt`) | the table of handlers | interrupt_handler, exception_handler | loads the kernel's directory on the way in, the task's on the way out |
| keyboard (`drivers/keyboard`) | the listeners, the states of the keys | irq_handler, notify | arrives between any two instructions of a program |
| key buffer (`../ds/circular_queue.h`) | two indices and an array | push, pop, pop_back, full, empty | indices that wrap, signed and unsigned |
| paging (`memory/paging.cpp`) | page directories and tables, the one that is loaded | new_four_gb_directory, map_to, set, free, switch_directory | unmapped blocks that go back to the heap |
| loader (`loader/formats`) | a file in memory | load, process, close | partial failures |
| files (`vfs`, `drivers/disk`) | descriptors, the items of an open file, streams | fopen, fread, fseek, fstat, fclose | descriptors that alias, reads across sectors and clusters |
| directories (`vfs/path.cpp`, `vfs/fat`) | the root directory, the parts of a path, the directories loaded for it | parse, get_directory_entry, load_directory, open, close | names of fixed width, buffers that are not terminated, memory freed on each way out |
| terminal (`../terminal`) | the cells, the cursor | print, backspace | wrapping and scrolling |
| boot (`kernel.cpp`) | what is set up so far | kernel_main | interrupts are enabled before there is a heap |
| shell (`src/programs/shell`) | the line, where readline is in it | main, readline | backspace, a full line, keys that come while it prints |

How they interact: a program runs in user mode until an interrupt or `int 0x80`.
`interrupt_handler` loads the kernel's page directory, calls the handler of the
number and, if a task is current, loads that task's directory and returns to the
interrupted program. Interrupts are off in between, so there is one processor
and one handler at a time. `isr_handler` first saves the registers of the caller
in the current task. `system()` loads a program into the first free slot, makes
its task the current one and enters it without returning: the caller is
suspended. `exit()` frees the process and its task, moves the current task to
the next of the ring and enters it with the registers that were saved. There is
no preemption (`timer.cpp` is empty). The keyboard interrupt appends to the
buffer of the process in focus, which is process 0 for good.

What makes each correct: the heap gives no block to two callers and takes back
what it gave; the queue is a bounded queue; the registers, the directory and the
current task are always those of one live process; a suspended caller is resumed
with its own registers; the list of tasks is the list of live processes; keys
reach the shell and nobody else; a command that ends gives the processor back; a
process sees only its own memory; reading a file gives its bytes; a path opens
what it names; the line that is run is the line that was typed and stands on the
screen.

## Modules

| Module | Models | Role |
|---|---|---|
| `Allocator` | what the heap promises | abstract: disjoint regions, granted and released |
| `Heap` | `heap.cpp`, `kheap.cpp` | one action per call: `Kmalloc`, `Kzalloc`, `KzallocRefused`, `Kfree`, `KfreeHollow`; the loops in closed form |
| `HeapLoops` | the three loops of `heap.cpp` | one iteration per step; shown to compute the closed forms of `Heap` |
| `BoundedDeque` | what the queue promises | abstract: a sequence of bounded length |
| `CircularQueue` | `circular_queue.h` | `Push`, `Pop`, `PopBack`; implements `BoundedDeque` |
| `TaskList` | the pointers of `task.cpp` | operators on a record: `Listed` (create), `Remove`, `NextTask`, `SwitchTo` |
| `Calls` | what `system()` and `exit()` promise | abstract: calls and returns along a chain of callers |
| `Kernel` | `process.cpp`, `task.cpp`, the system calls, `isr.cpp`, `exception.cpp` | uses `TaskList`; implements `Calls` |
| `Disk` | `disk::read`, the wait in `read_sectors` | operators: the sector a byte is taken from, in closed form |
| `Fat16` | `get_entry`, `get_cluster_for_offset`, `read_internal`, `fat16::read` | operators: the address on the disk of each byte of a read; the reference `FileByte` |
| `OpenFiles` | what the file calls promise | abstract: one open file with one position, the last opened, for all who hold a descriptor; exact reads where they are served |
| `Files` | `file.cpp`, `open`, `seek`, `stat` and `close` of `fat16.cpp`, the loads of `process.cpp` | one action per call; uses `Fat16`, implements `OpenFiles` |
| `UserMemory` | `malloc` and `free` of `process.cpp`, `paging.cpp`, `task::read`, the memory side of load and terminate | one action per call; the heap as `Allocator` has it, with the choice of `Heap` |
| `Directories` | `path.cpp`, `get_directory_entry` and what it calls, `open` and `close` of `fat16.cpp` | one search of a directory per step; which name finds which entry |
| `CommandLine` | `systemcall_system`, `arguments.cpp`, `load_data` of `process.cpp` | composes with `Directories`: from a line to a program and its words |
| `Tape` | what the terminal promises | abstract: a tape that grows by characters and rows and loses its first row |
| `Terminal` | `terminal.cpp` | operators and a specification; implements `Tape` |
| `Keyboard` | `ps2.cpp`, `keyboard.cpp`, `keyboard_listener` | operators: `ScanCode`, `BeyondTables` |
| `Typing` | what the keyboard and the shell promise who types | abstract: keys that go down, characters that wait, a line that is edited |
| `Console` | `kernel_main`, `interrupt_handler`, `main.c` of the shell | composes `Terminal` and `Keyboard`; implements `Tape` and `Typing` |
| `HeapProofs`, `HeapLoopsProofs`, `CircularQueueProofs`, `KernelProofs`, `FilesProofs`, `UserMemoryProofs`, `CommandLineProofs`, `ConsoleProofs` | - | the theorems |
| `MCHeap`, `MCHeapLoops`, `MCFiles`, `MCUserMemory`, `MCCommandLine`, `MCConsole` | - | the sets of sizes and counts, a disk, three programs, four directories and the paths, the keys, for TLC |

### Heap

`entries` is the table; an entry is the set of its flags. The other variables
record what the callers hold. The code's search loop is `StartBlock`: the first
run that fits, else the start of the free tail however short (`heap.cpp:88`),
else an error. `stray` collects the table entries written past its end.
Requests of no blocks (size 0, and sizes that wrap when they are aligned) return
a pointer to a block that is not marked: these are `hollow`, and freeing one later
may release the block of another caller. `kzalloc` clears as many bytes as it was
asked for from wherever it was given (`Cleared`): from the null pointer when the
heap refuses (`KzallocRefused`), which for sizes above the table's address (0x7E00)
clears table entries, and from a hollow block for a size that wraps, which goes
through all of memory and round to the table. When the table is damaged in one of
these ways `broken` holds and the behaviour ends.

### Kernel

A handler is one step, because it runs with interrupts off. `ctx` names the
process whose registers are in the processor and `saved[t]` the one whose
registers are in task `t`; `dir` is the loaded directory. The actions and the
code:

| Action | Code |
|---|---|
| `Key`, `Tick` | `interrupt_handler` with `ps2::irq_handler`/`keyboard_listener`, or without a handler |
| `GetChar` | `isr_handler`, `systemcall_getchar`, `keyboard_pop`; the shell's `readline` decides whether the line has ended |
| `SystemEnters` | `systemcall_system` when `load` succeeds: `load_at`, `task::create`, `_switch`, `_return` |
| `SystemFails` | ... when it returns an error: no slot, no file or memory, no mapping (the task is freed again) |
| `SystemRunsWild` | ... when `task::create` fails and the error is taken for success |
| `Exit` | `systemcall_exit`: `terminate`, `task::free`, `remove`, the two calls of `next` |
| `Fault` | `exception_handler`, up to `cli; hlt` |
| `Panic` | `save_current` without a current task |

What the programs do is a parameter: `Spawners` call `system()`, `Exiters` end,
`Faulters` may fault. For the programs that ship, only the shell spawns and it
never ends. When the registers and the directory are not those of one program
(`~InPlace`) instructions are fetched from another program and any call may
follow. After the registers of a null task are loaded nothing more is said
(`mode = "wild"`).

Abstracted: the memory a load takes from the heap (a load fails where `Refusals`
says it may), the command line (a program name), what is printed, and the
registers other than whose they are. An exception is one whose number reaches
the handler: the stubs of `isr.asm:12` push the number of an exception with an
error code as a word, so for those with a nonzero code (most page faults) the
number read is not the vector.

### Files

A byte of the disk is named by its address, and what a read returns is the
addresses of the bytes it delivers. `SectorHeld` is the loop of `disk::read`: it
fetches the first sector before the loop and again at the first boundary inside
the read, so that a read that began inside a sector is one sector behind from
there on. `EntryPosition` is the product `get_entry` seeks to; the table itself
(`TableAssumption`) is as FAT16 has it, and the model reads whatever word is at
the product. `ChunkAt` is where `read_internal` begins the chunk of a byte, which
is not aligned to the clusters. A sector beyond the disk is never ready: the
driver waits with interrupts off (`Hangs`, `hung`).

| Action | Code |
|---|---|
| `Fopen`, `FopenFails` | `fopen`, `create_descriptor`, `fat16::open`, `get_directory_entry` |
| `BadDescriptor` | the calls with a number that `file::descriptor` refuses |
| `Fread`, `Fseek`, `Fstat`, `Fclose` | the call in `file.cpp` and the handler of `fat16.cpp` it leads to |
| `Ends` | `terminate`, which closes no file |
| `Load` | `load_elf` and `load_binary`: open, stat, read as one block, close, in one system call |

`Finds` says which file a name may lead to: the buffer of the upper-case name is
not terminated (`fat16.cpp:443`), so what follows the name is left from an
earlier call, and a name may find the file of a longer name or none
(`FopenFails` is enabled for every name). `create_descriptor` sets `is_taken` to
false where it means true (`file.cpp:42`): `Entered` keeps that, so every
descriptor is 1, and every program that holds one uses the object of the last
`fopen`, or of the last load, with its one position. `OpenFiles` says so:
`current` is the one open file, `holders` who has a descriptor. Programs open,
close, seek, load and end in any order. A program whose file another has closed,
or a load has replaced, reaches an object that was freed: that is `Dangling`
(`OWild` of `OpenFiles`), after which nothing more is said. Of the programs that
ship only `cat` opens a file, and it loads nothing, so there none of this occurs.

A read is *served* (`Served`) when it lies in the first cluster of the file and
each of its blocks begins at a sector or ends in the sector it begins in.
`OpenFiles` promises exact bytes of the served reads and of the load of a
program that fits a cluster, and nothing of the others, except that they leave
the open files alone. The position is not moved by a read, as in the code.

Left out: the memory that a failing `fopen` never gives back, the directories (a
path is a name), the drive number, and the read-only flag of `fstat`.

### User memory

A page is its number; a block of the heap is the page it lies in. `held` is what
was taken from the heap, `pages` the directory of each slot, `proc` the fields of
`process_t` that point to memory. `lost` records the regions no pointer leads to
any more: the block of every string that is read (`task.cpp:116`), the path and
the item of every `fopen`, the arguments of a load that fails, the block of a
`malloc` that finds its table full.

| Action | Code |
|---|---|
| `Malloc`, `Free` | `process::malloc`, `process::free` with `map_to`; the null pointer is found in the first empty entry, and as much is unmapped from page 0 as was allocated there last |
| `ReadString` | `systemcall_print`: `task::read` |
| `SystemEnters` | `systemcall_system` when the program is found: `task::read`, the arguments, `fopen`, the file, the stack, the task, `map_memory` |
| `SystemFails` | ... when there is no slot or no such file |
| `KernelFaults` | ... when the kernel touches a page that the loaded directory of the caller does not have |
| `Exit` | `terminate`: every `kfree` of it |
| `Spends` | a request does not fit: the rest is for `Heap` and `Kernel` |

`free` takes the pages of a block out of the caller's directory for good, and
the block may be given to anyone. As `task::read` leaves that directory loaded,
the rest of `system()` clears its new blocks through it: a program that calls
`free` and then `system` may fault in the kernel. None that ships calls `free`;
`OnlyFreersFault` says that the holes stay with those that do.

Every page may be read by every program (`new_four_gb_directory`), so only what
may be written is separate. A program header is mapped for the size it has in
memory (`process.cpp:318`): a bss that its file is too short for leads to the
blocks of others. `sparse` in the run is such a program, and `WritesOwn` is said of
the programs whose segments lie in their files.

Left out: requests of no bytes (a pointer to a block that is not taken; see
`hollow` in `Heap`), since freeing one gives away a block in use; requests beyond
`LowPages`, since a second `free(0)` would unmap the heap's table or the kernel;
programs that are not ELF files, which are read twice; the order of the blocks
inside a task; the calls on files, which lose memory like `print`. A stack of
processes is what `Calls` promises, and `Kernel` keeps for the programs that ship.

### Directories

A name is a sequence of characters, because it matters where one ends. An entry
has a name and an extension of fixed widths, padded with spaces, and behind them
its attributes; `ProperString` reads up to a space or a 0, whatever field that is
in. So a name that fills its field takes the extension along, and an extension
that fills its own takes the byte of attributes, unless that is the space of a
plain archive file. `Parse` is `path::parse`: it cuts at the first slash of a run
and goes on one character later, and a slash at the end leaves a last part that
nothing is written to (`Unset`; `Stale` is what may be found there).
`ItemsCount` counts the entries that are not deleted, while the entries in memory
are as many from the first slot on. The upper-case name in `get_item_in_directory`
is not terminated: `Leftovers` may follow it.

| Action | Code |
|---|---|
| `Fopen`, `FopenRefused` | `fopen` up to `fat16::open`; the path, the drive or the mode is refused |
| `Descend` | a turn of `get_directory_entry` that goes on in the directory it found |
| `Arrive` | ... that found the last part: an item, opened; a directory may be opened as well |
| `Miss` | ... that found nothing, or a file with parts to go |
| `Fclose`, `FcloseAgain` | `fat16::close`, `fat_item_t::free` |

Every open file has descriptor 1 (see Files): `leading` says whether it leads to the
item that was opened last. An earlier one that was not closed is never closed: its
`fclose` frees the last item again (`FcloseAgain`), and nothing more is said (`freed`).

A missing part in the middle of a path is read through a null pointer, at an
address that holds an interrupt vector of the BIOS: it is taken for a file, and
the walk ends. `held` counts how often the entries of a directory are in memory.
`Files` has what is done with the item that is found.

Left out: directories of more than one cluster, and memory that runs out in the
middle of a walk.

### Command line

`system()` puts the drive in front of the line, cuts it at its spaces and collects
the words in an `arguments_t` on the kernel stack. The words are copied into the
process, but the pointers in `argv` are not made to lead to the copy: the program is given
pointers to the kernel stack, which every program may read. Each handler begins at
the top of that stack (`esp0` of the TSS is constant). The object has 128 rows of 109
bytes with row 0 lowest, so the frames of the other handlers reach only the
highest rows; `Untouched` says how many are out of their reach. `rows` is that object,
`chain` the programs that wait in `system()` and the one that runs, `loading` where
`load_data` is. The walk along the first word is that of `Directories`, one search a
step.

| Action | Code |
|---|---|
| `System` | `systemcall_system` up to `load`: the words, and whether there is a slot |
| `LoadOpens` | `fopen` in `load_elf`, and again in `load_binary` when `load_elf` has failed |
| `LoadSearches` | a turn of `get_directory_entry` |
| `LoadMisses` | nothing was found |
| `LoadFails` | a directory (`fstat` refuses it), no program, no memory; or `load_at` fails later, and it is not tried again |
| `Starts` | the rest of `load_at` and of `systemcall_system` |
| `Exit`, `OtherCall` | `systemcall_exit`; any other handler, with the calls on files |

A program finds its words (`ArgvIsCommand`) until it calls `system()` itself, even
where that is refused: the words of that line are then in their place. The programs
that ship and read their words (`dummy`, `echo`, `cat`) do not call it. A line with a word
too long or too many words is written over what lies behind the rows; nothing is
said from there on (`wild`). The vector itself is in `UserMemory`.

### Terminal, keyboard and shell

`Terminal` has the cells and the cursor as the code has them, `x` and `y` with their
remainders. `Tape` is what they are for: the cells in front of the cursor, in one
sequence (`Shown`); a backspace takes the last of them and a full screen loses the
first row. `Keyboard` keeps the state of every key; a code of a key that is held is
repeated by the controller and is no click. The codes from 0x57 on (F11, F12, the
prefix of the extended keys) read past `keystates` and `kbdus`: the key may be
clicked, with any character of `BeyondChars`.

`Console` composes them. `stage` is the call of `kernel_main` that is next; an
interrupt may come at any stage after `isr::init`, where `kernel_directory` may be
null still. The shell's steps are its system calls:

| Action | Code |
|---|---|
| `Boot`, `BootFails` | the next call of `kernel_main`; its panic |
| `Interrupt` | `interrupt_handler`: the keyboard, or the timer, which has no handler |
| `PrintPrompt` | `printf(">")`, and the start of `readline` |
| `GetChar` | `getchar`; Enter ends the loop |
| `Echo` | `putchar` of the key, then the line and `i` |
| `EndLine` | the end of `readline` and its `print` |
| `CommandPrints`, `SystemReturns` | what a command prints while `system()` runs; its return |

`Typing` is the promise to who types: from when the shell listens (`Listen`) a key
gives its character exactly once for each time it goes down, unless the buffer is
full; characters wait in order; a backspace takes the last character of the line; a
line is ended by Enter or by its last character, and is given up only then. The keys
that are down are `held`, a history variable that follows the codes the controller
sent and not the states the driver keeps. `memset(line, 0, sizeof(line))` clears
as many bytes as a pointer has (`Cleared`), so what is read of the line is
`LineGiven`, up to the first 0. A backspace in an empty line is stored in it and
erases the prompt: `spoilt`, a history variable, remembers that, as the line on the
screen is another one from there on.

## Runs

| Run | Instance | Shows |
|---|---|---|
| `heap` | 5 blocks of 2 bytes, sizes 0, 1, 3, 5, 7, 23 and 31; a word of 32 values | `TypeOK`, `LiveDisjoint`, `TableMatches`, `FreeIsExact`, `OverrunOnlyWhenNothingFits`, `Refinement` |
| `heap_overrun` | the same | `WithinHeap` is violated: an allocation past the end |
| `heap_loops` | every table of 3 blocks, counts 0-4 | the loops end and compute `Heap`'s outcomes |
| `keyboard_queue` | 4 slots, 2 elements | the queue implements `BoundedDeque` |
| `kernel` | 3 slots, 3 task addresses, a buffer of 2 keys, the shipped programs | all invariants, `CallsRefinement`, `CommandReturns`, `BufferDrains` |
| `kernel_end` | 2 slots, every program may start programs, end and fault, every refusal | `SavedIntact`, `NoTaskNoProcess`, `CallsRefinement` |
| `kernel_nested` | 4 slots, programs start programs and end | `AlwaysNextTask` is violated |
| `files` | a disk of 19 sectors of 2 bytes, clusters of 2 sectors, files of 0, 1 and 2 clusters, 2 programs, 2 objects, positions to 5 | `ReadsExactlySectorwise`, `FilesRefinement` |
| `user_memory` | pages of 2 bytes, a heap of 16, 2 processes, 2 allocations each, sizes of 1 and 2 pages, three programs | `OneOwner`, `WritesOwn`, `MemoryInPlace`, `OnlyFreersFault` |
| `files_chain` | the same as `files` | `NoDamageReported` is violated: a whole chain is taken for a damaged one |
| `command_line` | 4 directories, names of 2 letters and extensions of 1, 16 paths, 2 items not closed, 7 lines, 3 rows of 5 characters, 2 processes | `TypeOK`, `ArgvIsCommand`, `RunsWhatIsNamed`, `OpensWhatIsNamed`, `FindsExactly`, `HoldsWhatItUses` |
| `console` | a screen of 2 rows of 3 cells, a line of 2 characters, a letter, backspace and Enter, a buffer of 2 keys | `TypeOK`, `BootIsSafe`, `EchoIsLine`, `TapeRefinement`, `TypingRefinement`, `TypedLineRuns` |

Bounds. Five blocks give room for three allocations with gaps between or
after them, for a run that ends at a taken block and for a tail that is too
short; the sizes ask for none, one to four, and more blocks than there are, and the
largest wraps when it is aligned and reaches the table when it is cleared. The loops add
every malformed table. Four slots let both indices of the
queue wrap while it is full and while it is nearly empty. Three slots and three
task addresses let the shell and a command run while a freed address is used
again, with one slot to spare; in `kernel_nested` the chain can be three deep,
which is where `exit` goes wrong (the directory of one task and the registers of another,
until the shell is ended while a command is left), and in `kernel_end` the table is full as soon as
one program has started another. A buffer of two
keys is full, empty and in between. Two bytes a sector and two sectors a cluster
give a read every position in a sector and in a cluster, and the requests (one
byte three times, three bytes, six bytes) make it end before, at and past each
boundary; the products that `get_entry` seeks to fall in the root directory, in
two files and past the end of the disk. Two objects let one be freed while the
other is used, and an object be used again. `MaxPosition` bounds what `SEEK_CUR`
can add up to. Sixteen blocks hold the shell, a command with its table of
allocations full, and a few that are lost, until the heap has run out; two slots
let a slot be used again by another program. The root directory of `command_line`
has a deleted entry in front of the others and one entry too many behind it, a
name and an extension that fill their fields, and a read-only file; the paths
have names of one, two and three parts, slashes at either end and in a run, and
`..`. The seven lines have one, two and four words (more than the rows), a space in
front, behind and in a run, the name of a directory and of a file that the deleted
entry leaves out of reach; of three rows two are reached by `system()` alone. The line of `console` just fills a row with its prompt, so that echo,
backspace and the end of the line all meet the end of a row, and two rows let the
screen scroll under a line that is being typed. The theorems say that the bounds do not
matter for the properties they cover.

Deadlock is not checked where the system really stops: a halted machine, a
damaged or exhausted heap, a loop that has ended.

Fairness (`FairSpec`). `WF` of `GetChar` and of `System`: the shell is a loop
that polls `getchar` and calls `system()` at the end of a line, and an interrupt
always returns to it. `WF` of `Exit`: `_start` calls `exit` when `main` returns,
and the commands are straight-line programs. Keys, ticks, faults and failures
are not fair: they may never come. `HeapLoops` assumes `WF` of its only process.
In `Console` it is `WF` of the steps of the processor, `Step`: an interrupt returns to
where it came from, and a command ends. Keys and what commands print are not fair.

The programs that ship are run without the refusals `task` and `directory`: where
there is no memory for the directory of a command, `task::create` frees a task that
is not in the list, `task::remove` empties the list of the shell, and `AlwaysNextTask`
fails. `kernel_end` has every refusal.

`kernel_end` has two slots, so that no call of `system()` is nested in another. With
four slots, when every program may start programs, `NoTaskNoProcess` fails too: the
exits of a nested call leave the `prev` of a task pointing to one that was freed,
`task::remove` later takes it for the new tail, the head and the tail are then one task
while another process is still in the table, and the next removal empties the list. It is
the flaw that `kernel_nested` reports, a few calls further on. With three slots the
property holds.

What the violated runs say of the code is in `PROJECT.json` under `findings`.

## Proofs

Proved for every value of the constants, under the assumptions the modules name:

* `HeapProofs`: type correctness, `LiveDisjoint`, `TableMatches`, `FreeIsExact`,
  `OverrunOnlyWhenNothingFits` and the refinement of `Allocator`. The inductive
  invariant `Inv` is `TypeOK /\ LiveDisjoint /\ TableMatches`. Disjointness alone is
  not inductive: a free follows the marks of the table and not the list of
  allocations, and a request takes blocks the table calls free. `TableMatches`,
  that the marks are exactly those of the allocations, makes the one release what
  was granted and the other find blocks that nobody holds.
* `HeapLoopsProofs`: `LoopsCorrect`. The invariant says for each loop what it has
  established of the indices it has passed: for the search, that no run that
  fits starts before the current one, and that `bc` counts the free blocks since
  `bs`. `bc == total_blocks` never holds for 0 blocks, so that case ends at the
  end of the table and returns the tail.
* `CircularQueueProofs`: the queue implements the deque, and its indices stay in
  range, when the size divides the machine word (`QueueAssumption`), which
  1024 and 2^32 do.
* `KernelProofs`: while calls of `system()` are not nested (`Shallow`: only the shell
  calls it, or there are two slots), `TypeOK`, `ContextMatches`, `SavedIntact`,
  `NoTaskNoProcess`, `AtMostTwo` and the refinement of `Calls`. While the shell also
  does not end (`Lasting`), `ListIntact` and `ShellHasKeyboard`; and when further no
  page directory is refused, `AlwaysNextTask`. Otherwise programs may end, fault and
  be refused anything, the shell included, and the behaviour may run wild.
  The inductive invariant `KInv` says that the machine is in one of three situations:
  the shell alone (`Alone`), the shell waiting for one more process (`Waits`), or no
  process left (`Ended`). It is inductive only because a second shell is given
  no keys and so never reads a line: that is what keeps the list at two, and at two
  the double `next()` of `exit` is harmless. A refused directory frees a task that was
  never listed, which may empty the list, and its error is taken for success: the
  behaviour runs wild, where `KInv` keeps only the types, and where there
  may be no next task. `Shallow` and `Lasting` are
  hypotheses of the theorems and no ASSUME of the module, since other runs are about other
  programs. The programs that ship satisfy both.
* `FilesProofs`, first of single reads: `DiskReadExact` says for every sector size which
  reads `disk::read` delivers exactly, and `FileReadExact` the same of `fat16::read` in the
  first cluster of a file, from the number of the cluster down to the sectors.
  The argument: a block in the first cluster is one chunk (`OneChunk`), no entry
  of the table is looked at (`FirstClusterForOffset`), the cluster lies on the
  disk (`ClusterOnDisk`), and a position in it is as far into a sector as its
  address is (`SameInSector`). Then of the calls, in any order: `TypeOK`,
  `ReadsExactlySectorwise` and the refinement of `OpenFiles`.
  The inductive invariant says that no entry is marked taken (`OneEntry`), so that
  every descriptor is 1, and that an object that was not freed has a file (`LiveHold`). From
  them every program reaches the object of entry 0 or none (`ReachedOne`), which is what
  makes the file that is open one (`CurrentIs`).
* `UserMemoryProofs`: `OneOwner`, `WritesOwn`, `MemoryInPlace`, `OnlyFreersFault` and
  the types, for every heap, number of processes and set of programs within
  `UserMemoryAssumption`: the headers of a program begin at a page in memory as in
  the file, and no two share a page (the linker scripts align every section), all
  of them lie between the stack and the heap, and the shell finds the memory it
  needs (`ShellAssumption`). None of the properties is inductive. `IInv` adds to
  `OneOwner` that the regions do not overlap (`Sound`), that the region behind each
  pointer is as long as its owner believes (`Known`), and what is in each directory
  (`InDirectory`): below the heap what `map_memory` put there, but for the first
  pages, which `free(0)` may unmap; in the heap the allocations, and nothing else
  that may be written. A request is given what nobody has (`GrantIsSound`), so a new
  mapping overwrites no other; a process gives back only what nobody else has, so
  the others keep theirs.
* `CommandLineProofs`, for every volume whose live short names differ in a directory
  (`VolumeAssumption`), every alphabet and letter case (`TextAssumption`) and every
  size of `argv` (`CommandAssumption`): `TypeOK`, `FindsExactly`, `OpensWhatIsNamed`,
  `HoldsWhatItUses`, `ArgvIsCommand` and `RunsWhatIsNamed`. Of the operators it is
  shown that a name ends where it is taken to end (`ShortName`, `FullName`), that
  the parts of a path are cut at its slashes, and which words a line has.
  `Words` is a recursive function: `Solution` is
  a form of it without recursion, it solves the equation (`SolutionSolves`), and
  nothing else does (`OneSolution`), since the last place where two solutions differ
  would lead to one nearer the end of the line. The inductive invariant `CmdInv` has three parts for the
  command line and `DirInv` for the searches. `OpensWhatIsNamed` needs what the walk
  in progress is (`WalkOK`: each entry lies in the directory of the one before it and
  answers to its part of the path) and that the parts still to search are those the
  path has left (`PartsOK`). `HoldsWhatItUses` needs the count of each directory as the sum
  of its open files and of the search (`HeldOK`). `RunsWhatIsNamed` follows from both and
  from `LoadOK`, that the path opened is still the first word when a load is tried for the
  second time; `ArgvIsCommand` from `ArgvOK`, which only a call of `system()` disturbs.
* `ConsoleProofs`, for a screen, a line, a queue and a keyboard of any size, if the line
  fits on the screen with a row to spare (`ConsoleAssumption`; the shell has a line of 1024 on
  25 rows of 80): `TypeOK`, `BootIsSafe`, `EchoIsLine` and the refinements of `Tape` and
  `Typing`; and of the terminal by itself `ScreenInvariant` and `ScreenIsTape`. The
  invariant `Inv` has a part for each. The two numbers of the cursor are treated as one,
  `Width * y + x`: a character adds one to it (`Put`), a new line takes it to the next
  multiple of `Width`, a backspace takes one away, and a scroll takes `Width` away
  where it has come to the last cell. The cells beyond it are blank (`ScreenInv`), which
  the new line needs, as it fills its row by moving the cursor over blanks.
  `EchoInv` says that the tape ends with the prompt and the line, also between the read
  of a key and its echo, and that no scroll reaches them is what the row to spare is for;
  `ShellInv` keeps the end of a string out of the line, so that what is cleared of it does
  not matter to what `system()` is given. `KeysInv` says that the states of the keys are those
  of the codes that were sent: without it a click could be lost, or given twice.

Every invariant and refinement that a passing run checks is stated by a theorem. Left
to TLC are the liveness properties (`LoopsEnd`, `CommandReturns`, `BufferDrains`,
`TypedLineRuns`), which are out of the prover's reach, and what becomes of nested calls of
`system()` (`kernel_nested`). The type invariants of
`CircularQueue`, `Files` and `UserMemory` are proved and in no run.

## Not modelled

The headers of ELF files beyond what they map; directories of more than a cluster;
the formats of `printf` and the digits of numbers;
what a read returns beyond the first cluster is computed but nothing is promised
of it; a load that runs out of memory halfway, as far as the memory it loses
goes; the frame of an interrupt; the boot loader, the GDT and the build. `PROJECT.json` has the reasons, and under `hazards` what is known
to be at risk in them.

## Plan

1. In `UserMemory`: the memory lost by a load that runs out of it, and the calls on
   files.
2. The headers of ELF files, in `elf32::load` and `process`.
3. Nested calls of `system()`: a list that `remove` keeps intact, and what `exit` would
   have to do for `KInv` to hold of any depth.
