------------------------------- MODULE Files -------------------------------
(***************************************************************************)
(* The file calls of vfs/file.cpp, the descriptor table they share, and    *)
(* what fat16.cpp keeps of an open file.  A call is one step: it runs with *)
(* interrupts off.                                                         *)
(*                                                                         *)
(* A program uses the descriptor that fopen gave it until it closes it or  *)
(* ends; one that opens a second file before counts as two.  The others    *)
(* open, close, seek and load as they like meanwhile.  Every descriptor is *)
(* the same number, so a program may come to use an object that another    *)
(* has freed: nothing is said of the system after that (see Dangling).     *)
(***************************************************************************)
EXTENDS Fat16

CONSTANTS
    Programs,
    MaxDescriptors, \* MAX_FILE_DESCRIPTORS
    Objects, Null,  \* the addresses of fat16::file_descriptor_t's
    Names, Finds,   \* the files that a search for a name may return
    Requests,       \* the sizes and counts given to fread
    Offsets,        \* the offsets given to fseek
    MaxPosition     \* bound on the positions that are explored

ASSUME FilesAssumption ==
    /\ MaxDescriptors \in Nat \ {0, 1}
    /\ MaxPosition \in Nat
    /\ Null \notin Objects /\ Null \notin [file : Files, pos : Nat]
    /\ Finds \in [Names -> SUBSET Files]
    /\ Requests \subseteq Nat \X Nat /\ Offsets \subseteq Nat

VARIABLES
    isTaken,        \* file::is_taken
    table,          \* file::file_descriptors
    live,           \* the objects that are allocated
    item, pos,      \* file_descriptor_t::item and ::pos of each object
    fd,             \* the descriptor each program holds, 0 for none
    reply,          \* the last call and its answer
    hung            \* the driver waits for a sector that does not exist

vars == <<isTaken, table, live, item, pos, fd, reply, hung>>

Indices == 0 .. (MaxDescriptors - 1)
Nobody  == -1       \* the null pointer of file::descriptor

Answer(call, file, at, size, count, status, bytes) ==
    [call |-> call, file |-> file, at |-> at, size |-> size, count |-> count,
     status |-> status, bytes |-> bytes]

\* An answer without bytes.
Done(call, file, size) == Answer(call, file, 0, size, 0, 0, [j \in {} |-> 0])

Refused(status) == Answer("refused", Null, 0, 0, 0, status, [j \in {} |-> 0])

Init == /\ isTaken = [i \in Indices |-> FALSE]
        /\ table = [i \in Indices |-> [index |-> 0, data |-> Null]]
        /\ live = {}
        /\ item = [o \in Objects |-> Null]
        /\ pos = [o \in Objects |-> 0]
        /\ fd = [p \in Programs |-> 0]
        /\ reply = Done("none", Null, 0)
        /\ hung = FALSE

\* file::descriptor: an entry that is marked taken is refused.
Descriptor(d) ==
    IF d \in 1 .. (MaxDescriptors - 1) /\ ~isTaken[d - 1] THEN d - 1 ELSE Nobody

Free == {i \in Indices : ~isTaken[i]}

\* The object that the descriptor of a program leads to, freed or not.
Reached(p) == {o \in Objects : /\ fd[p] # 0 /\ Descriptor(fd[p]) # Nobody
                              /\ o = table[Descriptor(fd[p])].data}

\* Mutant of Entered: the position of the last file of the object is kept.
EnteredAnywhere(i, o, f) ==
    /\ isTaken' = [isTaken EXCEPT ![i] = FALSE]
    /\ table' = [table EXCEPT ![i] = [index |-> i + 1, data |-> o]]
    /\ item' = [item EXCEPT ![o] = f]
    /\ UNCHANGED pos

\* file::create_descriptor and fat16::open: entry i of the table leads to the
\* object o, at the start of the file f.  The entry is marked free, and so is
\* found free by the next fopen: the table is never found full, and every open
\* file is reached by the entry of the last.
Entered(i, o, f) ==
    /\ isTaken' = [isTaken EXCEPT ![i] = FALSE]
    /\ table' = [table EXCEPT ![i] = [index |-> i + 1, data |-> o]]
    /\ item' = [item EXCEPT ![o] = f]
    /\ pos' = [pos EXCEPT ![o] = 0]

FirstFree == CHOOSE i \in Free : \A j \in Free : i <= j

Fopen(p, n) ==
    /\ fd[p] = 0 /\ Free # {}
    /\ \E f \in Finds[n] : \E o \in Objects \ live :
         /\ Entered(FirstFree, o, f)
         /\ live' = live \cup {o}
         /\ reply' = Done("open", f, 0)
    /\ fd' = [fd EXCEPT ![p] = FirstFree + 1]
    /\ UNCHANGED hung

\* No file is found (see Finds), or the path, the drive or the mode is refused.
\* What was allocated by then is out of reach.
FopenFails(p) ==
    /\ fd[p] = 0
    /\ reply' = Refused(0)
    /\ UNCHANGED <<isTaken, table, live, item, pos, fd, hung>>

\* A number that is no descriptor: 0, the answer of an fopen that failed, and
\* the last descriptor of the table, which file::descriptor refuses too.
BadDescriptor ==
    /\ \E d \in {0, MaxDescriptors} : Descriptor(d) = Nobody
    /\ \E status \in {EIO, EINVARG} : reply' = Refused(status)
    /\ UNCHANGED <<isTaken, table, live, item, pos, fd, hung>>

\* The calls of p on its open file, with the object o that it reaches.  The
\* position is not moved by a read.
Fread(p, o, size, count) ==
    /\ o \in Reached(p) \cap live
    /\ \/ /\ size = 0 \/ count = 0
          /\ reply' = Refused(EINVARG)
          /\ UNCHANGED hung
       \/ /\ size > 0 /\ count > 0
          /\ LET got == FileRead(FirstCluster(item[o]), pos[o], size, count) IN
             /\ reply' = Answer("read", item[o], pos[o], size, count,
                                got.status, got.bytes)
             /\ hung' = (got.status = Hangs)
    /\ UNCHANGED <<isTaken, table, live, item, pos, fd>>

\* fat16::seek compares the offset with the size before it adds the position.
Sought(o, offset, whence) ==
    IF offset >= FileSize[item[o]] THEN EIO
    ELSE IF whence = "SEEK_END" THEN EUNIMP
    ELSE IF whence = "SEEK_SET" THEN offset ELSE pos[o] + offset

Fseek(p, o, offset, whence) ==
    /\ o \in Reached(p) \cap live
    /\ LET to == Sought(o, offset, whence) IN
       \/ /\ to < 0
          /\ reply' = Refused(to)
          /\ UNCHANGED pos
       \/ /\ to \in 0 .. MaxPosition
          /\ reply' = Done("seek", item[o], 0)
          /\ pos' = [pos EXCEPT ![o] = to]
    /\ UNCHANGED <<isTaken, table, live, item, fd, hung>>

Fstat(p, o) ==
    /\ o \in Reached(p) \cap live
    /\ reply' = Done("stat", item[o], FileSize[item[o]])
    /\ UNCHANGED <<isTaken, table, live, item, pos, fd, hung>>

Fclose(p, o) ==
    /\ o \in Reached(p) \cap live
    /\ live' = live \ {o}
    /\ isTaken' = [isTaken EXCEPT ![table[Descriptor(fd[p])].index - 1] = FALSE]
    /\ fd' = [fd EXCEPT ![p] = 0]
    /\ reply' = Done("close", item[o], 0)
    /\ UNCHANGED <<table, item, pos, hung>>

\* fread, fseek, fstat or fclose by a descriptor whose object another program,
\* or a load, has freed: its memory may be another's by now, and fclose gives it
\* back a second time.
Dangling(p) ==
    /\ fd[p] # 0 /\ Reached(p) \cap live = {}
    /\ reply' = Done("wild", Null, 0)
    /\ UNCHANGED <<isTaken, table, live, item, pos, fd, hung>>

\* The program ends: terminate closes no file.
Ends(p) ==
    /\ fd[p] # 0
    /\ fd' = [fd EXCEPT ![p] = 0]
    /\ reply' = Done("exit", Null, 0)
    /\ UNCHANGED <<isTaken, table, live, item, pos, hung>>

\* elf32::load, and load_binary when that fails: the file is opened, read whole
\* as one block and closed, within one system call.  It is refused when it is
\* empty, and when there is no memory for it; it is closed all the same.
Load(n) ==
    /\ Free # {}
    /\ \E f \in Finds[n] : \E o \in Objects \ live :
         /\ Entered(FirstFree, o, f)
         /\ \/ /\ reply' = Done("unloaded", f, 0)
               /\ UNCHANGED hung
            \/ /\ FileSize[f] > 0
               /\ LET got == FileRead(FirstCluster(f), 0, FileSize[f], 1) IN
                  /\ reply' = Answer("load", f, 0, FileSize[f], 1,
                                     got.status, got.bytes)
                  /\ hung' = (got.status = Hangs)
    /\ UNCHANGED <<live, fd>>

Call(p) ==
    \/ \E n \in Names : Fopen(p, n)
    \/ FopenFails(p)
    \/ Dangling(p)
    \/ Ends(p)
    \/ \E o \in Objects, r \in Requests : Fread(p, o, r[1], r[2])
    \/ \E o \in Objects, offset \in Offsets,
          whence \in {"SEEK_SET", "SEEK_CUR", "SEEK_END"} : Fseek(p, o, offset, whence)
    \/ \E o \in Objects : Fstat(p, o) \/ Fclose(p, o)

Next == /\ ~hung /\ reply.call # "wild"
        /\ \/ \E p \in Programs : Call(p)
           \/ BadDescriptor
           \/ \E n \in Names : Load(n)

Spec == Init /\ [][Next]_vars

----------------------------------------------------------------------------

TypeOK ==
    /\ isTaken \in [Indices -> BOOLEAN]
    /\ table \in [Indices -> [index : 0 .. MaxDescriptors, data : Objects \cup {Null}]]
    /\ \A i \in Indices :
         IF table[i].data = Null THEN table[i].index = 0 ELSE table[i].index = i + 1
    /\ live \subseteq Objects
    /\ item \in [Objects -> Files \cup {Null}]
    /\ pos \in [Objects -> 0 .. MaxPosition]
    /\ fd \in [Programs -> 0 .. MaxDescriptors]
    /\ hung \in BOOLEAN

\* A read of bytes in the first cluster of a file is answered with the count,
\* and the bytes are those of the file if, and only if, each block begins at a
\* sector or stays in one: disk::read takes the bytes after a boundary from
\* the sector before it when it began inside that sector.
ReadsExactlySectorwise ==
    reply.call = "read"
      /\ InFirstCluster(reply.file, reply.at, reply.size, reply.count) =>
        /\ reply.status = reply.count
        /\ reply.bytes = FileBytes(reply.file, reply.at, reply.size * reply.count)
             <=> EachSectorwise(reply.at, reply.size, reply.count)

\* One file is open in the system, the last that was opened, with one position
\* for all programs that hold a descriptor; reads that are served return its
\* bytes there, a program that fits a cluster is loaded whole, and no freed
\* object is used but by a program whose file another has closed, or a load has
\* replaced: through the table, the objects, the clusters and the sectors.
Current == LET o == table[0].data
           IN  IF o \in live THEN [file |-> item[o], pos |-> pos[o]] ELSE Null

Holders == {p \in Programs : fd[p] # 0}

OpenFileTable == INSTANCE OpenFiles
    WITH current <- Current, holders <- Holders, NoFile <- Null

FilesRefinement == OpenFileTable!OSpec

\* get_cluster_for_offset takes an entry of 0 for a table that is damaged
\* (fat16.cpp:575).  With the table that TableAssumption states, no read of the
\* clusters of a file is answered so.
NoDamageReported ==
    reply.call = "read" /\ reply.status = EIO =>
        reply.at + reply.size * reply.count > Len(Chain[reply.file]) * ClusterSize
=============================================================================
