----------------------------- MODULE Directories -----------------------------
(***************************************************************************)
(* How a path leads to a file: path::parse cuts it into names, and         *)
(* get_directory_entry of fat16.cpp searches one directory for each name,  *)
(* from the root directory on.  A search is a step; the file system is     *)
(* only read.                                                              *)
(*                                                                         *)
(* A name is a sequence of characters, since it matters here where a name  *)
(* ends: a directory entry holds a name and an extension of fixed widths   *)
(* that are padded with spaces, followed by a byte of attributes, and the  *)
(* code takes whatever stands before the next space or 0.                  *)
(*                                                                         *)
(* Every directory lies in one cluster and ends with an empty entry.       *)
(***************************************************************************)
EXTENDS Integers, Sequences, FiniteSets, SequencesExt

CONSTANTS
    Chars,          \* the characters, one byte each
    Dirs, Root,
    Slots,          \* the entries of each directory, in their order
    Deleted,        \* an entry whose name begins with 0xE5
    NameWidth, ExtWidth,
    Capital,        \* the upper case of each lower-case letter
    Paths,          \* what follows the drive in the paths that are opened
    Stale,          \* what an uninitialised name may hold
    Leftovers,      \* what may follow a name in the buffer of a search
    MaxOpen         \* bound on the items that are opened and not closed

Space == " "
Nul   == "0"
Slash == "/"
Dot   == "."

NoDir == "none"

Kinds == {"archive", "readonly", "directory"}

\* What the attributes are as a character: ARCHIVE alone is a space.
AttributeByte == [archive |-> Space, readonly |-> "!", directory |-> "^"]

\* A dot stands only in the names of a directory itself and of its parent.
EntryOK(e) == /\ e.name \in Seq(Chars) \ {<< >>} /\ Len(e.name) <= NameWidth
              /\ e.ext \in Seq(Chars) /\ Len(e.ext) <= ExtWidth
              /\ e.kind \in Kinds
              /\ \A c \in ToSet(e.name) \cup ToSet(e.ext) : c \notin {Space, Nul, Slash}
              /\ Dot \in ToSet(e.name) \cup ToSet(e.ext) =>
                   e.name \in {<<Dot>>, <<Dot, Dot>>} /\ e.ext = << >>
              /\ e.kind = "directory" => e.to \in Dirs

\* A name as a directory listing shows it.
ShortName(e) == IF e.ext = << >> THEN e.name ELSE e.name \o <<Dot>> \o e.ext

\* The slots of a directory that are in use.
Live(d) == {i \in DOMAIN Slots[d] : Slots[d][i] # Deleted}

\* A string of C, without the 0 that ends it.
IsString(s) == s \in Seq(Chars) /\ Nul \notin ToSet(s)

ASSUME VolumeAssumption ==
    /\ Root \in Dirs /\ NoDir \notin Dirs
    /\ NameWidth \in Nat \ {0} /\ ExtWidth \in Nat \ {0}
    /\ Slots \in [Dirs -> Seq({Deleted} \cup UNION {ToSet(Slots[d]) : d \in Dirs})]
    /\ \A d \in Dirs : \A i \in Live(d) :
         /\ EntryOK(Slots[d][i])
         /\ \A j \in Live(d) : ShortName(Slots[d][i]) = ShortName(Slots[d][j]) => i = j
    /\ MaxOpen \in Nat

ASSUME TextAssumption ==
    /\ {Space, Nul, Slash, Dot} \cup {AttributeByte[k] : k \in Kinds} \subseteq Chars
    /\ \A p \in Paths \cup Stale \cup Leftovers : IsString(p)
    /\ \A c \in DOMAIN Capital :
         /\ Capital[c] \in Chars
         /\ {c, Capital[c]} \cap {Space, Nul, Slash, Dot} = {}

VARIABLES
    path,           \* the path that is being opened
    parts,          \* path::part_t's from the one to search for on
    dir,            \* the directory to search, or NoDir between two calls
    held,           \* how often the entries of each directory are in memory
    walk,           \* the entries the searches have found so far
    search,         \* the last search
    opened,         \* the items that were opened and not closed
    leading,        \* whether descriptor 1 leads to the last of them
    freed           \* it led to none, and was closed: nothing more is said

vars == <<path, parts, dir, held, walk, search, opened, leading, freed>>

Unset == <<Nul>>      \* the name of a part that is not written

----------------------------------------------------------------------------
(* Paths.                                                                  *)

\* The numbers of a set in their order: the n-th has n - 1 of them below it.
InOrder(S) == [n \in 1 .. Cardinality(S) |->
                 CHOOSE k \in S : Cardinality({j \in S : j < k}) = n - 1]

\* Where parse ends a part: at the first slash of a run.
Cuts(s) == {k \in 1 .. Len(s) : s[k] = Slash /\ (k = 1 \/ s[k - 1] # Slash)}

\* Mutant of Parse: each part takes the place of the one before.
ParseLeaf(s) == LET cuts == {0} \cup Cuts(s)
                IN  <<SubSeq(s, 1 + CHOOSE k \in cuts : \A n \in cuts : n <= k, Len(s))>>

\* The next part begins one character later, so that it holds the other
\* slashes of the run.  The last part is left unwritten where nothing is left.
Parse(s) ==
    LET ends  == InOrder({0} \cup Cuts(s) \cup {Len(s) + 1})
        Part(i) == SubSeq(s, ends[i] + 1, ends[i + 1] - 1)
        last  == Len(ends) - 1
    IN  [i \in 1 .. last |-> IF i = last /\ Part(i) = << >> THEN Unset ELSE Part(i)]

Upper(name) == [i \in DOMAIN name |->
                  IF name[i] \in DOMAIN Capital THEN Capital[name[i]] ELSE name[i]]

----------------------------------------------------------------------------
(* Directory entries.                                                      *)

Padded(s, width) == s \o [i \in 1 .. (width - Len(s)) |-> Space]

\* A directory_item_t up to reserved_nt, which is 0.
Bytes(e) == Padded(e.name, NameWidth) \o Padded(e.ext, ExtWidth)
              \o <<AttributeByte[e.kind], Nul>>

\* to_proper_string: it stops at a space or a 0, and not at the end of the
\* field it is given.
ProperString(s) == SubSeq(s, 1, SelectInSeq(s, LAMBDA c : c \in {Space, Nul}) - 1)

FullName(e) ==
    ProperString(Bytes(e))
      \o (IF e.ext = << >> THEN << >>
          ELSE <<Dot>> \o ProperString(SubSeq(Bytes(e), NameWidth + 1, Len(Bytes(e)))))

\* get_items_count leaves the deleted entries out; the entries that are read
\* into memory are as many, from the first slot on, deleted ones included.
ItemsCount(d) == Cardinality(Live(d))

Least(S) == CHOOSE i \in S : \A j \in S : i <= j

\* Mutants of Match: the comparison ends with the name that is sought, or with
\* the name of the entry.
MatchShorter(d, sought) ==
    LET matches == {i \in Live(d) : i <= ItemsCount(d) /\ IsPrefix(sought, FullName(Slots[d][i]))}
    IN  IF matches = {} THEN 0 ELSE Least(matches)

MatchLonger(d, sought) ==
    LET matches == {i \in Live(d) : i <= ItemsCount(d) /\ IsPrefix(FullName(Slots[d][i]), sought)}
    IN  IF matches = {} THEN 0 ELSE Least(matches)

\* The slot get_item_in_directory finds for the characters in its buffer.
Match(d, sought) ==
    LET matches == {i \in Live(d) : i <= ItemsCount(d) /\ FullName(Slots[d][i]) = sought}
    IN  IF matches = {} THEN 0 ELSE Least(matches)

----------------------------------------------------------------------------
(* Memory.                                                                 *)

Counted(d) == IF d \in Dirs \ {Root} THEN [e \in Dirs |-> IF e = d THEN 1 ELSE 0]
              ELSE [e \in Dirs |-> 0]

\* Mutants of Swapped: the directory that was searched is kept; the one that
\* was loaded is given back with it.
SwappedKeeping(new, old) == [e \in Dirs |-> held[e] + Counted(new)[e]]

SwappedLosing(new, old) == [e \in Dirs |-> held[e] - Counted(old)[e]]

\* load_directory reads the entries of a directory into memory; free gives
\* back those of the directory that was searched for it.  The root directory
\* is loaded once, by load_root_directory.
Swapped(new, old) == [e \in Dirs |-> held[e] + Counted(new)[e] - Counted(old)[e]]

----------------------------------------------------------------------------

NoSearch == [dir |-> NoDir, name |-> << >>, tail |-> << >>, slot |-> 0]

Init == /\ path = << >> /\ parts = << >> /\ dir = NoDir
        /\ held = [d \in Dirs |-> 0]
        /\ walk = << >> /\ search = NoSearch
        /\ opened = << >> /\ leading = FALSE /\ freed = FALSE

\* fopen, up to get_directory_entry.
Fopen(p) ==
    /\ dir = NoDir /\ Len(opened) < MaxOpen
    /\ path' = p /\ parts' = Parse(p) /\ dir' = Root
    /\ walk' = << >> /\ search' = NoSearch
    /\ UNCHANGED <<held, opened, leading, freed>>

\* fopen with a path that does not parse, of which the drive is read at address
\* 0 before the path is tested, with an unknown drive or another mode than "r".
FopenRefused ==
    /\ dir = NoDir
    /\ path' = << >> /\ parts' = << >> /\ walk' = << >> /\ search' = NoSearch
    /\ UNCHANGED <<dir, held, opened, leading, freed>>

\* One search, for a name and what follows it in the buffer, up to a 0.
Searched(name, tail) ==
    /\ dir # NoDir
    /\ name \in (IF Head(parts) = Unset THEN Stale ELSE {Head(parts)})
    /\ search' = [dir |-> dir, name |-> name, tail |-> tail,
                  slot |-> Match(dir, Upper(name) \o tail)]

Hit == Slots[dir][search'.slot]

\* Nothing is found, or a file with parts to go.  When it was a part in the
\* middle the type is then read through a null pointer, at address 4: half of
\* an interrupt vector of the BIOS, which is not 0 and so not a directory.
Miss(name, tail) ==
    /\ Searched(name, tail)
    /\ search'.slot # 0 => Hit.kind # "directory" /\ Len(parts) > 1
    /\ held' = Swapped(NoDir, dir)
    /\ dir' = NoDir /\ parts' = << >> /\ walk' = << >>
    /\ UNCHANGED <<path, opened, leading, freed>>

\* A directory in the middle of the path: it is searched next.
Descend(name, tail) ==
    /\ Searched(name, tail)
    /\ search'.slot # 0 /\ Hit.kind = "directory" /\ Len(parts) > 1
    /\ held' = Swapped(Hit.to, dir)
    /\ dir' = Hit.to /\ parts' = Tail(parts) /\ walk' = Append(walk, Hit)
    /\ UNCHANGED <<path, opened, leading, freed>>

\* The last part.  A directory is opened as a file is, with its entries loaded.
\* Every open file has descriptor 1 (Files): of two, only the later is reached.
Arrive(name, tail) ==
    /\ Searched(name, tail)
    /\ search'.slot # 0 /\ Len(parts) = 1
    /\ held' = Swapped(IF Hit.kind = "directory" THEN Hit.to ELSE NoDir, dir)
    /\ dir' = NoDir /\ parts' = << >> /\ walk' = Append(walk, Hit)
    /\ opened' = Append(opened, Hit) /\ leading' = TRUE
    /\ UNCHANGED <<path, freed>>

\* fclose: fat_item_t::free gives back the entries of a directory.
Fclose ==
    /\ dir = NoDir /\ leading
    /\ opened' = Front(opened) /\ leading' = FALSE
    /\ held' = LET item == Last(opened)
               IN  Swapped(NoDir, IF item.kind = "directory" THEN item.to ELSE NoDir)
    /\ UNCHANGED <<path, parts, dir, walk, search, freed>>

\* fclose of an item that was opened before that one: descriptor 1 leads to
\* memory that was freed, which is freed again.
FcloseAgain ==
    /\ dir = NoDir /\ ~leading /\ opened # << >>
    /\ freed' = TRUE
    /\ UNCHANGED <<path, parts, dir, held, walk, search, opened, leading>>

\* A turn of get_directory_entry.
Search == \E name \in Stale \cup ToSet(parts), tail \in Leftovers :
              Miss(name, tail) \/ Descend(name, tail) \/ Arrive(name, tail)

\* The calls of a program.
FileCall == \/ \E p \in Paths : Fopen(p)
            \/ FopenRefused
            \/ Fclose \/ FcloseAgain

Next == ~freed /\ (Search \/ FileCall)

Spec == Init /\ [][Next]_vars

----------------------------------------------------------------------------
(* Properties.                                                             *)

Entries == UNION {{Slots[d][i] : i \in Live(d)} : d \in Dirs}

TypeOK ==
    /\ dir \in Dirs \cup {NoDir}
    /\ dir = NoDir <=> parts = << >>
    /\ held \in [Dirs -> Nat]
    /\ walk \in Seq(Entries) /\ opened \in Seq(Entries)
    /\ Len(opened) <= MaxOpen /\ leading \in BOOLEAN /\ freed \in BOOLEAN
    /\ search.dir = NoDir \/ search.slot \in {0} \cup Live(search.dir)

\* The names of a path, cut at every slash.
Names(s) ==
    LET slashes == {k \in 1 .. Len(s) : s[k] = Slash}
        ends == InOrder({0} \cup slashes \cup {Len(s) + 1})
    IN  [i \in 1 .. (Len(ends) - 1) |-> SubSeq(s, ends[i] + 1, ends[i + 1] - 1)]

\* A path is opened only along the entries it names: as many entries as names,
\* each in the directory that the entry before leads to, each with a name that
\* begins with its part of the path.  So it is whatever the buffer of a search
\* was left with and however the slashes stand.
OpensWhatIsNamed ==
    dir = NoDir /\ walk # << >> =>
        /\ Len(walk) = Len(Names(path))
        /\ \A i \in DOMAIN walk :
             /\ IsPrefix(Upper(Names(path)[i]), FullName(walk[i]))
             /\ walk[i] \in ToSet(Slots[IF i = 1 THEN Root ELSE walk[i - 1].to])

\* The entries whose name and extension are told apart: of a name and an
\* extension that fill their fields, one runs into the next.
Plain(e) == /\ e.ext = << >> \/ Len(e.name) < NameWidth
            /\ Len(e.ext) < ExtWidth \/ e.kind = "archive"

\* With a 0 after the name in the buffer, a plain entry is found by its name
\* and by no other, unless the deleted entries of the directory leave it
\* beyond the number that is loaded.
FindsExactly ==
    search.dir # NoDir /\ search.tail = << >> =>
        \A i \in Live(search.dir) :
            LET e == Slots[search.dir][i] IN
            Plain(e) => (search.slot = i <=> /\ ShortName(e) = Upper(search.name)
                                             /\ i <= ItemsCount(search.dir))

\* Directory entries in memory are those of the directory that is searched and
\* of the directories that were opened and not closed: every one a walk loads on
\* its way is given back, on every way out, and none while it is used.
Uses(d) == Cardinality({k \in DOMAIN opened : opened[k].kind = "directory"
                                                /\ opened[k].to = d})

HoldsWhatItUses ==
    \A d \in Dirs \ {Root} : held[d] = Uses(d) + (IF dir = d THEN 1 ELSE 0)
=============================================================================
