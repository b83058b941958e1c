--------------------------- MODULE MCCommandLine ---------------------------
(* Names of two letters and extensions of one.  The root directory has a    *)
(* deleted entry, a name and an extension that fill their fields, a file    *)
(* that is read-only and, last, an entry that is one too many.  The entry   *)
(* ".." of a directory in the root directory has the cluster 0: what is     *)
(* read for it is no directory, and may hold anything.                      *)
EXTENDS CommandLine

MCChars == {" ", "0", "/", ".", "!", "^", "0:/", "a", "b", "c", "A", "B", "C"}

File(name, ext, kind) == [name |-> name, ext |-> ext, kind |-> kind, to |-> NoDir]
Dir(name, to) == [name |-> name, ext |-> << >>, kind |-> "directory", to |-> to]

MCDirs == {"root", "sub", "deep", "zero"}

MCSlots ==
    [root |-> <<Dir(<<"A">>, "sub"), Deleted,
                File(<<"B">>, <<"C">>, "archive"), File(<<"A", "B">>, << >>, "archive"),
                File(<<"A", "C">>, <<"B">>, "archive"), File(<<"B">>, <<"A">>, "readonly"),
                File(<<"C">>, << >>, "archive")>>,
     sub  |-> <<Dir(<<".">>, "sub"), Dir(<<".", ".">>, "zero"),
                File(<<"B">>, << >>, "archive"), File(<<"B", "A">>, << >>, "archive"),
                Dir(<<"B", "C">>, "deep")>>,
     deep |-> <<Dir(<<".">>, "deep"), Dir(<<".", ".">>, "sub"),
                File(<<"A">>, << >>, "archive")>>,
     zero |-> <<File(<<"B">>, << >>, "readonly")>>]

MCCapital == [a |-> "A", b |-> "B", c |-> "C"]

\* a  c  ab  b.c  ac.b  acb.b  b.a  a/b  a//b  a/  (nothing)  /a  a/./ba
\* a/../b  a/bc/../b  ab/a
MCPaths == {<<"a">>, <<"c">>, <<"a", "b">>, <<"b", ".", "c">>, <<"a", "c", ".", "b">>,
    <<"a", "c", "b", ".", "b">>, <<"b", ".", "a">>, <<"a", "/", "b">>,
    <<"a", "/", "/", "b">>, <<"a", "/">>, << >>, <<"/", "a">>,
    <<"a", "/", ".", "/", "b", "a">>, <<"a", "/", ".", ".", "/", "b">>,
    <<"a", "/", "b", "c", "/", ".", ".", "/", "b">>, <<"a", "b", "/", "a">>}

MCStale == {<<"b">>, <<"/">>}

\* After "b" in "a/b" the buffer may hold what was left of the name before it.
MCLeftovers == {<< >>, <<"A">>, <<".", "C">>}

\* c  ac.b  a/b b  " c"  ab  b (two spaces)  a  a b c b
MCLines == {<<"c">>, <<"a", "c", ".", "b">>, <<"a", "/", "b", " ", "b">>, <<" ", "c">>,
    <<"a", "b", " ", " ", "b", " ">>, <<"a">>, <<"b", ".", "c", " ", "a", " ", "b", " ", "c">>}
=============================================================================
