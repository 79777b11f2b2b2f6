----------------------------- MODULE MCOpenPath ------------------------------
EXTENDS OpenPath

\* Characters are strings of length one; names have two bytes and one of
\* extension, where FAT16 has eight and three.
MCDigits == {"0", "1"}
MCLower == [A |-> "a", B |-> "b", D |-> "d"]

Drive(d) == <<d, ":", "/">>

\* All strings of up to three characters behind "0:/", some longer ones, two
\* that do not fit, and strings that are not paths.
MCFilenames ==
    {Drive("0") \o s : s \in UNION {[1..n -> {"/", "a", "b", "."}] : n \in 0..3}}
        \cup {Drive("0") \o s : s \in {<<"d", "/", "a">>, <<"D", "/", "b">>, <<"d", "/", "a", ".", "b">>,
                                       <<"d", "/", "d", "/", "b">>, <<"d", "/", "d", "/", "a">>}}
        \cup {Drive("0") \o [j \in 1..n |-> "a"] : n \in {6, 8}}
        \cup {Drive("1") \o <<"a">>, Drive("a") \o <<"a">>, <<"0", ":", "a", "/">>, <<"0", ":">>, <<>>}

Slot(name, ext, attribute, cluster) ==
    [filename |-> name, ext |-> <<ext>>, attribute |-> attribute, cluster |-> cluster]

Blank == Slot(<<NUL, NUL>>, NUL, NUL, 0)
Gone == Slot(<<DeletedByte, "B">>, Space, NUL, 0)
File(name, ext, attribute) == Slot(name, ext, attribute, 5)
Subdir(name, cluster) == Slot(name, Space, SubdirByte, cluster)

A == <<"A", Space>>
B == <<"B", Space>>
D == <<"D", Space>>

\* The root directory has four slots, a cluster three.
MCDisks == {
    \* a, b.a and the directory d with a and the directory d
    <<File(A, Space, Space), File(B, "A", Space), Subdir(D, 2), Blank,
      File(A, Space, NUL), Subdir(D, 3), Blank,
      File(B, Space, NUL), File(A, Space, Space), Blank>>,
    \* the same name twice, as a directory and as a file, and deleted entries
    <<Subdir(A, 2), File(A, Space, Space), Gone, Blank,
      File(B, Space, NUL), Blank, Blank>>,
    <<File(A, Space, NUL), Subdir(A, 2), Gone, Blank,
      Gone, File(B, Space, NUL), Blank>>,
    \* names of full length
    <<File(<<"A", "B">>, Space, NUL), File(<<"B", "A">>, "A", Space), File(B, "A", "R"), Blank>>,
    \* a root directory without a blank slot, and a subdirectory with more
    \* entries than a cluster holds
    <<File(A, Space, NUL), File(B, Space, NUL), Gone, Subdir(D, 2),
      File(A, Space, NUL), File(B, Space, NUL), Subdir(D, 3),
      File(B, Space, NUL), Blank, Blank>>,
    <<Subdir(D, 2), Blank, Blank, Blank,
      File(A, Space, NUL), File(B, Space, NUL), Subdir(D, 3),
      File(B, Space, NUL), Blank, Blank>>}
=============================================================================
