------------------------------- MODULE MCFiles -------------------------------
EXTENDS Files

CONSTANTS root, dir, f1, f2, gone

Entry(name, node) == [name |-> name, node |-> node]

\* /a (a file), /d (a directory) and /d/b (a file) before a deleted entry.
MCDirectory ==
    (root :> <<Entry("a", f1), Entry("d", dir)>>) @@ (dir :> <<Entry("b", f2), Entry(gone, f1)>>)

MCFilesize == (f1 :> 1) @@ (f2 :> 3)

\* The root, a directory, a file in it, a path through a file and one with a
\* missing first part.
MCPaths == {<<>>, <<"d">>, <<"d", "b">>, <<"a", "b">>, <<"c">>}

MCOffsets == {-1, 2}

\* Nothing is known of a heap that a wild pointer was freed in or searched.
HeapSound == Elsewhere \notin stray
=============================================================================
