------------------------------ MODULE MCPaging -------------------------------
EXTENDS Paging

\* Pages 2 to 8 of 9 are the heap: two chunks of three tables and one page.
MCHeapPages == {p * PageSize : p \in 2..8}

Symmetric == Permutations(Chunks)
=============================================================================
