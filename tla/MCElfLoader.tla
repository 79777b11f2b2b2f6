---------------------------- MODULE MCElfLoader -----------------------------
EXTENDS ElfLoader

Header(type, offset, vaddr, filesz, memsz, write) ==
    [type |-> type, offset |-> offset, vaddr |-> vaddr, filesz |-> filesz,
     memsz |-> memsz, write |-> write]

\* Segments that begin in the first or the second page of the program or at
\* address 0, at the start of a page or inside it, with and without bss.
Segments ==
    {Header("PT_LOAD", offset, vaddr, filesz, filesz + bss, write) :
        offset \in {0, 1, 5}, vaddr \in {0, 16, 17, 21}, filesz \in {2, 5}, bss \in {0, 3},
        write \in BOOLEAN}

\* PT_GNU_STACK, a note inside the image, and a size that wraps around.
Others ==
    {Header("PT_GNU_STACK", 0, 0, 0, 0, TRUE), Header("PT_NOTE", 1, 17, 2, 2, FALSE),
     Header("PT_LOAD", 4, 20, 2, 30, FALSE)}

MCFiles ==
    {[size |-> 10, valid |-> TRUE, headers |-> hs] :
        hs \in {<<>>} \cup {<<h>> : h \in Segments \cup Others}
                 \cup {<<h, g>> : h \in {s \in Segments : s.vaddr > 0}, g \in Segments \cup Others}}
    \cup {[size |-> n, valid |-> FALSE, headers |-> <<>>] : n \in {1, 4, 7}}
=============================================================================
