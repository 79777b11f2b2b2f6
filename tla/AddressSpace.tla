---------------------------- MODULE AddressSpace -----------------------------
(***************************************************************************)
(* What the users of memory/paging rely on: an address space is a function *)
(* from pages to page-table words, spaces are independent of each other,   *)
(* and an operation changes the pages it is asked to change and no others. *)
(***************************************************************************)
EXTENDS Integers

CONSTANTS Chunks, PageSize, PageCount, AllFlags

VARIABLE space   \* space[c][p]: the word of page p, for every live chunk c

Pages == 0..(PageCount - 1)
Words == {p * PageSize + flags : p \in Pages, flags \in AllFlags}

Init == space = <<>>

\* A new space maps every page to itself.
New(c, flags) ==
    /\ c \notin DOMAIN space
    /\ space' = [d \in DOMAIN space \cup {c} |->
                    IF d = c THEN [p \in Pages |-> p * PageSize + flags] ELSE space[d]]

\* Pages p, p + 1, ..., p + n - 1 become consecutive frames, all with the same
\* flags; page numbers wrap around at the end of the address space.
Map(c, p, n) ==
    /\ c \in DOMAIN space /\ DOMAIN space' = DOMAIN space
    /\ \A d \in DOMAIN space \ {c} : space'[d] = space[d]
    /\ space'[c][p] \in Words
    /\ \A q \in Pages :
          LET i == (q - p) % PageCount
          IN  space'[c][q] = IF i < n THEN space'[c][p] + i * PageSize ELSE space[c][q]

Free(c) ==
    /\ c \in DOMAIN space
    /\ space' = [d \in DOMAIN space \ {c} |-> space[d]]

Next ==
    \E c \in Chunks :
        \/ \E flags \in AllFlags : New(c, flags)
        \/ \E p \in Pages, n \in 1..(PageCount - 1) : Map(c, p, n)
        \/ Free(c)

Spec == Init /\ [][Next]_space
=============================================================================
