-------------------------------- MODULE Paging --------------------------------
(***************************************************************************)
(* Two-level page tables (memory/paging/paging.c), with the operation of   *)
(* task/task.c that edits a task's tables while it runs in them            *)
(* (copy_string_from_task).                                                *)
(*                                                                         *)
(* A chunk is a page directory of Entries words, each the address of a     *)
(* table of Entries words with flags in the low bits.  The tables are heap *)
(* pages.  An address is a number below Space, the 2^32 of the machine,    *)
(* and arithmetic on pointers wraps around there.  Where the code joins an *)
(* aligned address and flags with |, the bits are disjoint and + is used.  *)
(* kzalloc does not fail inside paging_new_4gb, which would not notice.    *)
(***************************************************************************)
EXTENDS Integers, Sequences, FiniteSets, TLC, FiniteSetsExt

CONSTANTS
    Chunks,      \* struct paging_4gb_chunks
    Kernel,      \* the kernel's chunk, which maps every page to itself
    PageSize,    \* PAGING_PAGE_SIZE (4096)
    Entries,     \* PAGING_TOTAL_ENTRIES_PER_TABLE (1024)
    HeapPages,   \* the page addresses that kzalloc can return
    NewFlags,    \* the flags of paging_new_4gb's callers
    Flags,       \* the flags of paging_map_to's callers
    Virts, Physs,\* the addresses of the callers
    MaxMaps      \* bound on the calls of paging_map_to

VARIABLES
    directory,   \* directory[c][i]: word i of the directory of live chunk c
    tables,      \* tables[a][i]: word i of the table at address a
    cr3,         \* the chunk whose directory is loaded
    copying,     \* the call of copy_string_from_task in progress
    tmp,         \* the pages of the heap that it holds
    maps         \* calls of paging_map_to

vars == <<directory, tables, cr3, copying, tmp, maps>>

PAGING_IS_PRESENT == 1
PAGING_IS_WRITABLE == 2
PAGING_ACCESS_FROM_ALL == 4

Space == Entries * Entries * PageSize
Pages == 0..(Entries * Entries - 1)
Indices == 0..(Entries - 1)
AllFlags == NewFlags \cup Flags \cup {PAGING_IS_PRESENT + PAGING_IS_WRITABLE + PAGING_ACCESS_FROM_ALL}

ASSUME PagingAssumption ==
    /\ Entries \in Nat \ {0}
    /\ PageSize \in Nat /\ PageSize >= 8
    /\ NewFlags \cup Flags \subseteq 0..7
    /\ HeapPages \subseteq {p * PageSize : p \in Pages \ {0}}
    /\ Virts \subseteq 0..(Space - 1) /\ Physs \subseteq 0..(Space - 1)
    /\ Kernel \notin Chunks /\ MaxMaps \in Nat

HasFlag(word, flag) == (word \div flag) % 2 = 1

\* The bits of word outside its flags, word & 0xfffff000.
Frame(word) == word - (word % PageSize)

paging_is_aligned(v) == v % PageSize = 0

paging_align_address(v) ==
    IF paging_is_aligned(v) THEN v ELSE (v + PageSize - (v % PageSize)) % Space

paging_align_to_lower_page(v) == v - (v % PageSize)

\* Mutant: the index in the table is not reduced to the table.
IndexInDirectory(v) ==
    [dir |-> v \div (Entries * PageSize), table |-> (v \div PageSize) % (Entries - 1)]

paging_get_index(v) ==
    [dir |-> v \div (Entries * PageSize),
     table |-> (v % (Entries * PageSize)) \div PageSize]

TableOf(c, v) == Frame(directory[c][paging_get_index(v).dir])

paging_get(c, v) == tables[TableOf(c, v)][paging_get_index(v).table]

paging_set(tabs, c, v, word) ==
    IF paging_is_aligned(v)
    THEN [tabs EXCEPT ![TableOf(c, v)][paging_get_index(v).table] = word]
    ELSE tabs

paging_get_physical_address(c, v) ==
    LET page == paging_align_to_lower_page(v)
    IN  Frame(paging_get(c, page)) + (v - page)

\* The whole address space of chunk c.
Translation(c) == [p \in Pages |-> paging_get(c, p * PageSize)]

-----------------------------------------------------------------------------
Idle == [stage |-> "idle"]

Init ==
    /\ directory = <<>> /\ tables = <<>>
    /\ cr3 = Kernel
    /\ copying = Idle /\ tmp = {}
    /\ maps = 0

FreePages == HeapPages \ (DOMAIN tables \cup tmp)

\* The lowest free pages of the heap, in order, one for each table.
LowestPages ==
    CHOOSE s \in [Indices -> FreePages] :
        /\ \A i, j \in Indices : i < j => s[i] < s[j]
        /\ \A a \in FreePages : a < s[Entries - 1] => \E i \in Indices : s[i] = a

\* Mutant: the offset is advanced before it is used.
OffsetEarly(flags) ==
    [i \in Indices |-> [pi \in Indices |-> ((i + 1) * Entries + pi) * PageSize + flags]]

IdentityTables(flags) ==
    [i \in Indices |-> [pi \in Indices |-> (i * Entries + pi) * PageSize + flags]]

paging_new_4gb(c, flags) ==
    /\ copying = Idle
    /\ c \notin DOMAIN directory
    /\ Cardinality(FreePages) >= Entries
    /\ LET a == LowestPages
           writable == IF HasFlag(flags, PAGING_IS_WRITABLE) THEN 0 ELSE PAGING_IS_WRITABLE
           new == {a[i] : i \in Indices}
       IN  /\ directory' = [d \in DOMAIN directory \cup {c} |->
                   IF d = c THEN [i \in Indices |-> a[i] + flags + writable] ELSE directory[d]]
           /\ tables' = [t \in DOMAIN tables \cup new |->
                   IF t \in new THEN IdentityTables(flags)[CHOOSE i \in Indices : a[i] = t] ELSE tables[t]]
    /\ UNCHANGED <<cr3, copying, tmp, maps>>

\* Mutant: the last table of the directory is not freed (i < 1023).
FreeOneLess(c) == {Frame(directory[c][i]) : i \in Indices \ {Entries - 1}}

FreedTables(c) == {Frame(directory[c][i]) : i \in Indices}

paging_free_4gb(c) ==
    /\ copying = Idle
    /\ c \in DOMAIN directory
    /\ tables' = [a \in DOMAIN tables \ FreedTables(c) |-> tables[a]]
    /\ directory' = [d \in DOMAIN directory \ {c} |-> directory[d]]
    /\ UNCHANGED <<cr3, copying, tmp, maps>>

\* Mutant: one page more than the range has.
MapRangeOneMore(c, virt, phys, count, flags) ==
    LET m[i \in 0..(count + 1)] ==
            IF i = 0 THEN tables
            ELSE paging_set(m[i - 1], c, (virt + (i - 1) * PageSize) % Space,
                            ((phys + (i - 1) * PageSize) % Space) + flags)
    IN  m[count + 1]

\* The loop of paging_map_range over paging_map.
paging_map_range(c, virt, phys, count, flags) ==
    LET m[i \in 0..count] ==
            IF i = 0 THEN tables
            ELSE paging_set(m[i - 1], c, (virt + (i - 1) * PageSize) % Space,
                            ((phys + (i - 1) * PageSize) % Space) + flags)
    IN  m[count]

\* An address that is not aligned, or an end below the start, is refused
\* before anything is mapped.
paging_map_to(c, virt, phys, phys_end, flags) ==
    /\ copying = Idle
    /\ c \in DOMAIN directory /\ maps < MaxMaps
    /\ maps' = maps + 1
    /\ tables' =
          IF /\ \A v \in {virt, phys, phys_end} : paging_is_aligned(v)
             /\ phys_end >= phys
          THEN paging_map_range(c, virt, phys, (phys_end - phys) \div PageSize, flags)
          ELSE tables
    /\ UNCHANGED <<directory, cr3, copying, tmp>>

-----------------------------------------------------------------------------
(***************************************************************************)
(* copy_string_from_task: a page of the kernel heap is mapped to itself,   *)
(* writable, in the task's tables; the string is copied to it with these   *)
(* tables loaded; the kernel's are loaded again and the old word is put    *)
(* back.  source is the address that the task means by v, before and at    *)
(* the time of the copy.                                                   *)
(***************************************************************************)
\* Mutant: the page is mapped where the string is.
CopyBeginAtString(c, v) ==
    /\ copying = Idle
    /\ c \in DOMAIN directory
    /\ FreePages # {}
    /\ LET page == Min(FreePages)
       IN  /\ tmp' = {page}
           /\ tables' = paging_set(tables, c, paging_align_to_lower_page(v),
                                     page + PAGING_IS_WRITABLE + PAGING_IS_PRESENT
                                          + PAGING_ACCESS_FROM_ALL)
           /\ copying' = [stage |-> "mapped", c |-> c, v |-> v, page |-> page,
                          old_entry |-> paging_get(c, page),
                          meant |-> paging_get_physical_address(c, v),
                          source |-> 0, before |-> Translation(c)]
    /\ cr3' = c
    /\ UNCHANGED <<directory, maps>>

CopyBegin(c, v) ==
    /\ copying = Idle
    /\ c \in DOMAIN directory
    /\ FreePages # {}
    /\ LET page == Min(FreePages)
       IN  /\ tmp' = {page}
           /\ tables' = paging_set(tables, c, page, page + PAGING_IS_WRITABLE
                                     + PAGING_IS_PRESENT + PAGING_ACCESS_FROM_ALL)
           /\ copying' = [stage |-> "mapped", c |-> c, v |-> v, page |-> page,
                          old_entry |-> paging_get(c, page),
                          meant |-> paging_get_physical_address(c, v),
                          source |-> 0, before |-> Translation(c)]
    /\ cr3' = c
    /\ UNCHANGED <<directory, maps>>

\* Mutant: kernel_page is not called.
CopyStringStays ==
    /\ copying.stage = "mapped"
    /\ copying' = [copying EXCEPT !.stage = "copied",
                                  !.source = paging_get_physical_address(cr3, copying.v)]
    /\ UNCHANGED <<directory, tables, cr3, tmp, maps>>

\* strncpy, then kernel_page.
CopyString ==
    /\ copying.stage = "mapped"
    /\ copying' = [copying EXCEPT !.stage = "copied",
                                  !.source = paging_get_physical_address(cr3, copying.v)]
    /\ cr3' = Kernel
    /\ UNCHANGED <<directory, tables, tmp, maps>>

\* Mutant: the entry is not put back.
CopyEndKeepsPage ==
    /\ copying.stage = "copied"
    /\ tmp' = {} /\ copying' = Idle
    /\ UNCHANGED <<directory, tables, cr3, maps>>

CopyEnd ==
    /\ copying.stage = "copied"
    /\ tables' = paging_set(tables, copying.c, copying.page, copying.old_entry)
    /\ tmp' = {} /\ copying' = Idle
    /\ UNCHANGED <<directory, cr3, maps>>

\* The ends of the ranges that callers map, rounded up or not.
Ends == Physs \cup {paging_align_address(a) : a \in Physs}

Next ==
    \/ \E c \in Chunks :
          \/ \E flags \in NewFlags : paging_new_4gb(c, flags)
          \/ paging_free_4gb(c)
          \/ \E virt \in Virts, phys \in Physs, phys_end \in Ends, flags \in Flags :
                paging_map_to(c, virt, phys, phys_end, flags)
          \/ \E v \in Virts : CopyBegin(c, v)
    \/ CopyString
    \/ CopyEnd

Spec == Init /\ [][Next]_vars

-----------------------------------------------------------------------------
\* The type invariant: a word is an address below Space with flags.
TypeOK ==
    /\ DOMAIN directory \subseteq Chunks /\ DOMAIN tables \subseteq HeapPages
    /\ \A c \in DOMAIN directory : directory[c] \in [Indices -> 0..(Space - 1)]
    /\ \A a \in DOMAIN tables : tables[a] \in [Indices -> 0..(Space - 1)]
    /\ cr3 \in Chunks \cup {Kernel}
    /\ copying.stage \in {"idle", "mapped", "copied"}
    /\ tmp \subseteq HeapPages
    /\ maps \in 0..MaxMaps

\* The tables that are allocated are those of the live chunks, no two entries
\* of any directories share one, and the page of copy_string_from_task is not
\* one of them: paging_free_4gb gives back every table and no other page.
TablesExact ==
    /\ DOMAIN tables = {Frame(directory[c][i]) : c \in DOMAIN directory, i \in Indices}
    /\ \A c, d \in DOMAIN directory : \A i, j \in Indices :
          <<c, i>> # <<d, j>> => Frame(directory[c][i]) # Frame(directory[d][j])
    /\ tmp \cap DOMAIN tables = {}

A == INSTANCE AddressSpace
    WITH PageCount <- Entries * Entries,
         space <- [c \in DOMAIN directory |-> Translation(c)]

\* The two-level tables implement address spaces: the words of all the pages
\* other than those asked for, and of all other chunks, stay as they are.
ImplementsAddressSpace == A!Spec

\* paging_map_to maps exactly the pages of the range, to the frames from phys
\* up to phys_end, and nothing when it refuses; a range that reaches the end of
\* the address space goes on at page 0.
MapExact ==
    maps' # maps =>
      \A c \in DOMAIN directory, virt \in Virts, phys \in Physs, phys_end \in Ends, flags \in Flags :
        paging_map_to(c, virt, phys, phys_end, flags) =>
          \A p \in Pages :
            LET at == (p * PageSize - virt) % Space
            IN  paging_get(c, p * PageSize)' =
                  IF virt % PageSize = 0 /\ phys % PageSize = 0 /\ phys_end % PageSize = 0
                        /\ phys + at < phys_end
                  THEN phys + at + flags
                  ELSE paging_get(c, p * PageSize)

\* copy_string_from_task leaves the address space as it found it.
CopyRestores ==
    \A c \in Chunks :
        copying.stage = "copied" /\ copying.c = c /\ copying' = Idle
            => Translation(c)' = copying.before

\* The task's directory is loaded during the copy and at no other time.
KernelOutsideCopy ==
    cr3 = IF copying.stage = "mapped" THEN copying.c ELSE Kernel

\* The copy reads what the task means by the address, unless the task maps
\* something else at the address of the kernel's page: mapping that page for
\* the copy hides nothing else of the task's.
CopyExact ==
    copying.stage = "copied" =>
        \/ copying.source = copying.meant
        \/ /\ paging_align_to_lower_page(copying.v) = copying.page
           /\ Frame(copying.old_entry) # copying.page

(***************************************************************************)
(* copy_string_from_task runs in the task's tables only while it copies,   *)
(* and copies what the task means.                                         *)
(***************************************************************************)
CopySafe == KernelOutsideCopy /\ CopyExact

(***************************************************************************)
(* The tables change as their callers ask: paging_map_to changes the pages *)
(* of its range only, and copy_string_from_task in the end none.           *)
(***************************************************************************)
EditsExact == [][MapExact /\ CopyRestores]_vars

\* README.md: processes cannot access each other's memory.  What a process
\* may write cannot be read from another one.
ProcessMemoryPrivate ==
    \A c, d \in DOMAIN directory : c # d =>
        \A p, q \in Pages :
            /\ HasFlag(Translation(c)[p], PAGING_IS_WRITABLE)
            /\ HasFlag(Translation(c)[p], PAGING_ACCESS_FROM_ALL)
            /\ HasFlag(Translation(d)[q], PAGING_ACCESS_FROM_ALL)
            => Frame(Translation(c)[p]) # Frame(Translation(d)[q])
=============================================================================
