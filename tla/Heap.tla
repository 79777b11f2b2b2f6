-------------------------------- MODULE Heap --------------------------------
(***************************************************************************)
(* The kernel heap: kmalloc, kzalloc and kfree (memory/heap/kheap.c) over  *)
(* heap_malloc and heap_free (memory/heap/heap.c), called by owners that   *)
(* hold at most one allocation each and free it at most once.  An owner    *)
(* stands for one pointer variable of the kernel.                          *)
(*                                                                         *)
(* Calls are atomic: kernel code is entered once from kernel_start, and    *)
(* the only handler that does more than acknowledge an interrupt, int21h,  *)
(* does not use the heap.                                                  *)
(***************************************************************************)
EXTENDS HeapTable

CONSTANTS
    Owners,     \* the pointers the kernel's callers keep
    Sizes,      \* the request sizes in bytes, values of size_t
    LowBytes    \* what memory below the table may hold at boot

ASSUME CallersAssumption ==
    /\ Sizes \subseteq 0..(WordLimit - 1)
    /\ LowBytes \subseteq Byte

VARIABLES
    entries,    \* the table's bytes, and the cells below it (negative index)
    spill,      \* indices at or past the end of the table written so far
    held,       \* held[o]: pointer owner o holds and the blocks asked for it
    last        \* the last answer of kmalloc

vars == <<entries, spill, held, last>>

Nothing == [ptr |-> NULL, len |-> 0]

Live(o) == held[o].ptr # NULL

StartBlock(o) == heap_address_to_block(held[o].ptr)

\* The blocks that the caller may use through the pointer it got.
Extent(o) ==
    IF Live(o) THEN StartBlock(o)..(StartBlock(o) + held[o].len - 1) ELSE {}

-----------------------------------------------------------------------------
(***************************************************************************)
(* kheap_init: heap_create clears the table and nothing else.  The cells   *)
(* below it hold what the BIOS and the boot sector left there; the boot    *)
(* sector ends at the table, so cell -2 is the first byte (0x55) of the    *)
(* boot signature.                                                         *)
(***************************************************************************)
\* Mutant: the table does not follow the boot sector.
kheap_init_elsewhere ==
    /\ entries \in [Cells -> {HEAP_BLOCK_TABLE_ENTRY_FREE, 85} \cup LowBytes]
    /\ \A i \in Blocks : entries[i] = HEAP_BLOCK_TABLE_ENTRY_FREE
    /\ spill = {}
    /\ held = [o \in Owners |-> Nothing]
    /\ last = Nothing

kheap_init ==
    /\ entries \in [Cells -> {HEAP_BLOCK_TABLE_ENTRY_FREE, 85} \cup LowBytes]
    /\ \A i \in Blocks : entries[i] = HEAP_BLOCK_TABLE_ENTRY_FREE
    /\ entries[-2] = 85
    /\ spill = {}
    /\ held = [o \in Owners |-> Nothing]
    /\ last = Nothing

Init == kheap_init

(***************************************************************************)
(* heap_malloc_blocks: NULL if the scan finds nothing, otherwise the       *)
(* address of the block found, with n entries marked from there on.        *)
(***************************************************************************)
heap_malloc_blocks(o, n) ==
    \/ /\ Candidates(entries, n) = {}
       /\ last' = [ptr |-> NULL, len |-> n]
       /\ UNCHANGED <<entries, spill, held>>
    \/ \E s \in heap_get_start_block(entries, n) :
          /\ entries' = heap_mark_blocks_taken(entries, s, n)
          /\ spill' = spill \cup BeyondTable(s, n)
          /\ last' = [ptr |-> heap_block_to_address(s), len |-> n]
          /\ held' = [held EXCEPT ![o] = last']

\* kmalloc; kzalloc differs only in clearing the memory it got.
kmalloc(o, size) ==
    /\ ~Live(o)
    /\ heap_malloc_blocks(o, TotalBlocks(size))

kfree(o) ==
    /\ Live(o)
    /\ entries' = heap_mark_block_free(entries, StartBlock(o))
    /\ held' = [held EXCEPT ![o] = Nothing]
    /\ UNCHANGED <<spill, last>>

\* kfree(NULL) is not a no-op: it clears cells far below the table, as long
\* as they happen to have the HAS_NEXT bit.  process_terminate calls it for
\* every process that has an unused allocation slot.
kfree_NULL ==
    /\ entries' = heap_mark_block_free(entries, heap_address_to_block(NULL))
    /\ UNCHANGED <<spill, held, last>>

Next ==
    \/ \E o \in Owners, size \in Sizes : kmalloc(o, size)
    \/ \E o \in Owners : kfree(o)
    \/ kfree_NULL

Spec == Init /\ [][Next]_vars

-----------------------------------------------------------------------------
\* The type invariant: every entry of the table is a byte.
TypeOK ==
    /\ entries \in [Cells -> Byte]
    /\ spill \in SUBSET Nat
    /\ held \in [Owners -> [ptr : Nat, len : Nat]]
    /\ last \in [ptr : Nat, len : Nat]

(***************************************************************************)
(* The table describes exactly the live allocations: the entries under a   *)
(* live allocation are its first, middle and last bytes and every other    *)
(* entry is FREE.  So kfree never leaks a block nor frees a block of       *)
(* somebody else, whatever the order of calls, kfree(NULL) included.       *)
(***************************************************************************)
TableExact ==
    /\ \A o \in Owners : \A i \in Extent(o) \cap Blocks :
          entries[i] = EntryByte(i, StartBlock(o), held[o].len)
    /\ \A i \in Blocks :
          (\A o \in Owners : i \notin Extent(o))
              => entries[i] = HEAP_BLOCK_TABLE_ENTRY_FREE

\* No two live allocations share a block, not even those that reach past the
\* end of the pool.
NoOverlap ==
    \A o, p \in Owners : o # p => Extent(o) \cap Extent(p) = {}

\* kfree(NULL) never reaches the table: the cells it would clear end below.
NullFreeHarmless ==
    Cleared(entries, heap_address_to_block(NULL)) \cap Blocks = {}

\* Every request is for one block at least: no size is 0, and none is so
\* large that rounding it up wraps around to 0.
NonEmptyRequests == \A size \in Sizes : TotalBlocks(size) > 0

\* Under the requirement that every request is for one block at least, the
\* heap implements the allocator its callers rely on.
A == INSTANCE Allocator
    WITH Pool <- Total,
         Requests <- {TotalBlocks(size) : size \in Sizes},
         granted <- [o \in Owners |-> Extent(o)],
         answer <- [blocks |-> last.len, ok |-> last.ptr # NULL]

\* What callers rely on: disjoint grants of the size asked for, refusal only
\* when no run of free blocks is long enough, and complete release.
ImplementsAllocator == A!Spec

(***************************************************************************)
(* What the documentation says and the code does not do.                   *)
(***************************************************************************)

\* README.md: the heap hands out blocks of its pool.  heap_get_start_block
\* returns the start of a free tail that is too short.
GrantInPool == \A o \in Owners : Extent(o) \subseteq Blocks

\* README.md: each address malloc returns is good for at least one block.
\* A request of 0 bytes (or one that wraps around to 0) gets an address that
\* the table still calls free.
AtLeastOneBlock ==
    \A o \in Owners : Live(o) => ~IsFree(entries[StartBlock(o)])
=============================================================================
