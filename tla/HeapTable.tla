------------------------------ MODULE HeapTable ------------------------------
(***************************************************************************)
(* The block table of the kernel heap (memory/heap/heap.c) as operators on *)
(* the table's bytes.  Each loop of heap.c is given here by what it        *)
(* computes; module HeapLoops runs the loops one iteration at a time and   *)
(* shows that they compute exactly this.                                   *)
(*                                                                         *)
(* The table lives at RAOS_HEAP_TABLE_ADDRESS (0x7E00), one byte per block *)
(* of the pool.  Nothing in heap.c checks an index against the bounds of   *)
(* the table from below, so the cells just under the table, down to the    *)
(* one that kfree(NULL) computes, are part of the state as well.           *)
(***************************************************************************)
EXTENDS Integers, FiniteSets

CONSTANTS
    Total,      \* table->total: number of blocks (25600 in kheap.c)
    BlockSize,  \* RAOS_HEAP_BLOCK_SIZE (4096)
    Saddr,      \* heap->saddr (RAOS_HEAP_ADDRESS, 0x01000000)
    WordLimit   \* 2^32: the values of uint32_t and size_t are 0..WordLimit-1

(***************************************************************************)
(* heap_create accepts only an aligned pool whose size agrees with the     *)
(* table.  The pool ends below the 4GB limit and starts at least two       *)
(* blocks above address 0 (it starts 4096 blocks above it).                *)
(***************************************************************************)
ASSUME HeapAssumption ==
    /\ Total \in Nat \ {0}
    /\ BlockSize \in Nat \ {0}
    /\ Saddr \in Nat
    /\ WordLimit \in Nat \ {0}
    /\ Saddr % BlockSize = 0
    /\ Saddr >= 2 * BlockSize
    /\ Saddr + Total * BlockSize <= WordLimit

NULL == 0

\* The bits of HEAP_BLOCK_TABLE_ENTRY, and every value the code stores.
HEAP_BLOCK_TABLE_ENTRY_FREE == 0
HEAP_BLOCK_TABLE_ENTRY_TAKEN == 1
HEAP_BLOCK_IS_FIRST == 64
HEAP_BLOCK_HAS_NEXT == 128

Byte == 0..255

HasNext(entry) == entry >= HEAP_BLOCK_HAS_NEXT

heap_get_entry_type(entry) == entry % 16

IsFree(entry) == heap_get_entry_type(entry) = HEAP_BLOCK_TABLE_ENTRY_FREE

-----------------------------------------------------------------------------
(***************************************************************************)
(* Sizes, addresses and block numbers.                                     *)
(***************************************************************************)

\* Rounds up to a multiple of the block size in uint32_t arithmetic: a value
\* in the last block of the address space wraps around to 0.
heap_round_value_to_upper(val) ==
    IF val % BlockSize = 0
    THEN val
    ELSE (val - (val % BlockSize) + BlockSize) % WordLimit

\* The number of blocks heap_malloc asks heap_malloc_blocks for.
TotalBlocks(size) == heap_round_value_to_upper(size) \div BlockSize

heap_block_to_address(block) == Saddr + block * BlockSize

\* C's signed division truncates towards zero.
heap_address_to_block(address) ==
    IF address >= Saddr
    THEN (address - Saddr) \div BlockSize
    ELSE -((Saddr - address) \div BlockSize)

\* The cell that kfree(NULL) starts from, and all the cells modelled.
NullBlock == -(Saddr \div BlockSize)

Blocks == 0..Total-1

Cells == NullBlock..Total-1

-----------------------------------------------------------------------------
(***************************************************************************)
(* heap_get_start_block scans upwards for total_blocks free entries in a   *)
(* row.  It stops at the first such run; but a shorter free run that the   *)
(* end of the table cuts off also leaves bs # -1, and then bs is returned  *)
(* although fewer than n blocks follow it.  n = 0 never matches bc.        *)
(***************************************************************************)
FreeRun(table, lo, hi) == \A i \in lo..hi : IsFree(table[i])

Fits(table, n) ==
    {s \in Blocks : n > 0 /\ s + n <= Total /\ FreeRun(table, s, s + n - 1)}

Tails(table) == {s \in Blocks : FreeRun(table, s, Total - 1)}

Candidates(table, n) ==
    IF Fits(table, n) # {} THEN Fits(table, n) ELSE Tails(table)

\* The block returned, as a set of one block; -ENOMEM is the empty set.
heap_get_start_block(table, n) ==
    {s \in Candidates(table, n) : \A t \in Candidates(table, n) : s <= t}

(***************************************************************************)
(* heap_mark_blocks_taken writes n entries from block s on.  The loop runs *)
(* to s+n-1 whatever the table's length is: the entries it writes past the *)
(* end are BeyondTable(s, n).                                              *)
(***************************************************************************)
\* Mutant: HAS_NEXT is added to the first entry a second time, not or-ed in.
EntryByteCarries(i, s, n) ==
    HEAP_BLOCK_TABLE_ENTRY_TAKEN
        + (IF i = s /\ n > 1 THEN HEAP_BLOCK_IS_FIRST + HEAP_BLOCK_HAS_NEXT ELSE 0)
        + (IF i # s + n - 1 THEN HEAP_BLOCK_HAS_NEXT ELSE 0)

EntryByte(i, s, n) ==
    HEAP_BLOCK_TABLE_ENTRY_TAKEN
        + (IF i = s THEN HEAP_BLOCK_IS_FIRST ELSE 0)
        + (IF i # s + n - 1 THEN HEAP_BLOCK_HAS_NEXT ELSE 0)

heap_mark_blocks_taken(table, s, n) ==
    [i \in DOMAIN table |->
        IF i \in s..(s + n - 1) THEN EntryByte(i, s, n) ELSE table[i]]

BeyondTable(s, n) == {i \in s..(s + n - 1) : i >= Total}

(***************************************************************************)
(* heap_mark_block_free clears entries from block b on, up to and with the *)
(* first one that has no HAS_NEXT bit, or up to the end of the table.      *)
(***************************************************************************)
\* Mutant: the loop runs on past the last block of the allocation.
ClearedTooFar(table, b) ==
    {i \in b..(Total - 1) : \A j \in b..(i - 2) : HasNext(table[j])}

\* Mutant: the loop stops before the last block of the allocation.
ClearedTooFew(table, b) ==
    {i \in b..(Total - 1) : \A j \in b..i : HasNext(table[j])}

Cleared(table, b) ==
    {i \in b..(Total - 1) : \A j \in b..(i - 1) : HasNext(table[j])}

heap_mark_block_free(table, b) ==
    [i \in DOMAIN table |->
        IF i \in Cleared(table, b)
        THEN HEAP_BLOCK_TABLE_ENTRY_FREE
        ELSE table[i]]
=============================================================================
