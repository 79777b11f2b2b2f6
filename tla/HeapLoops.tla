------------------------------ MODULE HeapLoops ------------------------------
(***************************************************************************)
(* One call of heap_malloc_blocks or of heap_free (memory/heap/heap.c),    *)
(* one loop iteration per step, on any table that calls of the two can     *)
(* leave behind.  It shows that the three loops compute what module        *)
(* HeapTable says they compute, and that they end.                         *)
(***************************************************************************)
EXTENDS HeapTable

CONSTANT MaxRequest     \* bound on total_blocks

ASSUME RequestAssumption == MaxRequest \in Nat

VARIABLES
    table,      \* entries[0], entries[1], ... also past the table's end
    before,     \* the same bytes when the call began
    n,          \* total_blocks, for malloc
    b,          \* start_block, for free
    pc, i, bs, bc, entry

loopVars == <<table, before, n, b, pc, i, bs, bc, entry>>

\* The table and the bytes after it that the largest request can reach.
Memory == 0..(Total + MaxRequest - 1)

Stored == {EntryByte(k, 0, m) : k \in 0..2, m \in 1..3}
             \cup {HEAP_BLOCK_TABLE_ENTRY_FREE}

IsFirst(e) == e \in {65, 193}
IsLater(e) == e \in {1, 129}

\* The tables that malloc and free produce: allocations one after another,
\* of which the last may be cut off by the end of the table.
WellFormed(t) ==
    /\ ~IsLater(t[0])
    /\ \A k \in 1..(Total - 1) : IsLater(t[k]) <=> HasNext(t[k - 1])

-----------------------------------------------------------------------------
InitCommon ==
    /\ \E t \in [Blocks -> Stored] :
          /\ WellFormed(t)
          /\ table = [k \in Memory |-> IF k \in Blocks
                                      THEN t[k]
                                      ELSE HEAP_BLOCK_TABLE_ENTRY_FREE]
    /\ before = table
    /\ bs = -1 /\ bc = 0 /\ entry = 0

\* heap_malloc_blocks(heap, n) is called
MallocCalled ==
    /\ pc = "scan" /\ i = 0
    /\ n \in 0..MaxRequest
    /\ b = 0

\* heap_free(heap, ptr) is called with the address of an allocation
FreeCalled ==
    /\ pc = "clear"
    /\ b \in Blocks /\ IsFirst(before[b])
    /\ i = b
    /\ n = 0

LoopsInit == InitCommon /\ (MallocCalled \/ FreeCalled)

(***************************************************************************)
(* heap_get_start_block                                                    *)
(***************************************************************************)
\* Mutant: the count of free blocks is not reset.
ScanTakenKeepsCount ==
    /\ pc = "scan" /\ i < Total
    /\ ~IsFree(table[i])
    /\ bs' = -1
    /\ i' = i + 1
    /\ UNCHANGED <<table, before, n, b, pc, bc, entry>>

\* Mutant: the start of the run is not reset.
ScanTakenKeepsStart ==
    /\ pc = "scan" /\ i < Total
    /\ ~IsFree(table[i])
    /\ bc' = 0
    /\ i' = i + 1
    /\ UNCHANGED <<table, before, n, b, pc, bs, entry>>

\* Mutant: "continue" in a while loop skips the increment.
ScanTakenStays ==
    /\ pc = "scan" /\ i < Total
    /\ ~IsFree(table[i])
    /\ bc' = 0
    /\ bs' = -1
    /\ UNCHANGED <<table, before, n, b, pc, i, entry>>

ScanTaken ==
    /\ pc = "scan" /\ i < Total
    /\ ~IsFree(table[i])
    /\ bc' = 0
    /\ bs' = -1
    /\ i' = i + 1
    /\ UNCHANGED <<table, before, n, b, pc, entry>>

ScanFree ==
    /\ pc = "scan" /\ i < Total
    /\ IsFree(table[i])
    /\ bs' = IF bs = -1 THEN i ELSE bs
    /\ bc' = bc + 1
    /\ \/ bc' = n /\ pc' = "scanned" /\ UNCHANGED i
       \/ bc' # n /\ i' = i + 1 /\ UNCHANGED pc
    /\ UNCHANGED <<table, before, n, b, entry>>

ScanEnd ==
    /\ pc = "scan" /\ i = Total
    /\ pc' = "scanned"
    /\ UNCHANGED <<table, before, n, b, i, bs, bc, entry>>

\* heap_malloc_blocks: "goto out" with address NULL
Refuse ==
    /\ pc = "scanned" /\ bs = -1
    /\ pc' = "refused"
    /\ UNCHANGED <<table, before, n, b, i, bs, bc, entry>>

(***************************************************************************)
(* heap_mark_blocks_taken                                                  *)
(***************************************************************************)
MarkBegin ==
    /\ pc = "scanned" /\ bs # -1
    /\ pc' = "mark"
    /\ i' = bs
    /\ entry' = HEAP_BLOCK_TABLE_ENTRY_TAKEN + HEAP_BLOCK_IS_FIRST
                    + (IF n > 1 THEN HEAP_BLOCK_HAS_NEXT ELSE 0)
    /\ UNCHANGED <<table, before, n, b, bs, bc>>

\* Mutant: HAS_NEXT is decided for the current block, not for the next one.
MarkStepLate ==
    /\ pc = "mark" /\ i <= bs + n - 1
    /\ table' = [table EXCEPT ![i] = entry]
    /\ entry' = HEAP_BLOCK_TABLE_ENTRY_TAKEN
                    + (IF i # bs + n - 1 THEN HEAP_BLOCK_HAS_NEXT ELSE 0)
    /\ i' = i + 1
    /\ UNCHANGED <<before, n, b, pc, bs, bc>>

MarkStep ==
    /\ pc = "mark" /\ i <= bs + n - 1
    /\ table' = [table EXCEPT ![i] = entry]
    /\ entry' = HEAP_BLOCK_TABLE_ENTRY_TAKEN
                    + (IF i # bs + n - 2 THEN HEAP_BLOCK_HAS_NEXT ELSE 0)
    /\ i' = i + 1
    /\ UNCHANGED <<before, n, b, pc, bs, bc>>

MarkEnd ==
    /\ pc = "mark" /\ i > bs + n - 1
    /\ pc' = "marked"
    /\ UNCHANGED <<table, before, n, b, i, bs, bc, entry>>

(***************************************************************************)
(* heap_mark_block_free                                                    *)
(***************************************************************************)
\* Mutant: the entry is read after it has been cleared.
ClearStepReadsLate ==
    /\ pc = "clear" /\ i < Total
    /\ entry' = HEAP_BLOCK_TABLE_ENTRY_FREE
    /\ table' = [table EXCEPT ![i] = HEAP_BLOCK_TABLE_ENTRY_FREE]
    /\ pc' = "cleared"
    /\ UNCHANGED <<before, n, b, i, bs, bc>>

ClearStep ==
    /\ pc = "clear" /\ i < Total
    /\ entry' = table[i]
    /\ table' = [table EXCEPT ![i] = HEAP_BLOCK_TABLE_ENTRY_FREE]
    /\ \/ ~HasNext(table[i]) /\ pc' = "cleared" /\ UNCHANGED i
       \/ HasNext(table[i]) /\ i' = i + 1 /\ UNCHANGED pc
    /\ UNCHANGED <<before, n, b, bs, bc>>

ClearEnd ==
    /\ pc = "clear" /\ i = Total
    /\ pc' = "cleared"
    /\ UNCHANGED <<table, before, n, b, i, bs, bc, entry>>

LoopsNext ==
    \/ ScanTaken \/ ScanFree \/ ScanEnd \/ Refuse
    \/ MarkBegin \/ MarkStep \/ MarkEnd
    \/ ClearStep \/ ClearEnd

LoopsSpec == LoopsInit /\ [][LoopsNext]_loopVars

\* A loop goes on as long as its condition holds: nothing else runs.
FairLoopsSpec == LoopsSpec /\ WF_loopVars(LoopsNext)

-----------------------------------------------------------------------------
Returned == pc \in {"refused", "marked", "cleared"}

\* heap_get_start_block returns the first fit if there is one, the start of
\* the free tail of the table if there is none, and -ENOMEM otherwise.
ScanResult ==
    pc \in {"scanned", "refused", "mark", "marked"} =>
        /\ bs = -1 => Candidates(before, n) = {}
        /\ bs # -1 => bs \in heap_get_start_block(before, n)

\* A call is refused only if no n consecutive blocks are free, and a call
\* that is not refused gets the lowest such run whenever one exists.
FirstFit ==
    /\ pc = "refused" => Fits(before, n) = {}
    /\ pc = "marked" =>
          \A s \in Fits(before, n) : bs \in Fits(before, n) /\ bs <= s

\* heap_mark_blocks_taken leaves first, middle and last bytes on the n blocks
\* and touches nothing else (the bytes past the table's end included).
MarkResult == pc = "marked" => table = heap_mark_blocks_taken(before, bs, n)

\* heap_mark_block_free clears the allocation from its first block to its
\* last and nothing else; the table stays well formed.
ClearResult ==
    pc = "cleared" => table = heap_mark_block_free(before, b) /\ WellFormed(table)

(***************************************************************************)
(* Whatever well-formed table and request the loops of heap_malloc and     *)
(* heap_free start from, they end with the block, the bytes and the        *)
(* refusals that module HeapTable gives as closed forms.                   *)
(***************************************************************************)
LoopResults == ScanResult /\ FirstFit /\ MarkResult /\ ClearResult

\* Every call returns.
Terminates == <>Returned
=============================================================================
