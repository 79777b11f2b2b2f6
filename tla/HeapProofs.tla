----------------------------- MODULE HeapProofs -----------------------------
(***************************************************************************)
(* Theorems about the kernel heap for every pool, every block size, every  *)
(* set of callers and every set of request sizes.                          *)
(***************************************************************************)
EXTENDS Heap, HeapLoops, TLAPS

-----------------------------------------------------------------------------
(***************************************************************************)
(* Arithmetic of blocks and addresses.                                     *)
(***************************************************************************)

\* Dividing a product by one factor gives the other one.
LEMMA DivCancel ==
    ASSUME NEW B \in Nat \ {0}, NEW k \in Int
    PROVE  (k * B) \div B = k
<1> DEFINE q == (k * B) \div B
<1>1. q \in Int /\ B * q <= k * B /\ k * B < B * q + B
    BY SMT
<1>2. CASE q < k
    <2>1. k - q >= 1 /\ k - q \in Int
        BY <1>1, <1>2
    <2>2. B * (k - q) >= B
        BY <2>1
    <2>3. B * (k - q) = k * B - B * q
        BY <1>1
    <2>. QED BY <1>1, <2>2, <2>3
<1>3. CASE q > k
    <2>1. q - k >= 1 /\ q - k \in Int
        BY <1>1, <1>3
    <2>2. B * (q - k) >= B
        BY <2>1
    <2>3. B * (q - k) = B * q - k * B
        BY <1>1
    <2>. QED BY <1>1, <2>2, <2>3
<1>. QED BY <1>1, <1>2, <1>3

\* A block's address is not NULL and leads back to the block
\* (heap_block_to_address and heap_address_to_block).
LEMMA AddressRoundTrip ==
    ASSUME NEW s \in Blocks
    PROVE  /\ heap_block_to_address(s) \in Nat \ {NULL}
           /\ heap_address_to_block(heap_block_to_address(s)) = s
<1>1. s \in Nat /\ BlockSize \in Nat \ {0} /\ Saddr \in Nat /\ Saddr > 0
    BY HeapAssumption DEF Blocks
<1>2. s * BlockSize \in Nat
    BY <1>1
<1>3. heap_block_to_address(s) \in Nat \ {NULL}
    BY <1>1, <1>2 DEF heap_block_to_address, NULL
<1>4. heap_block_to_address(s) >= Saddr
         /\ heap_block_to_address(s) - Saddr = s * BlockSize
    BY <1>1, <1>2 DEF heap_block_to_address
<1>5. (s * BlockSize) \div BlockSize = s
    BY <1>1, DivCancel
<1>. QED BY <1>3, <1>4, <1>5 DEF heap_address_to_block

\* kfree(NULL) starts at least two cells below the table.
LEMMA NullBlockLow ==
    /\ NullBlock \in Int /\ NullBlock <= -2
    /\ heap_address_to_block(NULL) = NullBlock
    /\ Blocks \subseteq Cells
<1> DEFINE q == Saddr \div BlockSize
<1>1. BlockSize \in Nat \ {0} /\ Saddr \in Nat /\ Saddr >= 2 * BlockSize
    BY HeapAssumption
<1>2. q \in Int /\ BlockSize * q <= Saddr /\ Saddr < BlockSize * q + BlockSize
    BY <1>1, SMT
<1>3. q >= 2
    <2>1. SUFFICES ASSUME q <= 1 PROVE FALSE
        BY <1>2
    <2>2. BlockSize * q <= BlockSize
        BY <1>1, <1>2, <2>1
    <2>. QED BY <1>1, <1>2, <2>2
<1>4. heap_address_to_block(NULL) = NullBlock
    BY <1>1 DEF heap_address_to_block, NullBlock, NULL
<1>. QED BY <1>2, <1>3, <1>4, HeapAssumption DEF NullBlock, Blocks, Cells

\* heap_malloc asks for a natural number of blocks.
LEMMA TotalBlocksNat ==
    ASSUME NEW size \in Sizes
    PROVE  TotalBlocks(size) \in Nat
<1>1. size \in Nat /\ BlockSize \in Nat \ {0} /\ WordLimit \in Nat \ {0}
    BY HeapAssumption, CallersAssumption
<1>2. heap_round_value_to_upper(size) \in Nat
    <2>1. size - (size % BlockSize) + BlockSize \in Int
        BY <1>1
    <2>2. (size - (size % BlockSize) + BlockSize) % WordLimit \in Nat
        BY <1>1, <2>1
    <2>. QED BY <1>1, <2>2 DEF heap_round_value_to_upper
<1>3. \A x \in Nat : x \div BlockSize \in Nat
    BY <1>1, SMT
<1>. QED BY <1>2, <1>3 DEF TotalBlocks

-----------------------------------------------------------------------------
(***************************************************************************)
(* Bytes of the table.                                                     *)
(***************************************************************************)

\* The bytes heap_mark_blocks_taken stores: never FREE, and HAS_NEXT on all
\* blocks of an allocation except its last.
LEMMA EntryByteFacts ==
    ASSUME NEW x \in Int, NEW s \in Int, NEW nb \in Nat
    PROVE  /\ EntryByte(x, s, nb) \in Byte
           /\ ~IsFree(EntryByte(x, s, nb))
           /\ EntryByte(x, s, nb) # HEAP_BLOCK_TABLE_ENTRY_FREE
           /\ HasNext(EntryByte(x, s, nb)) <=> x # s + nb - 1
BY DEF EntryByte, Byte, IsFree, HasNext, heap_get_entry_type,
       HEAP_BLOCK_TABLE_ENTRY_TAKEN, HEAP_BLOCK_IS_FIRST,
       HEAP_BLOCK_HAS_NEXT, HEAP_BLOCK_TABLE_ENTRY_FREE

\* What heap_get_start_block returns is free as far as the table reaches.
LEMMA StartBlockFree ==
    ASSUME NEW t, NEW nb \in Nat, NEW s \in heap_get_start_block(t, nb)
    PROVE  /\ s \in Blocks
           /\ \A x \in (s..(s + nb - 1)) \cap Blocks : IsFree(t[x])
<1>1. s \in Candidates(t, nb) /\ Total \in Nat \ {0}
    BY HeapAssumption DEF heap_get_start_block
<1>2. CASE s \in Fits(t, nb)
    BY <1>1, <1>2 DEF Fits, FreeRun
<1>3. CASE s \in Tails(t)
    BY <1>1, <1>3 DEF Tails, FreeRun, Blocks
<1>. QED BY <1>1, <1>2, <1>3 DEF Candidates

-----------------------------------------------------------------------------
(***************************************************************************)
(* The type invariant.                                                     *)
(***************************************************************************)

\* kheap_init establishes the types.
LEMMA TypeCorrectInit == Init => TypeOK
<1>1. {HEAP_BLOCK_TABLE_ENTRY_FREE, 85} \cup LowBytes \subseteq Byte
    BY CallersAssumption DEF HEAP_BLOCK_TABLE_ENTRY_FREE, Byte
<1>. QED BY <1>1 DEF Init, kheap_init, TypeOK, Nothing, NULL

\* Every call preserves the types.
LEMMA TypeCorrectStep == TypeOK /\ [Next]_vars => TypeOK'
<1>. SUFFICES ASSUME TypeOK, [Next]_vars PROVE TypeOK'
    OBVIOUS
<1>2. ASSUME NEW o \in Owners, NEW size \in Sizes, kmalloc(o, size)
      PROVE  TypeOK'
    <2> DEFINE nb == TotalBlocks(size)
    <2>1. nb \in Nat
        BY TotalBlocksNat
    <2>. HIDE DEF nb
    <2>2. CASE /\ Candidates(entries, nb) = {}
               /\ last' = [ptr |-> NULL, len |-> nb]
               /\ UNCHANGED <<entries, spill, held>>
        BY <2>1, <2>2 DEF TypeOK, NULL
    <2>3. ASSUME NEW s \in heap_get_start_block(entries, nb),
                 entries' = heap_mark_blocks_taken(entries, s, nb),
                 spill' = spill \cup BeyondTable(s, nb),
                 last' = [ptr |-> heap_block_to_address(s), len |-> nb],
                 held' = [held EXCEPT ![o] = last']
          PROVE  TypeOK'
        <3>1. s \in Blocks /\ s \in Nat /\ Total \in Nat
            BY <2>1, StartBlockFree, HeapAssumption DEF Blocks
        <3>2. last' \in [ptr : Nat, len : Nat]
            BY <2>1, <2>3, <3>1, AddressRoundTrip
        <3>3. held' \in [Owners -> [ptr : Nat, len : Nat]]
            BY <2>3, <3>2 DEF TypeOK
        <3>4. BeyondTable(s, nb) \subseteq Nat
            BY <2>1, <3>1 DEF BeyondTable
        <3>5. Cells \subseteq Int
            BY NullBlockLow, HeapAssumption DEF Cells
        <3>6. entries' \in [Cells -> Byte]
            BY <2>1, <2>3, <3>1, <3>5, EntryByteFacts
               DEF TypeOK, heap_mark_blocks_taken
        <3>. QED BY <2>3, <3>2, <3>3, <3>4, <3>6 DEF TypeOK
    <2>. QED BY <1>2, <2>2, <2>3 DEF kmalloc, heap_malloc_blocks, nb
<1>3. ASSUME NEW o \in Owners, kfree(o)
      PROVE  TypeOK'
    <2>1. held' \in [Owners -> [ptr : Nat, len : Nat]]
        BY <1>3 DEF TypeOK, kfree, Nothing, NULL
    <2>2. entries' \in [Cells -> Byte]
        BY <1>3 DEF TypeOK, kfree, heap_mark_block_free,
                    HEAP_BLOCK_TABLE_ENTRY_FREE, Byte
    <2>. QED BY <1>3, <2>1, <2>2 DEF TypeOK, kfree
<1>4. CASE kfree_NULL
    BY <1>4 DEF TypeOK, kfree_NULL, heap_mark_block_free,
                HEAP_BLOCK_TABLE_ENTRY_FREE, Byte
<1>5. CASE UNCHANGED vars
    BY <1>5 DEF TypeOK, vars
<1>. QED BY <1>2, <1>3, <1>4, <1>5 DEF Next

\* Type correctness of the heap's state after any sequence of calls.
THEOREM TypeCorrect == Spec => []TypeOK
BY TypeCorrectInit, TypeCorrectStep, PTL DEF Spec

-----------------------------------------------------------------------------
(***************************************************************************)
(* The inductive invariant.  TableExact alone is not inductive: freeing an *)
(* allocation clears exactly its own blocks only because allocations do    *)
(* not overlap, start inside the table and are not empty, and kfree(NULL)  *)
(* leaves the table alone only because some cell below it has no HAS_NEXT. *)
(***************************************************************************)
GrantsInTable ==
    \A o \in Owners : Live(o) => StartBlock(o) \in Blocks /\ held[o].len > 0

NullStops == \E k \in NullBlock..(-1) : ~HasNext(entries[k])

IInv ==
    /\ TypeOK
    /\ GrantsInTable
    /\ TableExact
    /\ NoOverlap
    /\ NullStops

\* kfree of a live allocation clears its blocks and nothing else.
LEMMA ClearedIsExtent ==
    ASSUME IInv, NEW o \in Owners, Live(o)
    PROVE  Cleared(entries, StartBlock(o)) = Extent(o) \cap Blocks
<1> DEFINE sb == StartBlock(o)
           nb == held[o].len
<1>1. sb \in Blocks /\ sb \in Nat /\ nb \in Nat /\ nb > 0 /\ Total \in Nat
    BY HeapAssumption DEF IInv, GrantsInTable, TypeOK, Blocks
<1>2. Extent(o) = sb..(sb + nb - 1)
    BY DEF Extent
<1>3. \A x \in Extent(o) \cap Blocks : entries[x] = EntryByte(x, sb, nb)
    BY DEF IInv, TableExact
<1>. HIDE DEF sb, nb
<1>4. \A x \in Extent(o) \cap Blocks : HasNext(entries[x]) <=> x # sb + nb - 1
    BY <1>1, <1>2, <1>3, EntryByteFacts
<1>5. ASSUME NEW x \in Cleared(entries, sb)
      PROVE  x \in Extent(o) \cap Blocks
    <2>1. /\ x \in sb..(Total - 1)
          /\ \A j \in sb..(x - 1) : HasNext(entries[j])
        BY <1>5 DEF Cleared
    <2>2. CASE x > sb + nb - 1
        <3>1. sb + nb - 1 \in sb..(x - 1) /\ sb + nb - 1 \in Extent(o) \cap Blocks
            BY <1>1, <1>2, <2>1, <2>2 DEF Blocks
        <3>. QED BY <1>4, <2>1, <3>1
    <2>. QED BY <1>1, <1>2, <2>1, <2>2 DEF Blocks
<1>6. ASSUME NEW x \in Extent(o) \cap Blocks
      PROVE  x \in Cleared(entries, sb)
    <2>1. ASSUME NEW j \in sb..(x - 1)
          PROVE  HasNext(entries[j])
        <3>1. j \in Extent(o) \cap Blocks /\ j # sb + nb - 1
            BY <1>1, <1>2 DEF Blocks
        <3>. QED BY <1>4, <3>1
    <2>2. x \in sb..(Total - 1)
        BY <1>1, <1>2 DEF Blocks
    <2>. QED BY <2>1, <2>2 DEF Cleared
<1>. QED BY <1>5, <1>6 DEF sb

\* A new allocation overlaps no live one, even past the end of the table.
LEMMA GrantIsDisjoint ==
    ASSUME IInv, NEW nb \in Nat, NEW s \in heap_get_start_block(entries, nb),
           NEW p \in Owners
    PROVE  (s..(s + nb - 1)) \cap Extent(p) = {}
<1>. SUFFICES ASSUME NEW x \in s..(s + nb - 1), x \in Extent(p)
              PROVE  FALSE
    OBVIOUS
<1> DEFINE c == StartBlock(p)
           m == held[p].len
<1>1. Live(p) /\ c \in Blocks /\ m \in Nat /\ x \in c..(c + m - 1)
    BY DEF Extent, IInv, GrantsInTable, TypeOK
<1>2. \A k \in Extent(p) \cap Blocks : ~IsFree(entries[k])
    BY <1>1, EntryByteFacts DEF IInv, TableExact, Blocks
<1>3. s \in Blocks /\ \A k \in (s..(s + nb - 1)) \cap Blocks : IsFree(entries[k])
    BY StartBlockFree
<1>4. Extent(p) = c..(c + m - 1)
    BY <1>1 DEF Extent
<1>. HIDE DEF c, m
<1>5. CASE x \in Blocks
    BY <1>2, <1>3, <1>5
<1>6. CASE x \notin Blocks
    <2>1. Total - 1 \in (s..(s + nb - 1)) \cap Blocks
             /\ Total - 1 \in Extent(p) \cap Blocks
        BY <1>1, <1>3, <1>4, <1>6, HeapAssumption DEF Blocks
    <2>. QED BY <1>2, <1>3, <2>1
<1>. QED BY <1>5, <1>6

\* The owner's view after a successful call: only o's allocation is new.
LEMMA HeldAfterGrant ==
    ASSUME TypeOK, NEW o \in Owners, NEW nb \in Nat, NEW s \in Blocks,
           last' = [ptr |-> heap_block_to_address(s), len |-> nb],
           held' = [held EXCEPT ![o] = last']
    PROVE  /\ Live(o)' /\ StartBlock(o)' = s /\ held'[o].len = nb
           /\ Extent(o)' = s..(s + nb - 1)
           /\ \A p \in Owners \ {o} :
                 /\ held'[p] = held[p] /\ StartBlock(p)' = StartBlock(p)
                 /\ Live(p)' = Live(p) /\ Extent(p)' = Extent(p)
<1>1. held'[o] = [ptr |-> heap_block_to_address(s), len |-> nb]
    BY DEF TypeOK
<1>2. \A p \in Owners \ {o} : held'[p] = held[p]
    BY DEF TypeOK
<1>3. Live(o)' /\ StartBlock(o)' = s /\ held'[o].len = nb
    BY <1>1, AddressRoundTrip DEF Live, StartBlock
<1>. QED BY <1>2, <1>3 DEF Live, StartBlock, Extent

\* The owner's view after kfree: o holds nothing.
LEMMA HeldAfterFree ==
    ASSUME TypeOK, NEW o \in Owners, held' = [held EXCEPT ![o] = Nothing]
    PROVE  /\ ~Live(o)' /\ Extent(o)' = {}
           /\ \A p \in Owners \ {o} :
                 /\ held'[p] = held[p] /\ StartBlock(p)' = StartBlock(p)
                 /\ Live(p)' = Live(p) /\ Extent(p)' = Extent(p)
<1>1. held'[o] = Nothing /\ \A p \in Owners \ {o} : held'[p] = held[p]
    BY DEF TypeOK
<1>2. ~Live(o)'
    BY <1>1 DEF Live, Nothing
<1>. QED BY <1>1, <1>2 DEF Live, StartBlock, Extent

\* The invariant holds once kheap_init has cleared the table.
LEMMA InitIInv == Init => IInv
<1>. SUFFICES ASSUME Init PROVE IInv
    OBVIOUS
<1>1. TypeOK
    BY TypeCorrectInit
<1>2. \A o \in Owners : ~Live(o) /\ Extent(o) = {}
    BY DEF Init, kheap_init, Live, Extent, Nothing
<1>3. GrantsInTable /\ NoOverlap
    BY <1>2 DEF GrantsInTable, NoOverlap
<1>4. TableExact
    BY <1>2 DEF Init, kheap_init, TableExact
<1>5. NullStops
    BY NullBlockLow DEF Init, kheap_init, NullStops, HasNext, HEAP_BLOCK_HAS_NEXT
<1>. QED BY <1>1, <1>3, <1>4, <1>5 DEF IInv

\* A successful kmalloc preserves the invariant.
LEMMA GrantIInv ==
    ASSUME IInv, TypeOK', NEW o \in Owners, NEW nb \in Nat, nb > 0, ~Live(o),
           NEW s \in heap_get_start_block(entries, nb),
           entries' = heap_mark_blocks_taken(entries, s, nb),
           last' = [ptr |-> heap_block_to_address(s), len |-> nb],
           held' = [held EXCEPT ![o] = last']
    PROVE  IInv'
<1> DEFINE E == s..(s + nb - 1)
<1>1. /\ s \in Blocks /\ s \in Nat /\ Total \in Nat /\ TypeOK
      /\ \A x \in Cells : entries'[x] = IF x \in E THEN EntryByte(x, s, nb)
                                                  ELSE entries[x]
    BY StartBlockFree, HeapAssumption
       DEF IInv, TypeOK, heap_mark_blocks_taken, Blocks
<1>2. /\ Live(o)' /\ StartBlock(o)' = s /\ held'[o].len = nb /\ Extent(o)' = E
      /\ \A p \in Owners \ {o} :
            /\ held'[p] = held[p] /\ StartBlock(p)' = StartBlock(p)
            /\ Live(p)' = Live(p) /\ Extent(p)' = Extent(p)
    BY <1>1, HeldAfterGrant
<1>3. \A p \in Owners : E \cap Extent(p) = {}
    BY GrantIsDisjoint
<1>4. Extent(o) = {}
    BY DEF Extent
<1>. HIDE DEF E
<1>5. GrantsInTable'
    BY <1>1, <1>2 DEF IInv, GrantsInTable
<1>6. NoOverlap'
    BY <1>2, <1>3 DEF IInv, NoOverlap
<1>7. TableExact'
    <2>1. ASSUME NEW p \in Owners, NEW x \in Extent(p)' \cap Blocks
          PROVE  entries'[x] = EntryByte(x, StartBlock(p)', held'[p].len)
        <3>1. CASE p = o
            BY <1>1, <1>2, <2>1, <3>1, NullBlockLow
        <3>2. CASE p # o
            BY <1>1, <1>2, <1>3, <2>1, <3>2, NullBlockLow DEF IInv, TableExact
        <3>. QED BY <3>1, <3>2
    <2>2. ASSUME NEW x \in Blocks, \A p \in Owners : x \notin Extent(p)'
          PROVE  entries'[x] = HEAP_BLOCK_TABLE_ENTRY_FREE
        <3>1. x \notin E /\ \A p \in Owners : x \notin Extent(p)
            BY <1>2, <1>4, <2>2
        <3>. QED BY <1>1, <3>1, NullBlockLow DEF IInv, TableExact
    <2>. QED BY <2>1, <2>2 DEF TableExact
<1>8. NullStops'
    <2>1. PICK k \in NullBlock..(-1) : ~HasNext(entries[k])
        BY DEF IInv, NullStops
    <2>2. k \in Cells /\ k \notin E
        BY <1>1, NullBlockLow DEF Cells, E
    <2>. QED BY <1>1, <2>1, <2>2 DEF NullStops
<1>. QED BY <1>5, <1>6, <1>7, <1>8 DEF IInv

\* kfree of a live allocation preserves the invariant.
LEMMA FreeIInv ==
    ASSUME IInv, TypeOK', NEW o \in Owners, kfree(o)
    PROVE  IInv'
<1> DEFINE E == Extent(o) \cap Blocks
<1>1. Cleared(entries, StartBlock(o)) = E
    BY ClearedIsExtent DEF kfree
<1>2. TypeOK /\ \A x \in Cells :
          entries'[x] = IF x \in E THEN HEAP_BLOCK_TABLE_ENTRY_FREE ELSE entries[x]
    BY <1>1 DEF kfree, IInv, TypeOK, heap_mark_block_free
<1>3. /\ ~Live(o)' /\ Extent(o)' = {}
      /\ \A p \in Owners \ {o} :
            /\ held'[p] = held[p] /\ StartBlock(p)' = StartBlock(p)
            /\ Live(p)' = Live(p) /\ Extent(p)' = Extent(p)
    BY <1>2, HeldAfterFree DEF kfree
<1>4. \A p \in Owners \ {o} : E \cap Extent(p) = {}
    BY DEF IInv, NoOverlap
<1>5. GrantsInTable'
    BY <1>3 DEF IInv, GrantsInTable
<1>6. NoOverlap'
    BY <1>3 DEF IInv, NoOverlap
<1>7. TableExact'
    <2>1. ASSUME NEW p \in Owners, NEW x \in Extent(p)' \cap Blocks
          PROVE  entries'[x] = EntryByte(x, StartBlock(p)', held'[p].len)
        <3>1. p # o /\ x \notin E /\ x \in Extent(p) /\ x \in Cells
            BY <1>3, <1>4, <2>1, NullBlockLow
        <3>. QED BY <1>2, <1>3, <2>1, <3>1 DEF IInv, TableExact
    <2>2. ASSUME NEW x \in Blocks, \A p \in Owners : x \notin Extent(p)'
          PROVE  entries'[x] = HEAP_BLOCK_TABLE_ENTRY_FREE
        <3>1. x \in Cells /\ (x \in E \/ \A p \in Owners : x \notin Extent(p))
            BY <1>3, <2>2, NullBlockLow
        <3>. QED BY <1>2, <3>1 DEF IInv, TableExact
    <2>. QED BY <2>1, <2>2 DEF TableExact
<1>8. NullStops'
    <2>1. PICK k \in NullBlock..(-1) : ~HasNext(entries[k])
        BY DEF IInv, NullStops
    <2>2. k \in Cells /\ k \notin E
        BY NullBlockLow, HeapAssumption DEF Cells, Blocks
    <2>. QED BY <1>2, <2>1, <2>2 DEF NullStops
<1>. QED BY <1>5, <1>6, <1>7, <1>8 DEF IInv

\* The cells that kfree(NULL) clears end below the table.
LEMMA NullClearsBelow ==
    ASSUME IInv
    PROVE  Cleared(entries, NullBlock) \cap Blocks = {}
<1>1. PICK k \in NullBlock..(-1) : ~HasNext(entries[k])
    BY DEF IInv, NullStops
<1>. SUFFICES ASSUME NEW x \in Blocks, x \in Cleared(entries, NullBlock)
              PROVE  FALSE
    OBVIOUS
<1>2. k \in NullBlock..(x - 1)
    BY NullBlockLow, HeapAssumption DEF Blocks
<1>. QED BY <1>1, <1>2 DEF Cleared

\* kfree(NULL) preserves the invariant.
LEMMA FreeNullIInv ==
    ASSUME IInv, TypeOK', kfree_NULL
    PROVE  IInv'
<1> DEFINE C == Cleared(entries, NullBlock)
<1>1. /\ C \cap Blocks = {}
      /\ \A x \in Cells :
            entries'[x] = IF x \in C THEN HEAP_BLOCK_TABLE_ENTRY_FREE ELSE entries[x]
    BY NullClearsBelow, NullBlockLow
       DEF kfree_NULL, IInv, TypeOK, heap_mark_block_free
<1>. HIDE DEF C
<1>2. held' = held /\ \A x \in Blocks : entries'[x] = entries[x]
    BY <1>1, NullBlockLow DEF kfree_NULL
<1>3. GrantsInTable' /\ NoOverlap' /\ TableExact'
    BY <1>2 DEF IInv, GrantsInTable, NoOverlap, TableExact, Live, StartBlock, Extent
<1>4. NullStops'
    <2>1. PICK k \in NullBlock..(-1) : ~HasNext(entries[k])
        BY DEF IInv, NullStops
    <2>2. k \in Cells
        BY NullBlockLow, HeapAssumption DEF Cells
    <2>3. ~HasNext(entries'[k])
        BY <1>1, <2>1, <2>2 DEF HasNext, HEAP_BLOCK_TABLE_ENTRY_FREE, HEAP_BLOCK_HAS_NEXT
    <2>. QED BY <2>3 DEF NullStops
<1>. QED BY <1>3, <1>4 DEF IInv

\* Every call preserves the invariant, if no request is for 0 blocks.
LEMMA StepIInv ==
    ASSUME NonEmptyRequests, IInv, [Next]_vars
    PROVE  IInv'
<1>1. TypeOK'
    BY TypeCorrectStep DEF IInv
<1>2. ASSUME NEW o \in Owners, NEW size \in Sizes, kmalloc(o, size)
      PROVE  IInv'
    <2>1. TotalBlocks(size) \in Nat /\ TotalBlocks(size) > 0
        BY TotalBlocksNat DEF NonEmptyRequests
    <2>2. CASE UNCHANGED <<entries, spill, held>>
        BY <1>1, <2>2 DEF IInv, GrantsInTable, TableExact, NoOverlap, NullStops,
                          Live, StartBlock, Extent
    <2>. QED BY <1>1, <1>2, <2>1, <2>2, GrantIInv DEF kmalloc, heap_malloc_blocks
<1>3. ASSUME NEW o \in Owners, kfree(o)
      PROVE  IInv'
    BY <1>1, <1>3, FreeIInv
<1>4. CASE kfree_NULL
    BY <1>1, <1>4, FreeNullIInv
<1>5. CASE UNCHANGED vars
    BY <1>1, <1>5 DEF IInv, GrantsInTable, TableExact, NoOverlap, NullStops,
                      Live, StartBlock, Extent, vars
<1>. QED BY <1>2, <1>3, <1>4, <1>5 DEF Next

\* The invariant holds after any sequence of calls.
THEOREM InvariantHolds ==
    ASSUME NonEmptyRequests
    PROVE  Spec => []IInv
<1>1. Init => IInv
    BY InitIInv
<1>2. IInv /\ [Next]_vars => IInv'
    BY StepIInv
<1>. QED BY <1>1, <1>2, PTL DEF Spec

(***************************************************************************)
(* Whatever the order of kmalloc, kfree and kfree(NULL) calls, the block   *)
(* table describes exactly the live allocations: no block is leaked and    *)
(* none is freed under its owner.  Holds although allocations may reach    *)
(* past the end of the pool.                                               *)
(***************************************************************************)
THEOREM TableAlwaysExact ==
    ASSUME NonEmptyRequests
    PROVE  Spec => []TableExact
<1>1. IInv => TableExact
    BY DEF IInv
<1>. QED BY <1>1, InvariantHolds, PTL

\* No block is ever handed to two callers at once.
THEOREM NeverOverlap ==
    ASSUME NonEmptyRequests
    PROVE  Spec => []NoOverlap
<1>1. IInv => NoOverlap
    BY DEF IInv
<1>. QED BY <1>1, InvariantHolds, PTL

\* kfree(NULL), which process_terminate performs, never frees a block.
THEOREM NullFreeAlwaysHarmless ==
    ASSUME NonEmptyRequests
    PROVE  Spec => []NullFreeHarmless
<1>1. IInv => NullFreeHarmless
    BY NullClearsBelow, NullBlockLow DEF NullFreeHarmless
<1>. QED BY <1>1, InvariantHolds, PTL

-----------------------------------------------------------------------------
(***************************************************************************)
(* Refinement: the heap implements the allocator its callers rely on.      *)
(***************************************************************************)

\* A refused kmalloc is justified: every run of n blocks of the pool meets a
\* live allocation.
LEMMA RefusalJustified ==
    ASSUME IInv, NEW nb \in Nat, nb > 0, Candidates(entries, nb) = {},
           NEW s \in 0..(Total - nb)
    PROVE  \E p \in Owners : (s..(s + nb - 1)) \cap Extent(p) # {}
<1>1. Fits(entries, nb) = {}
    BY DEF Candidates
<1>2. s \in Blocks /\ s + nb <= Total /\ Total \in Nat
    BY HeapAssumption DEF Blocks
<1>3. PICK x \in s..(s + nb - 1) : ~IsFree(entries[x])
    BY <1>1, <1>2 DEF Fits, FreeRun
<1>4. x \in Blocks
    BY <1>2 DEF Blocks
<1>5. entries[x] # HEAP_BLOCK_TABLE_ENTRY_FREE
    BY <1>3 DEF IsFree, heap_get_entry_type, HEAP_BLOCK_TABLE_ENTRY_FREE
<1>6. PICK p \in Owners : x \in Extent(p)
    BY <1>4, <1>5 DEF IInv, TableExact
<1>. QED BY <1>3, <1>6

\* Every call of the heap is a step of the allocator, or leaves the
\* allocator's state alone (kfree(NULL)).
LEMMA StepRefines ==
    ASSUME NonEmptyRequests, IInv, [Next]_vars
    PROVE  [A!Next]_(A!vars)
<1>. USE DEF A!vars
<1>1. ASSUME NEW o \in Owners, NEW size \in Sizes, kmalloc(o, size)
      PROVE  A!Next
    <2> DEFINE nb == TotalBlocks(size)
    <2>1. nb \in Nat /\ nb > 0 /\ nb \in {TotalBlocks(z) : z \in Sizes}
        BY TotalBlocksNat DEF NonEmptyRequests
    <2>. HIDE DEF nb
    <2>2. CASE /\ Candidates(entries, nb) = {}
               /\ last' = [ptr |-> NULL, len |-> nb]
               /\ UNCHANGED <<entries, spill, held>>
        <3>1. \A s \in 0..(Total - nb) :
                  \E p \in Owners : A!Run(s, nb) \cap Extent(p) # {}
            BY <2>1, <2>2, RefusalJustified DEF A!Run
        <3>2. \A p \in Owners : Extent(p)' = Extent(p)
            BY <2>2 DEF Extent, StartBlock, Live
        <3>3. A!Refuse(nb)
            BY <2>2, <3>1, <3>2 DEF A!Refuse
        <3>. QED BY <2>1, <3>3 DEF A!Next
    <2>3. ASSUME NEW s \in heap_get_start_block(entries, nb),
                 last' = [ptr |-> heap_block_to_address(s), len |-> nb],
                 held' = [held EXCEPT ![o] = last']
          PROVE  A!Next
        <3>1. s \in Blocks /\ last'.ptr # NULL /\ last'.len = nb
            BY <2>1, <2>3, StartBlockFree, AddressRoundTrip
        <3>2. /\ Extent(o)' = A!Run(s, nb)
              /\ \A p \in Owners \ {o} : Extent(p)' = Extent(p)
            BY <2>1, <2>3, <3>1, HeldAfterGrant DEF IInv, A!Run
        <3>3. \A p \in Owners : A!Run(s, nb) \cap Extent(p) = {}
            BY <2>1, GrantIsDisjoint DEF A!Run
        <3>4. Extent(o) = {}
            BY <1>1 DEF kmalloc, Extent
        <3>5. A!Grant(o, nb)
            BY <3>1, <3>2, <3>3, <3>4 DEF A!Grant, Blocks
        <3>. QED BY <2>1, <3>5 DEF A!Next
    <2>. QED BY <1>1, <2>2, <2>3 DEF kmalloc, heap_malloc_blocks, nb
<1>2. ASSUME NEW o \in Owners, kfree(o)
      PROVE  A!Next
    <2>1. /\ Extent(o)' = {}
          /\ \A p \in Owners \ {o} : Extent(p)' = Extent(p)
        BY <1>2, HeldAfterFree DEF IInv, kfree
    <2>2. StartBlock(o) \in Extent(o)
        BY <1>2 DEF IInv, GrantsInTable, kfree, Extent, TypeOK, Blocks
    <2>3. A!Release(o)
        BY <1>2, <2>1, <2>2 DEF A!Release, kfree
    <2>. QED BY <2>3 DEF A!Next
<1>3. ASSUME UNCHANGED <<held, last>>
      PROVE  UNCHANGED A!vars
    BY <1>3 DEF Extent, StartBlock, Live
<1>. QED BY <1>1, <1>2, <1>3 DEF Next, kfree_NULL, vars

(***************************************************************************)
(* kmalloc and kfree implement the abstract allocator: grants of the size  *)
(* asked for that nobody else holds, refusal only when no run of free      *)
(* blocks is long enough, release of all that was granted.                 *)
(***************************************************************************)
THEOREM HeapImplementsAllocator ==
    ASSUME NonEmptyRequests
    PROVE  Spec => ImplementsAllocator
<1>1. Init => A!Init
    <2>. SUFFICES ASSUME Init PROVE A!Init
        OBVIOUS
    <2>1. \A o \in Owners : Extent(o) = {}
        BY DEF Init, kheap_init, Extent, Live, Nothing
    <2>2. last.len = 0 /\ (last.ptr # NULL) = FALSE
        BY DEF Init, kheap_init, Nothing
    <2>. QED BY <2>1, <2>2 DEF A!Init
<1>2. IInv /\ [Next]_vars => [A!Next]_(A!vars)
    BY StepRefines
<1>. QED BY <1>1, <1>2, InvariantHolds, PTL DEF Spec, ImplementsAllocator, A!Spec

-----------------------------------------------------------------------------
(***************************************************************************)
(* The loops of heap.c, one iteration per step (module HeapLoops), compute *)
(* what the operators of module HeapTable say: the theorems above, which   *)
(* are about those operators, are theorems about the loops.                *)
(***************************************************************************)

\* The bytes of a table: what the call found, and what it is called with.
CallInv ==
    /\ n \in 0..MaxRequest
    /\ before = [k \in Memory |-> before[k]]
    /\ \A k \in Blocks : before[k] \in {0, 1, 65, 129, 193}
    /\ WellFormed(before)
    /\ pc \in {"scan", "scanned", "refused", "mark", "marked", "clear", "cleared"}

(***************************************************************************)
(* heap_get_start_block before entry i: bs..i-1 is the free run that ends  *)
(* there and cannot be extended downwards, or there is none and bs is -1;  *)
(* and no fit ends below i, or the loop would have stopped.                *)
(***************************************************************************)
RunStart == bs = 0 \/ ~IsFree(before[bs - 1])

ScanInv ==
    pc = "scan" =>
        /\ table = before
        /\ i \in 0..Total
        /\ bs = -1 => bc = 0 /\ (i = 0 \/ ~IsFree(before[i - 1]))
        /\ bs # -1 => /\ bs \in 0..(i - 1) /\ bc = i - bs
                      /\ FreeRun(before, bs, i - 1)
                      /\ RunStart
        /\ \A s \in Fits(before, n) : s + n > i

ScannedInv ==
    /\ ScanResult
    /\ pc \in {"scanned", "refused"} => table = before
    /\ pc = "refused" => bs = -1
    /\ pc \in {"scanned", "mark", "marked"} => bs = -1 \/ bs \in Blocks

(***************************************************************************)
(* heap_mark_blocks_taken before block i: the blocks below i are written   *)
(* and builded_entry is the byte of block i.                               *)
(***************************************************************************)
Marked(to) ==
    [k \in Memory |-> IF k \in bs..(to - 1) THEN EntryByte(k, bs, n) ELSE before[k]]

MarkInv ==
    /\ pc \in {"mark", "marked"} => bs \in Blocks
    /\ pc = "mark" =>
        /\ i \in bs..(bs + n)
        /\ table = Marked(i)
        /\ i < bs + n => entry = EntryByte(i, bs, n)
    /\ pc = "marked" => table = Marked(bs + n)

(***************************************************************************)
(* heap_mark_block_free before block i: the blocks from b to i-1 are       *)
(* cleared and each of them had the HAS_NEXT bit.                          *)
(***************************************************************************)
ClearedUpTo(to) ==
    [k \in Memory |-> IF k \in b..(to - 1) THEN 0 ELSE before[k]]

ClearInv ==
    /\ pc = "clear" =>
        /\ b \in Blocks /\ IsFirst(before[b])
        /\ i \in b..Total
        /\ table = ClearedUpTo(i)
        /\ \A j \in b..(i - 1) : HasNext(before[j])
    /\ ClearResult

LoopInv == CallInv /\ ScanInv /\ ScannedInv /\ MarkInv /\ ClearInv

\* No loop changes what the call found.
LEMMA CallKept ==
    ASSUME CallInv, UNCHANGED <<before, n>>,
           pc' \in {"scan", "scanned", "refused", "mark", "marked", "clear", "cleared"}
    PROVE  CallInv'
BY DEF CallInv, WellFormed

\* The call begins before the first iteration of its loop.
LEMMA LoopInit ==
    ASSUME LoopsInit
    PROVE  LoopInv
<1>1. Total \in Nat \ {0}
    BY HeapAssumption
<1>2. PICK t \in [Blocks -> Stored] :
          /\ WellFormed(t)
          /\ table = [k \in Memory |-> IF k \in Blocks
                                        THEN t[k]
                                        ELSE HEAP_BLOCK_TABLE_ENTRY_FREE]
    BY DEF LoopsInit, InitCommon
<1>3. before = table /\ bs = -1 /\ bc = 0
    BY DEF LoopsInit, InitCommon
<1>4. \A e \in Stored : e \in {0, 1, 65, 129, 193}
    BY DEF Stored, EntryByte, HEAP_BLOCK_TABLE_ENTRY_FREE,
           HEAP_BLOCK_TABLE_ENTRY_TAKEN, HEAP_BLOCK_IS_FIRST,
           HEAP_BLOCK_HAS_NEXT
<1>5. Blocks = 0..(Total - 1) /\ Blocks \subseteq Memory
    BY <1>1, RequestAssumption DEF Blocks, Memory
<1>6. before = [k \in Memory |-> before[k]] /\ \A k \in Blocks : before[k] = t[k]
    BY <1>2, <1>3, <1>5
<1>7. \A k \in Blocks : before[k] \in {0, 1, 65, 129, 193}
    <2>1. \A k \in Blocks : t[k] \in Stored
        BY <1>2, <1>5
    <2>2. \A k \in Blocks : before[k] \in Stored
        BY <1>6, <2>1
    <2>. QED BY <1>4, <2>2
<1>8. WellFormed(before)
    <2>1. 0 \in Blocks /\ \A k \in 1..(Total - 1) : k \in Blocks /\ k - 1 \in Blocks
        BY <1>1, <1>5
    <2>. QED BY <1>2, <1>6, <2>1 DEF WellFormed
<1>9. CASE MallocCalled
    <2>1. CallInv
        BY <1>6, <1>7, <1>8, <1>9 DEF CallInv, MallocCalled
    <2>2. \A s \in Fits(before, n) : s + n > i
        BY <1>1, <1>9, <2>1 DEF Fits, MallocCalled, Blocks, CallInv
    <2>3. pc = "scan" /\ i = 0 /\ i \in 0..Total
        BY <1>1, <1>9 DEF MallocCalled
    <2>4. ScanInv
        BY <1>3, <2>2, <2>3 DEF ScanInv
    <2>. QED BY <2>1, <2>3, <2>4
             DEF LoopInv, ScannedInv, MarkInv, ClearInv, ScanResult, ClearResult
<1>10. CASE FreeCalled
    <2>1. pc = "clear" /\ b \in Blocks /\ IsFirst(before[b]) /\ i = b /\ n = 0
        BY <1>5, <1>10 DEF FreeCalled
    <2>2. CallInv
        BY <1>6, <1>7, <1>8, <2>1, RequestAssumption DEF CallInv
    <2>3. i \in b..Total /\ b..(i - 1) = {}
        BY <1>1, <1>5, <2>1
    <2>4. table = ClearedUpTo(i)
        BY <1>2, <1>3, <2>3 DEF ClearedUpTo
    <2>. QED BY <2>1, <2>2, <2>3, <2>4
             DEF LoopInv, ScanInv, ScannedInv, MarkInv, ClearInv, ScanResult, ClearResult
<1>. QED BY <1>9, <1>10 DEF LoopsInit

\* A taken entry ends the run of free entries.
LEMMA ScanTakenStep ==
    ASSUME LoopInv, ScanTaken
    PROVE  LoopInv'
<1>1. /\ pc = "scan" /\ pc' = "scan" /\ i < Total /\ ~IsFree(before[i])
      /\ bc' = 0 /\ bs' = -1 /\ i' = i + 1 /\ i \in 0..Total /\ Total \in Nat
      /\ table' = before' /\ before' = before /\ n' = n /\ n \in Nat
      /\ \A s \in Fits(before, n) : s + n > i
    BY HeapAssumption DEF LoopInv, CallInv, ScanInv, ScanTaken
<1>2. CallInv'
    BY <1>1 DEF LoopInv, CallInv, WellFormed
<1>3. ASSUME NEW s \in Fits(before, n)
      PROVE  s + n > i + 1
    <2>1. s \in Nat /\ n > 0 /\ \A k \in s..(s + n - 1) : IsFree(before[k])
        BY <1>1 DEF Fits, FreeRun, Blocks
    <2>2. s + n # i + 1
        <3>. SUFFICES ASSUME s + n = i + 1 PROVE FALSE
            OBVIOUS
        <3>1. i \in s..(s + n - 1)
            BY <1>1, <2>1
        <3>. QED BY <1>1, <2>1, <3>1
    <2>. QED BY <1>1, <2>1, <2>2
<1>4. ScanInv'
    <2>1. Fits(before, n)' = Fits(before, n)
        BY <1>1 DEF Fits, FreeRun
    <2>2. i' \in 0..Total /\ i' - 1 = i
        BY <1>1
    <2>. QED BY <1>1, <1>3, <2>1, <2>2 DEF ScanInv
<1>. QED BY <1>1, <1>2, <1>4
         DEF LoopInv, ScannedInv, MarkInv, ClearInv, ScanResult, ClearResult

\* A free entry extends the run; the run is returned when it is n long, and
\* then no fit starts below it.
LEMMA ScanFreeStep ==
    ASSUME LoopInv, ScanFree
    PROVE  LoopInv'
<1> DEFINE r == IF bs = -1 THEN i ELSE bs
<1>1. /\ pc = "scan" /\ i < Total /\ IsFree(before[i])
      /\ i \in Nat /\ Total \in Nat
      /\ bs' = r /\ bc' = bc + 1
      /\ table' = before' /\ before' = before /\ n' = n /\ n \in Nat
      /\ \A s \in Fits(before, n) : s + n > i
    BY HeapAssumption DEF LoopInv, CallInv, ScanInv, ScanFree
<1>2. /\ r \in 0..i /\ bc' = i + 1 - r
      /\ \A k \in r..i : IsFree(before[k])
      /\ r = 0 \/ ~IsFree(before[r - 1])
    <2>1. CASE bs = -1
        BY <1>1, <2>1 DEF LoopInv, ScanInv
    <2>2. CASE bs # -1
        <3>1. /\ bs \in 0..(i - 1) /\ bc = i - bs
              /\ \A k \in bs..(i - 1) : IsFree(before[k])
              /\ bs = 0 \/ ~IsFree(before[bs - 1])
            BY <1>1, <2>2 DEF LoopInv, ScanInv, FreeRun, RunStart
        <3>. QED BY <1>1, <2>2, <3>1
    <2>. QED BY <2>1, <2>2
<1>. HIDE DEF r
<1>3. ASSUME NEW s \in Fits(before, n)
      PROVE  /\ s \in Nat /\ n > 0 /\ s + n > i
             /\ \A k \in s..(s + n - 1) : IsFree(before[k])
    <2>1. s + n > i
        BY <1>1
    <2>2. s \in Nat /\ n > 0
        BY <1>1 DEF Fits, Blocks
    <2>3. \A k \in s..(s + n - 1) : IsFree(before[k])
        BY DEF Fits, FreeRun
    <2>. QED BY <2>1, <2>2, <2>3
<1>4. CallInv'
    BY <1>1 DEF LoopInv, CallInv, WellFormed, ScanFree
<1>5. Fits(before, n)' = Fits(before, n)
    BY <1>1 DEF Fits, FreeRun
<1>6. CASE bc' = n
    <2>1. pc' = "scanned"
        BY <1>6 DEF ScanFree
    <2>2. n > 0 /\ r + n = i + 1 /\ r \in Nat
        BY <1>1, <1>2, <1>6
    <2>3. r \in Fits(before, n)
        BY <1>1, <1>2, <2>2 DEF Fits, FreeRun, Blocks
    <2>4. \A s \in Fits(before, n) : r <= s
        BY <1>1, <1>3, <2>2
    <2>5. r \in heap_get_start_block(before, n)
        BY <2>3, <2>4 DEF heap_get_start_block, Candidates
    <2>6. heap_get_start_block(before, n)' = heap_get_start_block(before, n)
        BY <1>1, <1>5 DEF heap_get_start_block, Candidates, Tails, FreeRun
    <2>7. ScanResult' /\ bs' \in Blocks
        BY <1>1, <2>2, <2>5, <2>6 DEF ScanResult, Blocks
    <2>. QED BY <1>1, <1>4, <2>1, <2>7
             DEF LoopInv, ScanInv, ScannedInv, MarkInv, ClearInv, ClearResult
<1>7. CASE bc' # n
    <2>1. pc' = "scan" /\ i' = i + 1
        BY <1>1, <1>7 DEF ScanFree
    <2>2. ASSUME NEW s \in Fits(before, n), s + n = i + 1
          PROVE  FALSE
        <3>0. s \in Nat /\ n > 0 /\ \A k \in s..(s + n - 1) : IsFree(before[k])
            BY <1>3
        <3>1. s # r
            BY <1>1, <1>2, <1>7, <2>2
        <3>2. CASE s < r
            <4>1. r - 1 \in s..(s + n - 1) /\ r # 0
                BY <1>1, <1>2, <2>2, <3>0, <3>2
            <4>. QED BY <1>2, <3>0, <4>1
        <3>3. CASE s > r
            <4>1. r + n <= i /\ r \in Nat /\ \A k \in r..(r + n - 1) : k \in r..i
                BY <1>1, <1>2, <2>2, <3>0, <3>3
            <4>2. r \in Fits(before, n)
                BY <1>1, <1>2, <3>0, <4>1 DEF Fits, FreeRun, Blocks
            <4>. QED BY <1>1, <4>1, <4>2
        <3>. QED BY <1>2, <3>0, <3>1, <3>2, <3>3
    <2>3. \A s \in Fits(before, n) : s + n > i + 1
        BY <1>1, <1>3, <2>2
    <2>4. ScanInv'
        <3>1. i + 1 \in 0..Total /\ r \in 0..i /\ r # -1 /\ (i + 1) - 1 = i
            BY <1>1, <1>2
        <3>2. RunStart'
            BY <1>1, <1>2 DEF RunStart
        <3>3. FreeRun(before, bs, i - 1)'
            BY <1>1, <1>2, <2>1, <3>1 DEF FreeRun
        <3>. QED BY <1>1, <1>2, <1>5, <2>1, <2>3, <3>1, <3>2, <3>3 DEF ScanInv
    <2>. QED BY <1>4, <2>1, <2>4
             DEF LoopInv, ScannedInv, MarkInv, ClearInv, ScanResult, ClearResult
<1>. QED BY <1>6, <1>7

\* The end of the table: nothing fits, and the run that reaches the end is
\* the longest free tail.
LEMMA ScanEndStep ==
    ASSUME LoopInv, ScanEnd
    PROVE  LoopInv'
<1>1. /\ pc = "scan" /\ pc' = "scanned" /\ i = Total
      /\ Total \in Nat \ {0}
      /\ table' = before' /\ before' = before /\ n' = n /\ n \in Nat /\ bs' = bs
      /\ \A s \in Fits(before, n) : s + n > i
    BY HeapAssumption DEF LoopInv, CallInv, ScanInv, ScanEnd
<1>2. Fits(before, n) = {}
    <2>1. \A s \in Fits(before, n) : s + n <= Total /\ s \in Nat
        BY <1>1 DEF Fits, Blocks
    <2>. QED BY <1>1, <2>1
<1>3. Candidates(before, n) = Tails(before)
    BY <1>2 DEF Candidates
<1>4. \A s \in Tails(before) :
          s \in 0..(Total - 1) /\ \A k \in s..(Total - 1) : IsFree(before[k])
    BY DEF Tails, FreeRun, Blocks
<1>5. ASSUME bs = -1 PROVE Candidates(before, n) = {}
    <2>1. ~IsFree(before[Total - 1])
        BY <1>1, <1>5 DEF LoopInv, ScanInv
    <2>2. Tails(before) = {}
        <3>1. \A s \in Tails(before) : Total - 1 \in s..(Total - 1)
            BY <1>1, <1>4
        <3>. QED BY <1>4, <2>1, <3>1
    <2>. QED BY <1>3, <2>2
<1>6. ASSUME bs # -1 PROVE bs \in heap_get_start_block(before, n)
    <2>1. /\ bs \in 0..(Total - 1) /\ \A k \in bs..(Total - 1) : IsFree(before[k])
          /\ bs = 0 \/ ~IsFree(before[bs - 1])
        BY <1>1, <1>6 DEF LoopInv, ScanInv, FreeRun, RunStart
    <2>2. bs \in Tails(before)
        BY <2>1 DEF Tails, FreeRun, Blocks
    <2>3. ASSUME NEW s \in Tails(before)
          PROVE  bs <= s
        <3>. SUFFICES ASSUME s < bs PROVE FALSE
            BY <1>1, <1>4, <2>1
        <3>1. bs - 1 \in s..(Total - 1) /\ bs # 0
            BY <1>1, <1>4, <2>1
        <3>. QED BY <1>4, <2>1, <3>1
    <2>. QED BY <1>3, <2>1, <2>2, <2>3 DEF heap_get_start_block
<1>7. bs # -1 => bs \in Blocks
    BY <1>1 DEF LoopInv, ScanInv, Blocks
<1>8. CallInv'
    BY <1>1, CallKept DEF LoopInv
<1>9. ScanResult'
    BY <1>1, <1>5, <1>6 DEF ScanResult, heap_get_start_block, Candidates,
                      Fits, Tails, FreeRun
<1>. QED BY <1>1, <1>7, <1>8, <1>9
         DEF LoopInv, ScanInv, ScannedInv, MarkInv, ClearInv, ClearResult

\* A refusal and the end of the marking change the program counter only.
LEMMA RefuseStep ==
    ASSUME LoopInv, Refuse \/ MarkEnd
    PROVE  LoopInv'
<1>1. UNCHANGED <<table, before, n, b, i, bs, bc, entry>>
    BY DEF Refuse, MarkEnd
<1>2. CASE Refuse
    <2>1. pc = "scanned" /\ pc' = "refused" /\ table = before /\ bs = -1
        BY <1>2 DEF LoopInv, ScannedInv, Refuse
    <2>2. CallInv'
        BY <1>1, <2>1 DEF LoopInv, CallInv, WellFormed
    <2>3. ScanResult'
        BY <1>1, <2>1 DEF LoopInv, ScannedInv, ScanResult, heap_get_start_block,
                          Candidates, Fits, Tails, FreeRun
    <2>. QED BY <1>1, <2>1, <2>2, <2>3
             DEF LoopInv, ScanInv, ScannedInv, MarkInv, ClearInv, ClearResult
<1>3. CASE MarkEnd
    <2>1. /\ pc = "mark" /\ pc' = "marked" /\ bs \in Blocks
          /\ i \in bs..(bs + n) /\ i > bs + n - 1 /\ table = Marked(i) /\ n \in Nat
        BY <1>3 DEF LoopInv, CallInv, MarkInv, MarkEnd
    <2>2. CallInv'
        BY <1>1, <2>1 DEF LoopInv, CallInv, WellFormed
    <2>3. ScanResult'
        BY <1>1, <2>1 DEF LoopInv, ScannedInv, ScanResult, heap_get_start_block,
                          Candidates, Fits, Tails, FreeRun
    <2>4. i = bs + n
        BY <2>1 DEF Blocks
    <2>5. MarkInv'
        BY <1>1, <2>1, <2>4 DEF MarkInv, Marked
    <2>. QED BY <1>1, <2>1, <2>2, <2>3, <2>5
             DEF LoopInv, ScanInv, ScannedInv, ClearInv, ClearResult
<1>. QED BY <1>2, <1>3

\* The first entry byte: IS_FIRST, and HAS_NEXT if there is another block.
LEMMA MarkBeginStep ==
    ASSUME LoopInv, MarkBegin
    PROVE  LoopInv'
<1>1. /\ pc = "scanned" /\ pc' = "mark" /\ bs \in Blocks /\ bs # -1 /\ i' = bs
      /\ n \in Nat /\ bs \in Nat /\ table = before
      /\ UNCHANGED <<table, before, n, b, bs, bc>>
    BY DEF LoopInv, CallInv, ScannedInv, MarkBegin, Blocks
<1>2. CallInv'
    BY <1>1 DEF LoopInv, CallInv, WellFormed
<1>3. ScanResult'
    BY <1>1 DEF LoopInv, ScannedInv, ScanResult, heap_get_start_block,
                Candidates, Fits, Tails, FreeRun
<1>4. n > 0 => entry' = EntryByte(bs, bs, n)
    BY <1>1 DEF MarkBegin, EntryByte, HEAP_BLOCK_TABLE_ENTRY_TAKEN,
                HEAP_BLOCK_IS_FIRST, HEAP_BLOCK_HAS_NEXT
<1>5. before = Marked(bs)
    <2>1. bs..(bs - 1) = {}
        BY <1>1
    <2>. QED BY <2>1 DEF LoopInv, CallInv, Marked
<1>6. MarkInv'
    <2>1. bs \in bs..(bs + n) /\ (bs < bs + n => n > 0)
        BY <1>1
    <2>2. table' = Marked(i)'
        BY <1>1, <1>5 DEF Marked
    <2>. QED BY <1>1, <1>4, <2>1, <2>2 DEF MarkInv
<1>. QED BY <1>1, <1>2, <1>3, <1>6
         DEF LoopInv, ScanInv, ScannedInv, ClearInv, ClearResult

\* One entry is written and the next one is built.
LEMMA MarkStepStep ==
    ASSUME LoopInv, MarkStep
    PROVE  LoopInv'
<1>1. /\ pc = "mark" /\ pc' = "mark" /\ bs \in Blocks /\ bs \in Nat /\ n \in Nat
      /\ i \in bs..(bs + n) /\ i <= bs + n - 1 /\ i' = i + 1
      /\ table = Marked(i) /\ entry = EntryByte(i, bs, n)
      /\ table' = [table EXCEPT ![i] = entry]
      /\ UNCHANGED <<before, n, b, bs, bc>>
    <2>1. /\ pc = "mark" /\ pc' = pc /\ bs \in Blocks /\ n \in Nat
          /\ i \in bs..(bs + n) /\ i <= bs + n - 1 /\ i' = i + 1
          /\ table = Marked(i) /\ (i < bs + n => entry = EntryByte(i, bs, n))
          /\ table' = [table EXCEPT ![i] = entry]
          /\ UNCHANGED <<before, n, b, bs, bc>>
        BY DEF LoopInv, CallInv, MarkInv, MarkStep
    <2>2. bs \in Nat /\ i < bs + n
        BY <2>1 DEF Blocks
    <2>. QED BY <2>1, <2>2
<1>2. CallInv'
    <2>1. UNCHANGED <<before, n>> /\ pc' = "mark"
        BY <1>1
    <2>. QED BY <2>1 DEF LoopInv, CallInv, WellFormed
<1>3. ScanResult'
    BY <1>1 DEF LoopInv, ScannedInv, ScanResult, heap_get_start_block,
                Candidates, Fits, Tails, FreeRun
<1>4. entry' = EntryByte(i + 1, bs, n)
    BY <1>1 DEF MarkStep, EntryByte, HEAP_BLOCK_TABLE_ENTRY_TAKEN,
                HEAP_BLOCK_IS_FIRST, HEAP_BLOCK_HAS_NEXT
<1>5. table' = Marked(i + 1)
    <2>1. \A k \in Memory :
              k \in bs..((i + 1) - 1) <=> k = i \/ k \in bs..(i - 1)
        <3>1. \A k \in Memory : k \in Int
            BY HeapAssumption DEF Memory, LoopInv, CallInv
        <3>2. i \in Nat /\ i >= bs /\ bs \in Nat
            BY <1>1
        <3>. QED BY <3>1, <3>2
    <2>2. DOMAIN table = Memory
        BY <1>1 DEF Marked
    <2>3. table' = [k \in Memory |-> IF k = i THEN entry ELSE table[k]]
        BY <1>1, <2>2
    <2>4. \A k \in Memory : table[k] = IF k \in bs..(i - 1)
                                        THEN EntryByte(k, bs, n) ELSE before[k]
        BY <1>1 DEF Marked
    <2>. QED BY <1>1, <2>1, <2>3, <2>4 DEF Marked
<1>6. MarkInv'
    <2>1. i + 1 \in bs..(bs + n)
        BY <1>1
    <2>2. table' = Marked(i)'
        BY <1>1, <1>5 DEF Marked
    <2>3. entry' = EntryByte(i, bs, n)'
        BY <1>1, <1>4 DEF EntryByte
    <2>. QED BY <1>1, <2>1, <2>2, <2>3 DEF MarkInv
<1>. QED BY <1>1, <1>2, <1>3, <1>6
         DEF LoopInv, ScanInv, ScannedInv, ClearInv, ClearResult

(***************************************************************************)
(* Clearing the blocks of an allocation, b to e-1, of which all but the    *)
(* last have HAS_NEXT, and the last one only if the table ends there, is   *)
(* what heap_mark_block_free computes and keeps the table well formed.     *)
(***************************************************************************)
LEMMA ClearDone ==
    ASSUME CallInv, b \in Blocks, IsFirst(before[b]),
           NEW e \in (b + 1)..Total,
           \A j \in b..(e - 2) : HasNext(before[j]),
           e = Total \/ ~HasNext(before[e - 1])
    PROVE  /\ ClearedUpTo(e) = heap_mark_block_free(before, b)
           /\ WellFormed(ClearedUpTo(e))
<1>1. /\ Total \in Nat \ {0} /\ b \in Nat /\ b < Total /\ e \in Nat
      /\ b < e /\ e <= Total /\ Blocks = 0..(Total - 1)
      /\ Blocks \subseteq Memory
    BY HeapAssumption, RequestAssumption DEF Blocks, Memory
<1>2. ASSUME NEW k \in Memory
      PROVE  k \in Cleared(before, b) <=> k \in b..(e - 1)
    <2>1. k \in Int
        BY HeapAssumption DEF Memory, CallInv
    <2>2. ASSUME k \in b..(e - 1)
          PROVE  k \in b..(Total - 1) /\ \A j \in b..(k - 1) : HasNext(before[j])
        BY <1>1, <2>1, <2>2
    <2>3. ASSUME k \in b..(Total - 1), \A j \in b..(k - 1) : HasNext(before[j])
          PROVE  k \in b..(e - 1)
        <3>. SUFFICES ASSUME k >= e PROVE FALSE
            BY <1>1, <2>1, <2>3
        <3>1. e - 1 \in b..(k - 1) /\ e # Total
            BY <1>1, <2>1, <2>3
        <3>. QED BY <2>3, <3>1
    <2>. QED BY <2>2, <2>3 DEF Cleared
<1>3. ClearedUpTo(e) = heap_mark_block_free(before, b)
    <2>1. DOMAIN before = Memory
        BY DEF CallInv
    <2>. QED BY <1>2, <2>1 DEF ClearedUpTo, heap_mark_block_free,
                               HEAP_BLOCK_TABLE_ENTRY_FREE
<1> DEFINE t == ClearedUpTo(e)
<1>4. \A k \in Blocks : t[k] = IF k \in b..(e - 1) THEN 0 ELSE before[k]
    BY <1>1 DEF ClearedUpTo
<1>. HIDE DEF t
<1>5. ~IsLater(0) /\ ~HasNext(0)
    BY DEF IsLater, HasNext, HEAP_BLOCK_HAS_NEXT
<1>6. /\ ~IsLater(before[0])
      /\ \A k \in 1..(Total - 1) : IsLater(before[k]) <=> HasNext(before[k - 1])
    BY DEF CallInv, WellFormed
<1>7. ~IsLater(before[b])
    BY DEF IsFirst, IsLater
<1>8. ~IsLater(t[0])
    BY <1>1, <1>4, <1>5, <1>6
<1>9. ASSUME NEW k \in 1..(Total - 1)
      PROVE  IsLater(t[k]) <=> HasNext(t[k - 1])
    <2>1. k \in Blocks /\ k - 1 \in Blocks /\ k \in Nat
        BY <1>1
    <2>2. CASE k \in b..(e - 1) /\ k - 1 \in b..(e - 1)
        BY <1>4, <1>5, <2>1, <2>2
    <2>3. CASE k \in b..(e - 1) /\ k - 1 \notin b..(e - 1)
        <3>1. k = b
            BY <1>1, <2>1, <2>3
        <3>. QED BY <1>4, <1>5, <1>6, <1>7, <2>1, <2>3, <3>1
    <2>4. CASE k \notin b..(e - 1) /\ k - 1 \in b..(e - 1)
        <3>1. k = e /\ e # Total
            BY <1>1, <2>1, <2>4
        <3>2. ~HasNext(before[k - 1])
            BY <3>1
        <3>. QED BY <1>4, <1>5, <1>6, <2>1, <2>4, <3>2
    <2>5. CASE k \notin b..(e - 1) /\ k - 1 \notin b..(e - 1)
        BY <1>4, <1>6, <2>1, <2>5
    <2>. QED BY <2>2, <2>3, <2>4, <2>5
<1>. QED BY <1>3, <1>8, <1>9 DEF WellFormed, t

\* The end of the clearing: the table that heap_free leaves behind.
LEMMA ClearedInv ==
    ASSUME LoopInv, pc' = "cleared", UNCHANGED <<before, n, b>>,
           NEW e, table' = ClearedUpTo(e),
           ClearedUpTo(e) = heap_mark_block_free(before, b),
           WellFormed(ClearedUpTo(e))
    PROVE  LoopInv'
<1>1. CallInv'
    BY DEF LoopInv, CallInv, WellFormed
<1>2. heap_mark_block_free(before, b)' = heap_mark_block_free(before, b)
    BY DEF heap_mark_block_free, Cleared
<1>3. WellFormed(table)'
    BY DEF WellFormed
<1>4. ClearResult'
    BY <1>2, <1>3 DEF ClearResult
<1>. QED BY <1>1, <1>4
         DEF LoopInv, ScanInv, ScannedInv, MarkInv, ClearInv, ScanResult

\* One entry is read, cleared and, if it has HAS_NEXT, followed by the next.
LEMMA ClearStepStep ==
    ASSUME LoopInv, ClearStep
    PROVE  LoopInv'
<1>1. /\ pc = "clear" /\ b \in Blocks /\ IsFirst(before[b])
      /\ b \in Nat /\ Total \in Nat
      /\ i \in b..Total /\ i < Total /\ table = ClearedUpTo(i)
      /\ \A j \in b..(i - 1) : HasNext(before[j])
      /\ table' = [table EXCEPT ![i] = 0]
      /\ UNCHANGED <<before, n, b, bs, bc>>
    BY HeapAssumption DEF LoopInv, ClearInv, ClearStep, Blocks,
                          HEAP_BLOCK_TABLE_ENTRY_FREE
<1>2. \A k \in Memory : k \in Int
    BY HeapAssumption DEF Memory, LoopInv, CallInv
<1>3. i \in Memory /\ i \in Nat
    BY <1>1, HeapAssumption, RequestAssumption DEF Memory, LoopInv, CallInv
<1>4. \A k \in Memory : table[k] = IF k \in b..(i - 1) THEN 0 ELSE before[k]
    BY <1>1 DEF ClearedUpTo
<1>5. table[i] = before[i]
    <2>1. i \notin b..(i - 1)
        BY <1>3
    <2>. QED BY <1>3, <1>4, <2>1
<1>6. table' = ClearedUpTo(i + 1)
    <2>1. DOMAIN table = Memory
        BY <1>1 DEF ClearedUpTo
    <2>2. table' = [k \in Memory |-> IF k = i THEN 0 ELSE table[k]]
        BY <1>1, <2>1
    <2>3. \A k \in Memory : k \in b..((i + 1) - 1) <=> k = i \/ k \in b..(i - 1)
        BY <1>1, <1>2
    <2>. QED BY <1>4, <2>2, <2>3 DEF ClearedUpTo
<1>7. CASE ~HasNext(table[i])
    <2>1. pc' = "cleared"
        BY <1>7 DEF ClearStep
    <2>2. /\ i + 1 \in (b + 1)..Total /\ (i + 1) - 1 = i
          /\ \A j \in b..((i + 1) - 2) : j \in b..(i - 1)
        BY <1>1
    <2>3. /\ ClearedUpTo(i + 1) = heap_mark_block_free(before, b)
          /\ WellFormed(ClearedUpTo(i + 1))
        <3>1. CallInv
            BY DEF LoopInv
        <3>. QED BY <1>1, <1>5, <1>7, <2>2, <3>1, ClearDone
    <2>. QED BY <1>1, <1>6, <2>1, <2>3, ClearedInv
<1>8. CASE HasNext(table[i])
    <2>1. pc' = "clear" /\ i' = i + 1
        BY <1>1, <1>8 DEF ClearStep
    <2>2. CallInv'
        BY <1>1, <2>1 DEF LoopInv, CallInv, WellFormed
    <2>3. i + 1 \in b..Total /\ (i + 1) - 1 = i
        BY <1>1
    <2>4. \A j \in b..i : HasNext(before[j])
        <3>1. \A j \in b..i : j = i \/ j \in b..(i - 1)
            BY <1>1
        <3>. QED BY <1>1, <1>5, <1>8, <3>1
    <2>5. table' = ClearedUpTo(i)'
        BY <1>1, <1>6, <2>1 DEF ClearedUpTo
    <2>6. (\A j \in b..(i - 1) : HasNext(before[j]))'
        BY <1>1, <2>1, <2>3, <2>4
    <2>7. ClearInv'
        BY <1>1, <2>1, <2>3, <2>5, <2>6 DEF ClearInv, ClearResult
    <2>. QED BY <2>1, <2>2, <2>7
             DEF LoopInv, ScanInv, ScannedInv, MarkInv, ScanResult
<1>. QED BY <1>7, <1>8

\* The loop also stops where the table ends.
LEMMA ClearEndStep ==
    ASSUME LoopInv, ClearEnd
    PROVE  LoopInv'
<1>1. /\ pc = "clear" /\ pc' = "cleared" /\ b \in Blocks /\ IsFirst(before[b])
      /\ b \in Nat /\ Total \in Nat /\ b < Total
      /\ i = Total /\ table' = ClearedUpTo(Total)
      /\ \A j \in b..(Total - 1) : HasNext(before[j])
      /\ UNCHANGED <<before, n, b, bs, bc>>
    BY HeapAssumption DEF LoopInv, ClearInv, ClearEnd, Blocks
<1>2. Total \in (b + 1)..Total /\ \A j \in b..(Total - 2) : j \in b..(Total - 1)
    BY <1>1
<1>3. /\ ClearedUpTo(Total) = heap_mark_block_free(before, b)
      /\ WellFormed(ClearedUpTo(Total))
    <2>1. CallInv
        BY DEF LoopInv
    <2>. QED BY <1>1, <1>2, <2>1, ClearDone
<1>. QED BY <1>1, <1>3, ClearedInv

(***************************************************************************)
(* For every table that calls of heap_malloc and heap_free can leave       *)
(* behind, of any length, and every request: the block found, the bytes    *)
(* written and cleared and the refusals of the three loops of heap.c are   *)
(* the ones that module HeapTable states as closed forms.                  *)
(***************************************************************************)
THEOREM LoopsComputeTable == LoopsSpec => []LoopResults
<1>1. LoopsInit => LoopInv
    BY LoopInit
<1>2. LoopInv /\ [LoopsNext]_loopVars => LoopInv'
    <2>. SUFFICES ASSUME LoopInv, [LoopsNext]_loopVars PROVE LoopInv'
        OBVIOUS
    <2>1. CASE LoopsNext
        BY <2>1, ScanTakenStep, ScanFreeStep, ScanEndStep, RefuseStep,
           MarkBeginStep, MarkStepStep, ClearStepStep, ClearEndStep DEF LoopsNext
    <2>2. CASE UNCHANGED loopVars
        <3>1. UNCHANGED <<table, before, n, b, pc, i, bs, bc, entry>>
            BY <2>2 DEF loopVars
        <3>2. CallInv'
            BY <3>1 DEF LoopInv, CallInv, WellFormed
        <3>3. Fits(before, n)' = Fits(before, n)
            BY <3>1 DEF Fits, FreeRun
        <3>4. ScanInv'
            BY <3>1, <3>3 DEF LoopInv, ScanInv, RunStart, FreeRun
        <3>5. Candidates(before, n)' = Candidates(before, n)
            BY <3>1, <3>3 DEF Candidates, Tails, FreeRun
        <3>6. ScannedInv'
            BY <3>1, <3>5 DEF LoopInv, ScannedInv, ScanResult, heap_get_start_block
        <3>7. MarkInv'
            BY <3>1 DEF LoopInv, MarkInv, Marked
        <3>8. ClearInv'
            BY <3>1 DEF LoopInv, ClearInv, ClearedUpTo, ClearResult, WellFormed,
                        heap_mark_block_free, Cleared
        <3>. QED BY <3>2, <3>4, <3>6, <3>7, <3>8 DEF LoopInv
    <2>. QED BY <2>1, <2>2
<1>3. LoopInv => LoopResults
    <2>. SUFFICES ASSUME LoopInv PROVE LoopResults
        OBVIOUS
    <2>1. ScanResult /\ ClearResult
        BY DEF LoopInv, ScannedInv, ClearInv
    <2>2. pc = "refused" => Fits(before, n) = {}
        BY <2>1 DEF ScanResult, Candidates, LoopInv, ScannedInv
    <2>3. pc = "marked" =>
              \A s \in Fits(before, n) : bs \in Fits(before, n) /\ bs <= s
        <3>. SUFFICES ASSUME pc = "marked", NEW s \in Fits(before, n)
                      PROVE  bs \in Fits(before, n) /\ bs <= s
            OBVIOUS
        <3>1. bs \in heap_get_start_block(before, n)
            BY <2>1 DEF LoopInv, MarkInv, Blocks, ScanResult
        <3>. QED BY <3>1 DEF heap_get_start_block, Candidates
    <2>4. MarkResult
        <3>1. DOMAIN before = Memory
            BY DEF LoopInv, CallInv
        <3>2. pc = "marked" => bs \in Nat /\ n \in Nat /\ (bs + n) - 1 = bs + n - 1
            BY DEF LoopInv, CallInv, MarkInv, Blocks
        <3>3. pc = "marked" => table = Marked(bs + n)
            BY DEF LoopInv, MarkInv
        <3>. QED BY <3>1, <3>2, <3>3 DEF Marked, MarkResult, heap_mark_blocks_taken
    <2>. QED BY <2>1, <2>2, <2>3, <2>4 DEF LoopResults, FirstFit
<1>. QED BY <1>1, <1>2, <1>3, PTL DEF LoopsSpec
=============================================================================
