---------------------------- MODULE HeapProofs -----------------------------
(***************************************************************************)
(* Proofs about Heap, for every size of the pool, of a block and of the    *)
(* word, and every set of requests that round to at least one block; and   *)
(* about HeapLoops: the loops of heap.c implement Heap for every pool and  *)
(* every set of requests, those of zero blocks included.                   *)
(***************************************************************************)
EXTENDS HeapLoops, TLAPS

\* A whole number of blocks divides back to the number.
LEMMA DivCancel ==
    ASSUME NEW b \in Int, NEW d \in Nat \ {0}
    PROVE  (b * d) \div d = b
  OBVIOUS

\* heap_address_to_block undoes heap_block_to_address.
LEMMA RoundTrip ==
    ASSUME NEW b \in Blocks
    PROVE  heap_address_to_block(heap_block_to_address(b)) = b
<1>1. b \in Int /\ BlockSize \in Nat \ {0} /\ LowBlocks \in Nat
  BY HeapAssumption DEF Blocks
<1>2. (LowBlocks * BlockSize + b * BlockSize) - LowBlocks * BlockSize = b * BlockSize
  BY <1>1
<1> QED
  BY <1>1, <1>2, DivCancel DEF heap_address_to_block, heap_block_to_address, saddr

\* Address 0 is taken for the block LowBlocks below the pool.
LEMMA NullBlock == heap_address_to_block(0) = -LowBlocks
<1>1. -LowBlocks \in Int /\ BlockSize \in Nat \ {0} /\ LowBlocks \in Nat
  BY HeapAssumption
<1>2. 0 - LowBlocks * BlockSize = (-LowBlocks) * BlockSize
  BY <1>1
<1> QED
  BY <1>1, <1>2, DivCancel DEF heap_address_to_block, saddr

\* A request is a natural number of blocks.
LEMMA BlocksOfType ==
    ASSUME NEW size \in Sizes
    PROVE  BlocksOf(size) \in Nat
<1>1. size \in 0 .. WordSize - 1
  BY SizesAssumption
<1> QED
  BY <1>1, HeapAssumption DEF BlocksOf, heap_align_value_to_upper

\* The bytes of a chain: never free, and HAS_NEXT on all but the last block.
LEMMA EntryFacts ==
    ASSUME NEW s \in Int, NEW n \in Nat, NEW j \in Int
    PROVE  /\ EntryOf(s, n, j) \in Byte
           /\ heap_get_entry_type(EntryOf(s, n, j)) # HEAP_BLOCK_TABLE_ENTRY_FREE
           /\ HasNext(EntryOf(s, n, j)) <=> j < s + n - 1
  BY DEF EntryOf, Byte, heap_get_entry_type, HasNext, HEAP_BLOCK_TABLE_ENTRY_FREE,
         HEAP_BLOCK_TABLE_ENTRY_TAKEN, HEAP_BLOCK_IS_FIRST, HEAP_BLOCK_HAS_NEXT

-----------------------------------------------------------------------------
\* Every live allocation has a block.
LiveNonempty == \A a \in live : a.blocks >= 1

\* The inductive invariant: NoOverlap needs the table to be exact, the exactness of
\* the table needs chains that do not meet and a stop below the table.
IInv == TypeOK /\ NoOverlap /\ TableExact /\ NullWalkStops /\ LiveNonempty

\* A free block belongs to no live allocation.
LEMMA FreeIsUnowned ==
    ASSUME TypeOK, TableExact, NEW j \in Blocks, IsFree(entries, j), NEW a \in live
    PROVE  j \notin Extent(a)
<1>1. a.start \in Int /\ a.blocks \in Nat /\ j \in Int
  BY HeapAssumption DEF TypeOK, Blocks
<1> QED
  BY <1>1, EntryFacts DEF TableExact, IsFree

\* heap_mark_blocks_free of a live allocation clears that allocation and nothing
\* else.
LEMMA FreeExact ==
    ASSUME TypeOK, TableExact, LiveNonempty, NEW a \in live, NEW j \in Indexes
    PROVE  heap_mark_blocks_free(entries, a.start)[j]
             = IF j \in Extent(a) THEN HEAP_BLOCK_TABLE_ENTRY_FREE ELSE entries[j]
<1>1. /\ a.start \in Blocks /\ a.blocks \in Nat /\ a.blocks >= 1
      /\ TotalBlocks \in Nat /\ LowBlocks \in Nat
  BY HeapAssumption DEF TypeOK, LiveNonempty
<1>2. ASSUME j \in Extent(a), NEW k \in a.start .. j - 1
      PROVE  HasNext(entries[k])
  <2>1. k \in Extent(a) /\ k < a.start + a.blocks - 1 /\ k \in Int
    BY <1>1, <1>2 DEF Extent, Blocks
  <2> QED
    BY <1>1, <2>1, EntryFacts DEF TableExact, Blocks
<1>3. ASSUME j \notin Extent(a), a.start <= j
      PROVE  \E k \in a.start .. j - 1 : ~HasNext(entries[k])
  <2> DEFINE k == a.start + a.blocks - 1
  <2>1. k \in a.start .. j - 1 /\ k \in Extent(a)
    BY <1>1, <1>3 DEF Extent, Blocks, Indexes
  <2>2. ~HasNext(entries[k])
    BY <1>1, <2>1, EntryFacts DEF TableExact, Blocks
  <2> QED
    BY <2>1, <2>2
<1>4. j \in Extent(a) => a.start <= j
  BY DEF Extent
<1> QED
  BY <1>2, <1>3, <1>4 DEF heap_mark_blocks_free

\* heap_free(0) clears nothing in the table.
LEMMA NullFreeExact ==
    ASSUME TypeOK, NullWalkStops, NEW j \in Blocks
    PROVE  heap_mark_blocks_free(entries, -LowBlocks)[j] = entries[j]
<1>1. PICK low \in LowBytes : ~HasNext(entries[low])
  BY DEF NullWalkStops
<1>2. low \in -LowBlocks .. j - 1 /\ j \in Indexes
  BY HeapAssumption DEF LowBytes, Blocks, Indexes
<1> QED
  BY <1>1, <1>2 DEF heap_mark_blocks_free

\* The walk from below the table writes zeroes, so that a byte that stops it stays.
LEMMA NullFreeStops ==
    ASSUME TypeOK, NullWalkStops
    PROVE  \E low \in LowBytes : ~HasNext(heap_mark_blocks_free(entries, -LowBlocks)[low])
<1>1. PICK low \in LowBytes : ~HasNext(entries[low])
  BY DEF NullWalkStops
<1>2. low \in Indexes
  BY HeapAssumption DEF LowBytes, Indexes
<1> QED
  BY <1>1, <1>2 DEF heap_mark_blocks_free, HasNext, HEAP_BLOCK_TABLE_ENTRY_FREE,
                    HEAP_BLOCK_HAS_NEXT

-----------------------------------------------------------------------------
\* What a successful heap_malloc does: the extent it hands out is unowned.
LEMMA MallocUnowned ==
    ASSUME IInv, NEW n \in Nat, n >= 1, NEW s \in heap_get_start_block(entries, n), s >= 0
    PROVE  /\ s \in Blocks
           /\ s \in Extent([start |-> s, blocks |-> n])
           /\ \A a \in live : Extent([start |-> s, blocks |-> n]) \cap Extent(a) = {}
           /\ [start |-> s, blocks |-> n] \notin live
<1> DEFINE new == [start |-> s, blocks |-> n]
<1>1. s \in Candidates(entries, n)
  BY DEF heap_get_start_block, ENOMEM
<1>2. s \in Blocks /\ \A j \in Extent(new) : IsFree(entries, j)
  BY <1>1 DEF Candidates, Extent
<1>3. s \in Extent(new)
  BY <1>2 DEF Extent, Blocks
<1>4. \A a \in live : Extent(new) \cap Extent(a) = {}
  BY <1>2, FreeIsUnowned DEF IInv, Extent
<1> QED
  BY <1>2, <1>3, <1>4

\* heap_malloc keeps the invariant.
LEMMA MallocStep ==
    ASSUME IInv, NonzeroRequests, NEW size \in Sizes, heap_malloc(size)
    PROVE  IInv'
<1> DEFINE n == BlocksOf(size)
<1>1. n \in Nat /\ n >= 1
  BY BlocksOfType DEF NonzeroRequests
<1>2. PICK s \in heap_get_start_block(entries, n) :
        IF s < 0
        THEN UNCHANGED vars
        ELSE /\ entries' = heap_mark_blocks_taken(entries, s, n)
             /\ live' = live \cup {[start |-> s, blocks |-> n]}
  BY DEF heap_malloc, heap_malloc_blocks
<1>3. CASE s < 0
  BY <1>2, <1>3 DEF IInv, TypeOK, NoOverlap, TableExact, NullWalkStops, LiveNonempty, vars
<1>4. CASE ~(s < 0)
  <2> DEFINE new == [start |-> s, blocks |-> n]
  <2>1. s \in Int
    BY DEF heap_get_start_block, Candidates, ENOMEM, Blocks
  <2>2. /\ s \in Blocks /\ s \in Extent(new)
        /\ \A a \in live : Extent(new) \cap Extent(a) = {}
    BY <1>1, <1>4, <2>1, MallocUnowned
  <2>3. live' = live \cup {new} /\ entries' = heap_mark_blocks_taken(entries, s, n)
    BY <1>2, <1>4
  <2>4. \A j \in Indexes : entries'[j] = IF j \in Extent(new) THEN EntryOf(s, n, j)
                                                              ELSE entries[j]
    BY <2>2, <2>3 DEF heap_mark_blocks_taken, Extent, Indexes, Blocks
  <2>5. TypeOK'
    BY <1>1, <2>1, <2>2, <2>3, EntryFacts DEF IInv, TypeOK, heap_mark_blocks_taken, Indexes
  <2>6. NoOverlap'
    BY <2>2, <2>3 DEF IInv, NoOverlap, Extent
  <2>7. TableExact'
    <3>1. ASSUME NEW a \in live', NEW j \in Extent(a)
          PROVE  entries'[j] = EntryOf(a.start, a.blocks, j)
      BY <2>2, <2>3, <2>4, HeapAssumption DEF IInv, TableExact, Extent, Blocks, Indexes
    <3>2. ASSUME NEW j \in Blocks, \A a \in live' : j \notin Extent(a)
          PROVE  entries'[j] = HEAP_BLOCK_TABLE_ENTRY_FREE
      BY <2>3, <2>4, <3>2, HeapAssumption DEF IInv, TableExact, Blocks, Indexes
    <3> QED
      BY <3>1, <3>2 DEF TableExact, Extent
  <2>8. NullWalkStops'
    BY <2>4, HeapAssumption DEF IInv, NullWalkStops, LowBytes, Indexes, Extent, Blocks
  <2>9. LiveNonempty'
    BY <1>1, <2>3 DEF IInv, LiveNonempty
  <2> QED
    BY <2>5, <2>6, <2>7, <2>8, <2>9 DEF IInv
<1> QED
  BY <1>3, <1>4

\* heap_free of a live pointer keeps the invariant.
LEMMA FreeStep ==
    ASSUME IInv, NEW a \in live, heap_free(a)
    PROVE  IInv'
<1>1. a.start \in Blocks /\ a.blocks \in Nat
  BY DEF IInv, TypeOK
<1>2. entries' = heap_mark_blocks_free(entries, a.start) /\ live' = live \ {a}
  BY <1>1, RoundTrip DEF heap_free
<1>3. \A j \in Indexes : entries'[j] = IF j \in Extent(a) THEN HEAP_BLOCK_TABLE_ENTRY_FREE
                                                          ELSE entries[j]
  BY <1>2, FreeExact DEF IInv
<1>4. TypeOK'
  BY <1>2 DEF IInv, TypeOK, heap_mark_blocks_free, Byte, HEAP_BLOCK_TABLE_ENTRY_FREE
<1>5. NoOverlap'
  BY <1>2 DEF IInv, NoOverlap, Extent
<1>6. TableExact'
  <2>1. ASSUME NEW b \in live', NEW j \in Extent(b)
        PROVE  entries'[j] = EntryOf(b.start, b.blocks, j)
    <3>1. j \notin Extent(a) /\ j \in Blocks
      BY <1>2, <2>1 DEF IInv, NoOverlap, Extent
    <3>2. entries'[j] = entries[j]
      BY <1>3, <3>1, HeapAssumption DEF Blocks, Indexes
    <3> QED
      BY <1>2, <2>1, <3>2 DEF IInv, TableExact
  <2>2. ASSUME NEW j \in Blocks, \A b \in live' : j \notin Extent(b)
        PROVE  entries'[j] = HEAP_BLOCK_TABLE_ENTRY_FREE
    BY <1>2, <1>3, <2>2, HeapAssumption DEF IInv, TableExact, Blocks, Indexes
  <2> QED
    BY <2>1, <2>2 DEF TableExact, Extent
<1>7. NullWalkStops'
  BY <1>3, HeapAssumption DEF IInv, NullWalkStops, LowBytes, Indexes, Extent, Blocks
<1>8. LiveNonempty'
  BY <1>2 DEF IInv, LiveNonempty
<1> QED
  BY <1>4, <1>5, <1>6, <1>7, <1>8 DEF IInv

\* heap_free(0) keeps the invariant.
LEMMA FreeNullStep ==
    ASSUME IInv, heap_free_null
    PROVE  IInv'
<1>1. entries' = heap_mark_blocks_free(entries, -LowBlocks) /\ live' = live
  BY NullBlock DEF heap_free_null
<1>2. \A j \in Blocks : entries'[j] = entries[j]
  BY <1>1, NullFreeExact DEF IInv
<1>3. TypeOK'
  BY <1>1 DEF IInv, TypeOK, heap_mark_blocks_free, Byte, HEAP_BLOCK_TABLE_ENTRY_FREE
<1>4. NoOverlap' /\ LiveNonempty'
  BY <1>1 DEF IInv, NoOverlap, LiveNonempty, Extent
<1>5. TableExact'
  BY <1>1, <1>2 DEF IInv, TableExact, Extent
<1>6. NullWalkStops'
  BY <1>1, NullFreeStops DEF IInv, NullWalkStops
<1> QED
  BY <1>3, <1>4, <1>5, <1>6 DEF IInv

\* Init establishes the invariant.
LEMMA InitIInv == Init => IInv
<1> SUFFICES ASSUME Init PROVE IInv
  OBVIOUS
<1>1. entries \in [Indexes -> Byte] /\ live = {}
  <2>1. BootBytes \cup {HEAP_BLOCK_TABLE_ENTRY_FREE} \subseteq Byte
    BY BootAssumption DEF Byte, HEAP_BLOCK_TABLE_ENTRY_FREE
  <2>2. entries \in [Indexes -> BootBytes \cup {HEAP_BLOCK_TABLE_ENTRY_FREE}] /\ live = {}
    BY DEF Init
  <2> QED
    BY <2>1, <2>2
<1>2. \A j \in Blocks : entries[j] = HEAP_BLOCK_TABLE_ENTRY_FREE
  BY DEF Init
<1>3. NullWalkStops
  BY DEF Init, NullWalkStops
<1> QED
  BY <1>1, <1>2, <1>3 DEF IInv, TypeOK, NoOverlap, TableExact, LiveNonempty

\* Every step keeps the invariant.
LEMMA NextIInv == IInv /\ NonzeroRequests /\ [Next]_vars => IInv'
<1> SUFFICES ASSUME IInv, NonzeroRequests, [Next]_vars PROVE IInv'
  OBVIOUS
<1>1. CASE \E size \in Sizes : heap_malloc(size)
  BY <1>1, MallocStep
<1>2. CASE \E a \in live : heap_free(a)
  BY <1>2, FreeStep
<1>3. CASE heap_free_null
  BY <1>3, FreeNullStep
<1>4. CASE UNCHANGED vars
  BY <1>4 DEF IInv, TypeOK, NoOverlap, TableExact, NullWalkStops, LiveNonempty, vars, Extent
<1> QED
  BY <1>1, <1>2, <1>3, <1>4 DEF Next

\* The inductive invariant holds in every behaviour of the heap whose requests
\* round to at least one block.
THEOREM HeapInvariant ==
    ASSUME NonzeroRequests
    PROVE  Spec => []IInv
<1>1. IInv /\ [Next]_vars => IInv'
  BY NextIInv
<1> QED
  BY <1>1, InitIInv, PTL DEF Spec

\* The heap never hands a block to two callers, for every pool, block size and set
\* of requests of at least one block.
THEOREM HeapNoOverlap ==
    ASSUME NonzeroRequests
    PROVE  Spec => []NoOverlap
<1>1. IInv => NoOverlap
  BY DEF IInv
<1> QED
  BY <1>1, HeapInvariant, PTL

\* The block table is exact in every reachable state: no leak and no chain that
\* runs into another's.
THEOREM HeapTableExact ==
    ASSUME NonzeroRequests
    PROVE  Spec => []TableExact
<1>1. IInv => TableExact
  BY DEF IInv
<1> QED
  BY <1>1, HeapInvariant, PTL

\* The block table stays a table of bytes.
THEOREM HeapTypeOK ==
    ASSUME NonzeroRequests
    PROVE  Spec => []TypeOK
<1>1. IInv => TypeOK
  BY DEF IInv
<1> QED
  BY <1>1, HeapInvariant, PTL

\* heap_free(0), which starts below the table, always stops before the entry of block 0.
THEOREM HeapNullWalkStops ==
    ASSUME NonzeroRequests
    PROVE  Spec => []NullWalkStops
<1>1. IInv => NullWalkStops
  BY DEF IInv
<1> QED
  BY <1>1, HeapInvariant, PTL

-----------------------------------------------------------------------------
\* No call of the heap writes the entries of an allocation that stays live.
THEOREM HeapOthersUntouched ==
    ASSUME NonzeroRequests
    PROVE  Spec => OthersUntouched
<1> DEFINE Untouched == \A a \in live \cap live' : \A j \in Extent(a) : entries'[j] = entries[j]
<1>1. IInv /\ [Next]_vars => [Untouched]_vars
  <2> SUFFICES ASSUME IInv, Next, NEW a \in live, a \in live', NEW j \in Extent(a)
               PROVE  entries'[j] = entries[j]
    BY DEF Extent
  <2>1. j \in Blocks /\ j \in Indexes
    BY HeapAssumption DEF Extent, Blocks, Indexes
  <2>2. CASE \E size \in Sizes : heap_malloc(size)
    <3>1. PICK size \in Sizes : heap_malloc(size)
      BY <2>2
    <3> DEFINE n == BlocksOf(size)
    <3>2. n \in Nat /\ n >= 1
      BY BlocksOfType DEF NonzeroRequests
    <3>3. PICK s \in heap_get_start_block(entries, n) :
            IF s < 0
            THEN UNCHANGED vars
            ELSE entries' = heap_mark_blocks_taken(entries, s, n)
      BY <3>1 DEF heap_malloc, heap_malloc_blocks
    <3>4. s \in Int
      BY DEF heap_get_start_block, Candidates, ENOMEM, Blocks
    <3>5. CASE s < 0
      BY <3>3, <3>5 DEF vars
    <3>6. CASE s >= 0
      <4>1. j \notin Extent([start |-> s, blocks |-> n])
        BY <3>2, <3>6, MallocUnowned DEF IInv
      <4>2. ~(s <= j /\ j < s + n)
        BY <2>1, <4>1 DEF Extent
      <4>3. entries' = heap_mark_blocks_taken(entries, s, n)
        BY <3>3, <3>4, <3>6
      <4> QED
        BY <2>1, <4>2, <4>3 DEF heap_mark_blocks_taken
    <3> QED
      BY <3>4, <3>5, <3>6
  <2>3. CASE \E b \in live : heap_free(b)
    <3>1. PICK b \in live : heap_free(b)
      BY <2>3
    <3>2. entries' = heap_mark_blocks_free(entries, b.start) /\ live' = live \ {b}
      BY <3>1, RoundTrip DEF heap_free, IInv, TypeOK
    <3>3. j \notin Extent(b)
      BY <3>2 DEF IInv, NoOverlap, Extent
    <3> QED
      BY <2>1, <3>2, <3>3, FreeExact DEF IInv
  <2>4. CASE heap_free_null
    BY <2>1, <2>4, NullBlock, NullFreeExact DEF heap_free_null, IInv
  <2> QED
    BY <2>2, <2>3, <2>4 DEF Next
<1>2. Spec => []IInv
  BY HeapInvariant
<1> QED
  BY <1>1, <1>2, PTL DEF Spec, OthersUntouched

\* A block is free in the table exactly when no live allocation covers it.
LEMMA UnheldIsFree ==
    ASSUME IInv
    PROVE  \A j \in Blocks : j \in Alloc!Unheld <=> IsFree(entries, j)
<1> SUFFICES ASSUME NEW j \in Blocks PROVE j \in Alloc!Unheld <=> IsFree(entries, j)
  OBVIOUS
<1>1. \A a : Alloc!Extent(a) = Extent(a)
  BY DEF Alloc!Extent, Extent, Blocks
<1>2. j \in Alloc!Unheld <=> \A a \in live : j \notin Extent(a)
  BY <1>1 DEF Alloc!Unheld, Blocks
<1>3. ASSUME \A a \in live : j \notin Extent(a) PROVE IsFree(entries, j)
  BY <1>3 DEF IInv, TableExact, IsFree, heap_get_entry_type, HEAP_BLOCK_TABLE_ENTRY_FREE
<1>4. ASSUME IsFree(entries, j) PROVE \A a \in live : j \notin Extent(a)
  BY <1>4, FreeIsUnowned DEF IInv
<1> QED
  BY <1>2, <1>3, <1>4

\* The heap implements the abstract allocator: what it hands out has all the blocks asked
\* for and is disjoint from everything that is held; only when the pool has no such run,
\* which the minimality of the start shows, is it the free blocks at the end of the pool.
THEOREM HeapImplementsAllocator ==
    ASSUME NonzeroRequests
    PROVE  Spec => AllocatorSpec
<1>1. Init => Alloc!Init
  BY DEF Init, Alloc!Init
<1>2. IInv /\ [Next]_vars => [Alloc!Next]_live
  <2> SUFFICES ASSUME IInv, [Next]_vars PROVE [Alloc!Next]_live
    OBVIOUS
  <2>0. \A j \in Blocks : j \in Alloc!Unheld <=> IsFree(entries, j)
    BY UnheldIsFree
  <2>1. CASE \E size \in Sizes : heap_malloc(size)
    <3>1. PICK size \in Sizes : heap_malloc(size)
      BY <2>1
    <3> DEFINE n == BlocksOf(size)
    <3>2. n \in Nat /\ n >= 1
      BY BlocksOfType DEF NonzeroRequests
    <3>3. PICK s \in heap_get_start_block(entries, n) :
            IF s < 0
            THEN UNCHANGED vars
            ELSE live' = live \cup {[start |-> s, blocks |-> n]}
      BY <3>1 DEF heap_malloc, heap_malloc_blocks
    <3>4. s \in Int
      BY DEF heap_get_start_block, Candidates, ENOMEM, Blocks
    <3>5. CASE s < 0
      BY <3>3, <3>5 DEF vars
    <3>6. CASE s >= 0
      <4> DEFINE new == [start |-> s, blocks |-> n]
      <4>1. /\ s \in Candidates(entries, n) /\ s \in Blocks
            /\ \A r \in Candidates(entries, n) : s <= r
        BY <3>6 DEF heap_get_start_block, Candidates, ENOMEM
      <4>2. live' = live \cup {new}
        BY <3>3, <3>4, <3>6
      <4>3. \A j \in Blocks : s <= j /\ j < s + n => j \in Alloc!Unheld
        BY <2>0, <4>1 DEF Candidates
      <4>4. n \in {BlocksOf(z) : z \in Sizes} /\ s \in 0 .. TotalBlocks - 1
        BY <4>1 DEF Blocks
      <4>5. CASE s + n <= TotalBlocks
        <5>1. Alloc!FreeRun(s, n)
          BY <3>2, <4>3, <4>4, <4>5, HeapAssumption DEF Alloc!FreeRun, Blocks
        <5>2. Alloc!Alloc(new)
          BY <3>2, <4>2, <5>1 DEF Alloc!Alloc
        <5> QED
          BY <4>4, <5>2 DEF Alloc!Next
      <4>6. CASE s + n > TotalBlocks
        <5>1. Alloc!FreeRun(s, TotalBlocks - s)
          BY <3>2, <4>3, <4>4, <4>6, HeapAssumption DEF Alloc!FreeRun, Blocks
        <5>2. ASSUME NEW r \in Blocks, Alloc!FreeRun(r, n) PROVE FALSE
          <6>1. \A j \in r .. r + n - 1 : j \in Blocks /\ IsFree(entries, j)
            BY <2>0, <5>2 DEF Alloc!FreeRun, Alloc!Unheld, Blocks
          <6>2. r \in Candidates(entries, n)
            BY <3>2, <6>1, HeapAssumption DEF Candidates, Blocks
          <6>3. r + n - 1 \in r .. r + n - 1
            BY <3>2, HeapAssumption DEF Blocks
          <6>4. r + n - 1 < TotalBlocks /\ s <= r
            BY <3>2, <4>1, <6>1, <6>2, <6>3, HeapAssumption DEF Blocks
          <6> QED
            BY <3>2, <4>4, <4>6, <6>4, HeapAssumption DEF Blocks
        <5>3. Alloc!AllocShort(new)
          BY <4>2, <4>6, <5>1, <5>2 DEF Alloc!AllocShort, Blocks
        <5> QED
          BY <4>4, <5>3 DEF Alloc!Next
      <4> QED
        BY <3>2, <4>4, <4>5, <4>6, HeapAssumption
    <3> QED
      BY <3>4, <3>5, <3>6
  <2>2. CASE \E a \in live : heap_free(a)
    BY <2>2 DEF heap_free, Alloc!Next, Alloc!Free
  <2>3. CASE heap_free_null \/ UNCHANGED vars
    BY <2>3 DEF heap_free_null, vars
  <2> QED
    BY <2>1, <2>2, <2>3 DEF Next
<1>3. Spec => []IInv
  BY HeapInvariant
<1> QED
  BY <1>1, <1>2, <1>3, PTL DEF Spec, AllocatorSpec, Alloc!Spec

-----------------------------------------------------------------------------
\* The block counts that callers ask for.
Requests == {BlocksOf(size) : size \in Sizes}

\* The first block that the scan has not ruled out as a start.
Frontier == IF block_start = -1 THEN i ELSE block_start

\* The run from block_start is free up to, not including, e.
RunFree(e) == block_start \in Blocks /\ \A j \in block_start .. e - 1 : IsFree(table, j)

\* No block before the frontier can be returned.
RuledOut == \A s \in Blocks : s < Frontier => s \notin Candidates(table, total_blocks)

ScanInv ==
    pc = "scan" =>
        /\ table = entries
        /\ total_blocks \in Requests
        /\ i \in 0 .. TotalBlocks
        /\ RuledOut
        /\ block_start = -1 => block_current = 0
        /\ block_start # -1 =>
             /\ RunFree(i) /\ block_start < i
             /\ block_current = i - block_start
             /\ total_blocks = 0 \/ block_current < total_blocks

FoundInv ==
    pc = "found" =>
        /\ table = entries
        /\ total_blocks \in Requests
        /\ i \in Blocks
        /\ RuledOut
        /\ RunFree(i + 1) /\ block_start <= i
        /\ total_blocks = i + 1 - block_start

MarkInv ==
    pc = "mark" =>
        /\ total_blocks \in Requests
        /\ block_start \in Blocks
        /\ block_start \in heap_get_start_block(entries, total_blocks)
        /\ i \in block_start .. block_start + total_blocks
        /\ \A j \in Indexes : table[j] = IF block_start <= j /\ j < i
                                         THEN EntryOf(block_start, total_blocks, j)
                                         ELSE entries[j]
        /\ i <= end_block => entry = EntryOf(block_start, total_blocks, i)

\* The walk of heap_mark_blocks_free that began at s has cleared s .. e - 1.
Walked(s, e) ==
    /\ \A j \in Indexes : table[j] = IF s <= j /\ j < e
                                     THEN HEAP_BLOCK_TABLE_ENTRY_FREE ELSE entries[j]
    /\ \A k \in s .. i - 1 : HasNext(entries[k])

\* s is where the walk of the running heap_free began.
WalkStart(s) ==
    \/ freed = {} /\ s = -LowBlocks
    \/ \E a \in live : freed = {a} /\ s = a.start

FreeInv ==
    /\ pc = "free" => \E s \in Indexes :
                         WalkStart(s) /\ i \in s .. TotalBlocks /\ Walked(s, i)
    /\ pc = "freed" => \E s \in Indexes :
                         /\ WalkStart(s) /\ i \in s .. TotalBlocks - 1 /\ Walked(s, i + 1)
                         /\ ~HasNext(entries[i])

\* The domains of the tables, the allocations' starts, and what each loop has done
\* so far.
LInv ==
    /\ pc \in {"idle", "scan", "found", "mark", "free", "freed"}
    /\ table = [j \in Indexes |-> table[j]]
    /\ \A a \in live : a.start \in Blocks
    /\ pc = "idle" => table = entries
    /\ ScanInv /\ FoundInv /\ MarkInv /\ FreeInv

-----------------------------------------------------------------------------
\* A request is a natural number of blocks.
LEMMA RequestsNat == Requests \subseteq Nat
  BY BlocksOfType DEF Requests

\* Init: no call is running.
LEMMA LoopsInitLInv == LoopsInit => LInv
  BY DEF LoopsInit, Init, Idle, LInv, ScanInv, FoundInv, MarkInv, FreeInv

\* A call begins.
LEMMA CallSteps ==
    ASSUME LInv,
           \/ \E size \in Sizes : CallMalloc(size)
           \/ \E a \in live : CallFree(a)
           \/ CallFreeNull
    PROVE  LInv' /\ UNCHANGED vars
<1>1. CASE \E size \in Sizes : CallMalloc(size)
  <2>1. PICK size \in Sizes : CallMalloc(size)
    BY <1>1
  <2>2. Idle /\ pc' = "scan" /\ total_blocks' = BlocksOf(size)
        /\ UNCHANGED <<table, i, block_current, block_start, entry, freed, entries, live>>
    BY <2>1 DEF CallMalloc
  <2>3. total_blocks' \in Requests'
    BY <2>2 DEF Requests
  <2>4. ScanInv'
    BY <2>2, <2>3, HeapAssumption DEF Idle, LInv, ScanInv, RuledOut, Frontier, Blocks
  <2> QED
    BY <2>2, <2>4 DEF LInv, FoundInv, MarkInv, FreeInv, vars
<1>2. ASSUME NEW s \in Indexes, NEW address, NEW extents,
             s = heap_address_to_block(address), StartFree(address, extents),
             \/ extents = {} /\ s = -LowBlocks
             \/ \E a \in live : extents = {a} /\ s = a.start
      PROVE  LInv' /\ UNCHANGED vars
  <2>1. /\ Idle /\ pc' = "free" /\ i' = s /\ freed' = extents
        /\ UNCHANGED <<table, block_current, block_start, total_blocks, entry, entries, live>>
    BY <1>2 DEF StartFree
  <2>2. WalkStart(s)'
    BY <1>2, <2>1 DEF WalkStart
  <2>3. i' \in s .. TotalBlocks
    BY <2>1, HeapAssumption DEF Indexes
  <2>4. Walked(s, i)'
    BY <2>1, HeapAssumption DEF Walked, LInv, Idle, Indexes
  <2>5. FreeInv'
    BY <2>1, <2>2, <2>3, <2>4 DEF FreeInv
  <2> QED
    BY <2>1, <2>5 DEF LInv, ScanInv, FoundInv, MarkInv, vars
<1>3. CASE \E a \in live : CallFree(a)
  <2>1. PICK a \in live : CallFree(a)
    BY <1>3
  <2>2. a.start \in Blocks /\ a.start \in Indexes
    BY HeapAssumption DEF LInv, Blocks, Indexes
  <2> QED
    BY <2>1, <2>2, <1>2, RoundTrip DEF CallFree
<1>4. CASE CallFreeNull
  <2>1. -LowBlocks \in Indexes
    BY HeapAssumption DEF Indexes
  <2> QED
    BY <1>4, <2>1, <1>2, NullBlock DEF CallFreeNull
<1> QED
  BY <1>1, <1>3, <1>4

\* The scan passes a block that is taken.
LEMMA ScanTakenStep ==
    ASSUME LInv, ScanTaken
    PROVE  LInv' /\ UNCHANGED vars
<1>1. /\ pc = "scan" /\ pc' = "scan" /\ i < TotalBlocks /\ i' = i + 1
      /\ block_current' = 0 /\ block_start' = -1 /\ ~IsFree(table, i)
      /\ UNCHANGED <<table, total_blocks, entry, freed, entries, live>>
  BY DEF ScanTaken
<1>2. i \in Blocks /\ i' \in 0 .. TotalBlocks /\ total_blocks \in Nat
  BY <1>1, RequestsNat, HeapAssumption DEF LInv, ScanInv, Blocks
<1>3. ASSUME NEW s \in Blocks, s < i + 1
      PROVE  s \notin Candidates(table, total_blocks)
  <2>1. CASE s < Frontier
    BY <1>1, <2>1 DEF LInv, ScanInv, RuledOut
  <2>2. CASE ~(s < Frontier)
    <3>1. s <= i /\ (i < s + total_blocks \/ total_blocks = 0)
      BY <1>1, <1>2, <1>3, <2>2, HeapAssumption
         DEF LInv, ScanInv, RunFree, Frontier, Blocks
    <3> QED
      BY <1>1, <1>2, <3>1 DEF Candidates
  <2> QED
    BY <2>1, <2>2
<1>4. RuledOut'
  BY <1>1, <1>3 DEF RuledOut, Frontier
<1>5. ScanInv'
  BY <1>1, <1>2, <1>4 DEF LInv, ScanInv, Requests
<1> QED
  BY <1>1, <1>5 DEF LInv, FoundInv, MarkInv, FreeInv, vars

\* The scan counts a block that is free.
LEMMA ScanFreeStep ==
    ASSUME LInv, ScanFree
    PROVE  LInv' /\ UNCHANGED vars
<1>1. /\ pc = "scan" /\ i < TotalBlocks /\ IsFree(table, i)
      /\ block_start' = (IF block_start = -1 THEN i ELSE block_start)
      /\ block_current' = block_current + 1
      /\ UNCHANGED <<table, total_blocks, entry, freed, entries, live>>
  BY DEF ScanFree
<1>2. i \in Blocks /\ total_blocks \in Nat
  BY <1>1, RequestsNat, HeapAssumption DEF LInv, ScanInv, Blocks
<1>3. /\ block_start' \in Blocks /\ block_start' <= i /\ block_start' # -1
      /\ block_current' = i + 1 - block_start'
  BY <1>1, <1>2, HeapAssumption DEF LInv, ScanInv, RunFree, Blocks
<1>4. \A j \in block_start' .. i : IsFree(table, j)
  BY <1>1, <1>2 DEF LInv, ScanInv, RunFree, Blocks
<1>5. \A s \in Blocks : s < block_start' => s \notin Candidates(table, total_blocks)
  BY <1>1 DEF LInv, ScanInv, RuledOut, Frontier
<1>6. CASE block_current' = total_blocks
  <2>1. pc' = "found" /\ i' = i
    BY <1>6 DEF ScanFree
  <2>2. FoundInv'
    BY <1>1, <1>2, <1>3, <1>4, <1>5, <1>6, <2>1
       DEF LInv, ScanInv, FoundInv, RunFree, RuledOut, Frontier, Blocks, Requests
  <2> QED
    BY <1>1, <2>1, <2>2 DEF LInv, ScanInv, MarkInv, FreeInv, vars
<1>7. CASE block_current' # total_blocks
  <2>1. pc' = "scan" /\ i' = i + 1
    BY <1>1, <1>7 DEF ScanFree
  <2>2. total_blocks = 0 \/ block_current' < total_blocks
    BY <1>1, <1>2, <1>3, <1>7 DEF LInv, ScanInv, Blocks
  <2>3. RunFree(i)' /\ RuledOut'
    BY <1>1, <1>2, <1>3, <1>4, <1>5, <2>1 DEF RunFree, RuledOut, Frontier, Blocks
  <2>4. ScanInv'
    <3>1. /\ i' \in 0 .. TotalBlocks /\ block_start' < i' /\ block_current' = i' - block_start'
      BY <1>2, <1>3, <2>1, HeapAssumption DEF Blocks
    <3>2. table' = entries' /\ total_blocks' \in Requests'
      BY <1>1 DEF LInv, ScanInv, Requests
    <3> QED
      BY <1>1, <1>3, <2>2, <2>3, <3>1, <3>2 DEF ScanInv
  <2> QED
    BY <1>1, <2>1, <2>4 DEF LInv, FoundInv, MarkInv, FreeInv, vars
<1> QED
  BY <1>6, <1>7

\* heap_malloc returns NULL: the table stays as it is.
LEMMA ScanFailsStep ==
    ASSUME LInv, ScanFails
    PROVE  LInv' /\ UNCHANGED vars
<1>1. pc' = "idle" /\ UNCHANGED <<table, entries, live>>
  BY DEF ScanFails, Return
<1>2. table = entries
  BY DEF ScanFails, LInv, ScanInv, FoundInv
<1> QED
  BY <1>1, <1>2 DEF LInv, ScanInv, FoundInv, MarkInv, FreeInv, vars

\* The scan ends with the block that heap_get_start_block is said to return.
LEMMA ScanFindsStart ==
    ASSUME LInv, ScanSucceeds
    PROVE  /\ table = entries /\ total_blocks \in Requests /\ block_start \in Blocks
           /\ block_start \in heap_get_start_block(entries, total_blocks)
<1>1. block_start # -1 /\ (pc = "found" \/ (pc = "scan" /\ i >= TotalBlocks))
  BY DEF ScanSucceeds
<1>2. table = entries /\ total_blocks \in Requests /\ RuledOut /\ block_start \in Blocks
  BY <1>1 DEF LInv, ScanInv, FoundInv, RunFree
<1>3. block_start \in Candidates(table, total_blocks)
  <2> SUFFICES ASSUME NEW j \in Blocks, block_start <= j,
                      j < block_start + total_blocks \/ total_blocks = 0
               PROVE  IsFree(table, j)
    BY <1>2 DEF Candidates
  <2>1. CASE pc = "found"
    <3>1. total_blocks = i + 1 - block_start /\ i \in Blocks /\ RunFree(i + 1)
          /\ block_start <= i
      BY <2>1 DEF LInv, FoundInv
    <3>2. j \in block_start .. (i + 1) - 1
      BY <1>2, <3>1 DEF Blocks
    <3> QED
      BY <3>1, <3>2 DEF RunFree
  <2>2. CASE pc = "scan" /\ i >= TotalBlocks
    <3>1. i = TotalBlocks /\ RunFree(i)
      BY <1>1, <2>2, HeapAssumption DEF LInv, ScanInv
    <3>2. j \in block_start .. i - 1
      BY <1>2, <3>1, HeapAssumption DEF Blocks
    <3> QED
      BY <3>1, <3>2 DEF RunFree
  <2> QED
    BY <1>1, <2>1, <2>2
<1>4. \A r \in Candidates(table, total_blocks) : block_start <= r
  BY <1>1, <1>2 DEF RuledOut, Frontier, Candidates, Blocks
<1> QED
  BY <1>2, <1>3, <1>4 DEF heap_get_start_block

\* The marking loop begins.
LEMMA ScanSucceedsStep ==
    ASSUME LInv, ScanSucceeds
    PROVE  LInv' /\ UNCHANGED vars
<1>1. /\ pc' = "mark" /\ i' = block_start
      /\ entry' = HEAP_BLOCK_TABLE_ENTRY_TAKEN + HEAP_BLOCK_IS_FIRST
                     + (IF total_blocks > 1 THEN HEAP_BLOCK_HAS_NEXT ELSE 0)
      /\ UNCHANGED <<table, block_current, block_start, total_blocks, freed, entries, live>>
  BY DEF ScanSucceeds
<1>2. /\ table = entries /\ total_blocks \in Requests /\ block_start \in Blocks
      /\ block_start \in heap_get_start_block(entries, total_blocks)
  BY ScanFindsStart
<1>3. total_blocks \in Nat /\ block_start \in Int
  BY <1>2, RequestsNat DEF Blocks
<1>4. entry' = EntryOf(block_start, total_blocks, block_start)
  BY <1>1, <1>3 DEF EntryOf, HEAP_BLOCK_TABLE_ENTRY_TAKEN, HEAP_BLOCK_IS_FIRST,
                    HEAP_BLOCK_HAS_NEXT
<1>5. MarkInv'
  BY <1>1, <1>2, <1>3, <1>4, HeapAssumption DEF MarkInv, Indexes, Blocks, Requests
<1> QED
  BY <1>1, <1>5 DEF LInv, ScanInv, FoundInv, FreeInv, vars

-----------------------------------------------------------------------------
\* One block is marked.
LEMMA MarkBlockStep ==
    ASSUME LInv, MarkBlock
    PROVE  LInv' /\ UNCHANGED vars
<1>1. /\ pc = "mark" /\ pc' = "mark" /\ i <= end_block /\ i' = i + 1
      /\ table' = [j \in Indexes |-> IF j = i THEN entry ELSE table[j]]
      /\ entry' = HEAP_BLOCK_TABLE_ENTRY_TAKEN
                     + (IF i # end_block - 1 THEN HEAP_BLOCK_HAS_NEXT ELSE 0)
      /\ UNCHANGED <<block_current, block_start, total_blocks, freed, entries, live>>
  BY DEF MarkBlock
<1>2. /\ total_blocks \in Nat /\ block_start \in Int /\ i \in Int
      /\ block_start <= i /\ entry = EntryOf(block_start, total_blocks, i)
  BY <1>1, RequestsNat DEF LInv, MarkInv, Blocks
<1>3. i' <= end_block => entry' = EntryOf(block_start, total_blocks, i')
  BY <1>1, <1>2 DEF end_block, EntryOf, HEAP_BLOCK_TABLE_ENTRY_TAKEN, HEAP_BLOCK_IS_FIRST,
                    HEAP_BLOCK_HAS_NEXT
<1>4. \A j \in Indexes : table'[j] = IF block_start <= j /\ j < i'
                                      THEN EntryOf(block_start, total_blocks, j)
                                      ELSE entries[j]
  BY <1>1, <1>2, HeapAssumption DEF LInv, MarkInv, Indexes
<1>5. i' \in block_start .. block_start + total_blocks
  BY <1>1, <1>2 DEF end_block
<1>6. MarkInv'
  BY <1>1, <1>3, <1>4, <1>5 DEF LInv, MarkInv, Requests, end_block
<1> QED
  BY <1>1, <1>6 DEF LInv, ScanInv, FoundInv, FreeInv, vars

\* heap_malloc returns: the table is the one heap_mark_blocks_taken is said to make.
LEMMA MarkDoneStep ==
    ASSUME LInv, MarkDone
    PROVE  LInv' /\ Next
<1>1. /\ pc = "mark" /\ i > end_block /\ pc' = "idle" /\ entries' = table /\ table' = table
      /\ live' = live \cup {[start |-> block_start, blocks |-> total_blocks]}
  BY DEF MarkDone, Return
<1>2. /\ total_blocks \in Requests /\ block_start \in Blocks
      /\ block_start \in heap_get_start_block(entries, total_blocks)
      /\ total_blocks \in Nat
  BY <1>1, RequestsNat DEF LInv, MarkInv
<1>3. i = block_start + total_blocks
  BY <1>1, <1>2, HeapAssumption DEF LInv, MarkInv, end_block, Blocks
<1>4. table = heap_mark_blocks_taken(entries, block_start, total_blocks)
  BY <1>1, <1>3 DEF LInv, MarkInv, heap_mark_blocks_taken
<1>5. PICK size \in Sizes : total_blocks = BlocksOf(size)
  BY <1>2 DEF Requests
<1>6. heap_malloc(size)
  BY <1>1, <1>2, <1>4, <1>5 DEF heap_malloc, heap_malloc_blocks, Blocks
<1>7. LInv'
  BY <1>1, <1>2 DEF LInv, ScanInv, FoundInv, MarkInv, FreeInv
<1> QED
  BY <1>6, <1>7 DEF Next

-----------------------------------------------------------------------------
\* One entry is cleared.
LEMMA FreeBlockStep ==
    ASSUME LInv, FreeBlock
    PROVE  LInv' /\ UNCHANGED vars
<1>1. /\ pc = "free" /\ i < TotalBlocks
      /\ table' = [j \in Indexes |-> IF j = i THEN HEAP_BLOCK_TABLE_ENTRY_FREE ELSE table[j]]
      /\ UNCHANGED <<block_current, block_start, total_blocks, entry, freed, entries, live>>
  BY DEF FreeBlock
<1>2. PICK s \in Indexes : WalkStart(s) /\ i \in s .. TotalBlocks /\ Walked(s, i)
  BY <1>1 DEF LInv, FreeInv
<1>3. i \in Indexes /\ i \in s .. TotalBlocks - 1 /\ i \in Int /\ s \in Int
  BY <1>1, <1>2, HeapAssumption DEF Indexes
<1>4. table[i] = entries[i]
  BY <1>2, <1>3 DEF Walked
<1>5. \A j \in Indexes : table'[j] = IF s <= j /\ j < i + 1
                                      THEN HEAP_BLOCK_TABLE_ENTRY_FREE ELSE entries[j]
  BY <1>1, <1>2, <1>3, HeapAssumption DEF Walked, Indexes
<1>6. WalkStart(s)'
  BY <1>1, <1>2 DEF WalkStart
<1>7. CASE HasNext(table[i])
  <2>1. pc' = "free" /\ i' = i + 1
    BY <1>1, <1>7 DEF FreeBlock
  <2>2. Walked(s, i)'
    BY <1>1, <1>2, <1>3, <1>4, <1>5, <1>7, <2>1 DEF Walked
  <2>3. i' \in s .. TotalBlocks
    BY <1>3, <2>1, HeapAssumption
  <2>4. FreeInv'
    BY <1>6, <2>1, <2>2, <2>3 DEF FreeInv
  <2> QED
    BY <1>1, <2>1, <2>4 DEF LInv, ScanInv, FoundInv, MarkInv, vars
<1>8. CASE ~HasNext(table[i])
  <2>1. pc' = "freed" /\ i' = i
    BY <1>8 DEF FreeBlock
  <2>2. Walked(s, i + 1)'
    BY <1>1, <1>2, <1>5, <2>1 DEF Walked
  <2>3. FreeInv'
    BY <1>1, <1>3, <1>4, <1>6, <1>8, <2>1, <2>2 DEF FreeInv
  <2> QED
    BY <1>1, <2>1, <2>3 DEF LInv, ScanInv, FoundInv, MarkInv, vars
<1> QED
  BY <1>7, <1>8

\* heap_free returns: the table is the one heap_mark_blocks_free is said to make.
LEMMA FreeDoneStep ==
    ASSUME LInv, FreeDone
    PROVE  LInv' /\ Next
<1>1. /\ pc = "freed" \/ (pc = "free" /\ i >= TotalBlocks)
      /\ pc' = "idle" /\ entries' = table /\ table' = table /\ live' = live \ freed
  BY DEF FreeDone, Return
<1>2. PICK s \in Indexes :
        /\ WalkStart(s) /\ \A k \in s .. i - 1 : HasNext(entries[k])
        /\ \/ i \in s .. TotalBlocks - 1 /\ Walked(s, i + 1) /\ ~HasNext(entries[i])
           \/ i = TotalBlocks /\ Walked(s, i)
  <2>1. CASE pc = "freed"
    BY <2>1 DEF LInv, FreeInv, Walked
  <2>2. CASE pc = "free" /\ i >= TotalBlocks
    <3>1. PICK s \in Indexes : WalkStart(s) /\ i \in s .. TotalBlocks /\ Walked(s, i)
      BY <2>2 DEF LInv, FreeInv
    <3>2. i = TotalBlocks
      BY <2>2, <3>1, HeapAssumption DEF Indexes
    <3> QED
      BY <3>1, <3>2 DEF Walked
  <2> QED
    BY <1>1, <2>1, <2>2
<1>3. ASSUME NEW j \in Indexes
      PROVE  table[j] = heap_mark_blocks_free(entries, s)[j]
  <2>1. CASE i \in s .. TotalBlocks - 1 /\ Walked(s, i + 1) /\ ~HasNext(entries[i])
    <3>1. (s <= j /\ \A k \in s .. j - 1 : HasNext(entries[k])) <=> (s <= j /\ j < i + 1)
      BY <1>2, <2>1, HeapAssumption DEF Indexes
    <3> QED
      BY <2>1, <3>1 DEF Walked, heap_mark_blocks_free
  <2>2. CASE i = TotalBlocks /\ Walked(s, i)
    <3>1. (s <= j /\ \A k \in s .. j - 1 : HasNext(entries[k])) <=> (s <= j /\ j < i)
      BY <1>2, <2>2, HeapAssumption DEF Indexes
    <3> QED
      BY <2>2, <3>1 DEF Walked, heap_mark_blocks_free
  <2> QED
    BY <1>2, <2>1, <2>2
<1>4. table = heap_mark_blocks_free(entries, s)
  BY <1>3 DEF LInv, heap_mark_blocks_free
<1>5. Next
  <2>1. CASE freed = {} /\ s = -LowBlocks
    BY <1>1, <1>4, <2>1, NullBlock DEF Next, heap_free_null
  <2>2. CASE \E a \in live : freed = {a} /\ s = a.start
    <3>1. PICK a \in live : freed = {a} /\ s = a.start
      BY <2>2
    <3>2. heap_free(a)
      BY <1>1, <1>4, <3>1, RoundTrip DEF heap_free, LInv
    <3> QED
      BY <3>2 DEF Next
  <2> QED
    BY <1>2, <2>1, <2>2 DEF WalkStart
<1>6. LInv'
  BY <1>1 DEF LInv, ScanInv, FoundInv, MarkInv, FreeInv
<1> QED
  BY <1>5, <1>6

-----------------------------------------------------------------------------
\* Every step of a loop keeps LInv, and is a step of Heap or changes nothing there.
LEMMA LoopsNextLInv == LInv /\ [LoopsNext]_loopVars => LInv' /\ [Next]_vars
<1> SUFFICES ASSUME LInv, [LoopsNext]_loopVars PROVE LInv' /\ [Next]_vars
  OBVIOUS
<1>1. CASE \/ \E size \in Sizes : CallMalloc(size)
           \/ \E a \in live : CallFree(a)
           \/ CallFreeNull
  BY <1>1, CallSteps
<1>2. CASE ScanTaken \/ ScanFree \/ ScanFails \/ ScanSucceeds
  BY <1>2, ScanTakenStep, ScanFreeStep, ScanFailsStep, ScanSucceedsStep
<1>3. CASE MarkBlock \/ MarkDone
  BY <1>3, MarkBlockStep, MarkDoneStep
<1>4. CASE FreeBlock \/ FreeDone
  BY <1>4, FreeBlockStep, FreeDoneStep
<1>5. CASE UNCHANGED loopVars
  <2>1. /\ UNCHANGED <<table, pc, i, block_current, block_start, total_blocks, entry, freed>>
        /\ UNCHANGED <<entries, live>>
    BY <1>5 DEF loopVars, locals
  <2>2. ScanInv' /\ FoundInv'
    BY <2>1 DEF LInv, ScanInv, FoundInv, RuledOut, Frontier, RunFree, Requests
  <2>3. MarkInv' /\ FreeInv'
    BY <2>1 DEF LInv, MarkInv, FreeInv, Requests, end_block, Walked, WalkStart
  <2> QED
    BY <2>1, <2>2, <2>3 DEF LInv, vars
<1> QED
  BY <1>1, <1>2, <1>3, <1>4, <1>5 DEF LoopsNext, Loop

\* The loops of heap.c implement Heap, whatever is asked for: heap_get_start_block,
\* heap_mark_blocks_taken and heap_mark_blocks_free compute what Heap says.
THEOREM LoopsImplementHeap == LoopsSpec => HeapSpec
<1>1. LoopsInit => Init
  BY DEF LoopsInit
<1> QED
  BY <1>1, LoopsInitLInv, LoopsNextLInv, PTL DEF LoopsSpec, HeapSpec, Spec

\* When every request is of at least one block, heap_mark_blocks_free never stands on
\* a block of another allocation, between any two of its iterations.
THEOREM FreeWalkStaysInside ==
    ASSUME NonzeroRequests
    PROVE  LoopsSpec => []FreeWalksOwnBlocks
<1>1. LInv /\ IInv => FreeWalksOwnBlocks
  <2> SUFFICES ASSUME LInv, IInv, pc = "free", i < TotalBlocks
               PROVE  IF freed = {} THEN i \in LowBytes
                                    ELSE \A a \in freed : i \in Extent(a)
    BY DEF FreeWalksOwnBlocks
  <2>1. PICK s \in Indexes : /\ WalkStart(s) /\ i \in s .. TotalBlocks
                             /\ \A k \in s .. i - 1 : HasNext(entries[k])
    BY DEF LInv, FreeInv, Walked
  <2>2. i \in Int /\ s \in Int /\ s <= i /\ i < TotalBlocks
    BY <2>1, HeapAssumption DEF Indexes
  <2>3. CASE freed = {} /\ s = -LowBlocks
    <3>1. PICK l \in LowBytes : ~HasNext(entries[l])
      BY DEF IInv, NullWalkStops
    <3>2. l \notin s .. i - 1
      BY <2>1, <3>1
    <3> QED
      BY <2>2, <2>3, <3>2, HeapAssumption DEF LowBytes
  <2>4. CASE \E a \in live : freed = {a} /\ s = a.start
    <3>1. PICK a \in live : freed = {a} /\ s = a.start
      BY <2>4
    <3>2. a.start \in Blocks /\ a.blocks \in Nat /\ a.blocks >= 1
      BY DEF IInv, TypeOK, LiveNonempty
    <3>3. i < a.start + a.blocks
      <4>1. SUFFICES ASSUME i >= a.start + a.blocks PROVE FALSE
        BY <2>2, <3>2 DEF Blocks
      <4> DEFINE k == a.start + a.blocks - 1
      <4>2. k \in s .. i - 1 /\ k \in Extent(a)
        BY <2>2, <3>1, <3>2, <4>1, HeapAssumption DEF Extent, Blocks
      <4>3. ~HasNext(entries[k])
        BY <3>2, <4>2, EntryFacts DEF IInv, TableExact, Blocks
      <4> QED
        BY <2>1, <4>2, <4>3
    <3> QED
      BY <2>2, <3>1, <3>2, <3>3, HeapAssumption DEF Extent, Blocks
  <2> QED
    BY <2>1, <2>3, <2>4 DEF WalkStart
<1>2. LoopsSpec => []LInv
  BY LoopsInitLInv, LoopsNextLInv, PTL DEF LoopsSpec
<1>3. LoopsSpec => []IInv
  BY LoopsImplementHeap, HeapInvariant, PTL DEF HeapSpec
<1> QED
  BY <1>1, <1>2, <1>3, PTL
=============================================================================
