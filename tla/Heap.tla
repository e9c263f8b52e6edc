------------------------------- MODULE Heap --------------------------------
(***************************************************************************)
(* The kernel heap (src/memory/heap/heap.c, kheap.c) at the granularity of *)
(* its calls.  A call runs with interrupts disabled and nothing in it      *)
(* yields, so each one is a single step; HeapLoops opens the loops up.     *)
(*                                                                         *)
(* entries is the block table.  live is a history variable: the extents    *)
(* [start, blocks] whose pointers callers hold.  The kernel frees only     *)
(* pointers it got from kmalloc, and 0.                                    *)
(***************************************************************************)
EXTENDS HeapTable

CONSTANTS
    Sizes,     \* the sizes callers ask for
    BootBytes  \* bytes that the memory below the table may hold at boot

ASSUME SizesAssumption == Sizes \subseteq 0 .. WordSize - 1
ASSUME BootAssumption  == BootBytes \subseteq Byte

\* Requests whose marks would reach the kernel (3.8 GB and more) are left out.
ASSUME ReachAssumption == \A size \in Sizes : TotalBlocks + BlocksOf(size) <= KernelIndex

VARIABLES entries, live

vars == <<entries, live>>

\* heap_create clears the table and nothing else.  The memory below it holds the
\* boot sector, which has a byte without bit 7 (0x3C, from its jump).
Init ==
    /\ entries \in {t \in [Indexes -> BootBytes \cup {HEAP_BLOCK_TABLE_ENTRY_FREE}] :
                      /\ \A i \in Blocks : t[i] = HEAP_BLOCK_TABLE_ENTRY_FREE
                      /\ \E i \in LowBytes : ~HasNext(t[i])}
    /\ live = {}

\* Mutant: the error of heap_get_start_block is taken for a block.
MallocBlocksNoCheck(total_blocks) ==
    \E start_block \in heap_get_start_block(entries, total_blocks) :
        /\ entries' = heap_mark_blocks_taken(entries, start_block, total_blocks)
        /\ live' = IF start_block < 0 THEN live
                   ELSE live \cup {[start |-> start_block, blocks |-> total_blocks]}

\* heap_malloc_blocks: a negative start block is the NULL result.
heap_malloc_blocks(total_blocks) ==
    \E start_block \in heap_get_start_block(entries, total_blocks) :
        IF start_block < 0
        THEN UNCHANGED vars
        ELSE /\ entries' = heap_mark_blocks_taken(entries, start_block, total_blocks)
             /\ live' = live \cup {[start |-> start_block, blocks |-> total_blocks]}

heap_malloc(size) == heap_malloc_blocks(BlocksOf(size))

\* kfree of a pointer that kmalloc returned.
heap_free(a) ==
    /\ entries' = heap_mark_blocks_free(entries,
                    heap_address_to_block(heap_block_to_address(a.start)))
    /\ live' = live \ {a}

\* Mutant: address 0 is taken for the first block of the pool.
heap_free_null_as_first ==
    /\ entries' = heap_mark_blocks_free(entries, 0)
    /\ UNCHANGED live

\* kfree(0): process_free of a slot that was never used, or free(NULL).
heap_free_null ==
    /\ entries' = heap_mark_blocks_free(entries, heap_address_to_block(0))
    /\ UNCHANGED live

Next ==
    \/ \E size \in Sizes : heap_malloc(size)
    \/ \E a \in live : heap_free(a)
    \/ heap_free_null

Spec == Init /\ [][Next]_vars

-----------------------------------------------------------------------------
\* The blocks of the table that an allocation holds.
Extent(a) == {j \in Blocks : a.start <= j /\ j < a.start + a.blocks}

\* The table is a table of bytes and live a set of extents that start in the pool.
TypeOK ==
    /\ entries \in [Indexes -> Byte]
    /\ live \subseteq [start : Blocks, blocks : Nat]

\* No two live allocations share a block: what heap_malloc hands out is nobody
\* else's, whatever order callers free in.
NoOverlap == \A a, b \in live : a # b => Extent(a) \cap Extent(b) = {}

\* The table says exactly what callers hold.  Every block of a live allocation
\* carries the flags heap_free needs to walk that allocation and stop at its end,
\* and every other block is free: no block leaks and no chain runs into a
\* neighbour's.
TableExact ==
    /\ \A a \in live : \A j \in Extent(a) : entries[j] = EntryOf(a.start, a.blocks, j)
    /\ \A j \in Blocks : (\A a \in live : j \notin Extent(a))
                            => entries[j] = HEAP_BLOCK_TABLE_ENTRY_FREE

\* heap_free(0) writes below the table; some byte there always stops its walk
\* before it reaches the entry of block 0.
NullWalkStops == \E i \in LowBytes : ~HasNext(entries[i])

\* A call to the heap leaves the table entries of every allocation that stays live
\* alone: heap_malloc and heap_free of one caller cannot corrupt another's chain,
\* heap_free(0) included.
OthersUntouched ==
    [][\A a \in live \cap live' : \A j \in Extent(a) : entries'[j] = entries[j]]_vars

\* Every request is for at least one block once it is rounded up: false for size 0,
\* and for a size so near 2^32 that the rounding wraps.
NonzeroRequests == \A size \in Sizes : BlocksOf(size) >= 1

Alloc == INSTANCE Allocator WITH Counts <- {BlocksOf(size) : size \in Sizes}

\* heap.c:89: "we look consecutive blocks whose amount is equal to the required block
\* number".  Every allocation has all its blocks in the pool.
WholeRuns == \A a \in live : a.start + a.blocks <= TotalBlocks

\* The heap implements the abstract allocator: callers get all the blocks they asked
\* for, out of free ones, except that a request for which no run is long enough gets
\* the free blocks at the end of the pool (see WholeRuns).
AllocatorSpec == Alloc!Spec
=============================================================================
