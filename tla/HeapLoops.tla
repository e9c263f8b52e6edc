----------------------------- MODULE HeapLoops -----------------------------
(***************************************************************************)
(* The three loops of the kernel heap (src/memory/heap/heap.c), one        *)
(* iteration per step: the first-fit scan of heap_get_start_block, the     *)
(* marking of heap_mark_blocks_taken and the clearing of                   *)
(* heap_mark_blocks_free.  It implements Heap, whose operators say in one  *)
(* expression what the loops compute.                                      *)
(*                                                                         *)
(* table is the array that the loops read and write.  entries and live are *)
(* Heap's: here the table and the callers' extents as of the last call     *)
(* that returned, so that Heap's Spec is a property of this one.           *)
(***************************************************************************)
EXTENDS Heap

VARIABLES
    table,          \* heap->table->entries
    pc,             \* idle, or the loop that runs; "found" and "freed" are its break
    i,              \* the index of that loop
    block_current,  \* free blocks counted in the run (scan)
    block_start,    \* first block of the run, -1 when there is none (scan, mark)
    total_blocks,   \* the request, in blocks (scan, mark)
    entry,          \* the byte for the next block (mark)
    freed           \* the extents that the running heap_free gives back

locals == <<i, block_current, block_start, total_blocks, entry, freed>>
loopVars == <<table, pc, locals, entries, live>>

\* No call is running: the loops' variables are dead.
Idle ==
    /\ pc = "idle"
    /\ i = 0
    /\ block_current = 0
    /\ block_start = -1
    /\ total_blocks = 0
    /\ entry = HEAP_BLOCK_TABLE_ENTRY_FREE
    /\ freed = {}

LoopsInit == Init /\ table = entries /\ Idle

\* The running call returns and its locals die.
Return ==
    /\ pc' = "idle"
    /\ i' = 0
    /\ block_current' = 0
    /\ block_start' = -1
    /\ total_blocks' = 0
    /\ entry' = HEAP_BLOCK_TABLE_ENTRY_FREE
    /\ freed' = {}

-----------------------------------------------------------------------------
\* heap_malloc up to the loop of heap_get_start_block, whose locals start at
\* i = 0, block_current = 0 and block_start = -1.
CallMalloc(size) ==
    /\ Idle
    /\ pc' = "scan"
    /\ total_blocks' = BlocksOf(size)
    /\ UNCHANGED <<table, i, block_current, block_start, entry, freed, entries, live>>

\* Mutant: the scan goes round again without its increment.
ScanTakenNoAdvance ==
    /\ pc = "scan" /\ i < TotalBlocks
    /\ ~IsFree(table, i)
    /\ block_current' = 0
    /\ block_start' = -1
    /\ UNCHANGED <<table, pc, i, total_blocks, entry, freed, entries, live>>

\* The block is not free: start over behind it.
ScanTaken ==
    /\ pc = "scan" /\ i < TotalBlocks
    /\ ~IsFree(table, i)
    /\ block_current' = 0
    /\ block_start' = -1
    /\ i' = i + 1
    /\ UNCHANGED <<table, pc, total_blocks, entry, freed, entries, live>>

\* Mutant: the run that a free block opens is not recorded.
ScanFreeLateStart ==
    /\ pc = "scan" /\ i < TotalBlocks
    /\ IsFree(table, i)
    /\ block_start' = i
    /\ block_current' = block_current + 1
    /\ IF block_current' = total_blocks
       THEN pc' = "found" /\ UNCHANGED i
       ELSE i' = i + 1 /\ UNCHANGED pc
    /\ UNCHANGED <<table, total_blocks, entry, freed, entries, live>>

\* The block is free: count it, and break when the request is met.
ScanFree ==
    /\ pc = "scan" /\ i < TotalBlocks
    /\ IsFree(table, i)
    /\ block_start' = IF block_start = -1 THEN i ELSE block_start
    /\ block_current' = block_current + 1
    /\ IF block_current' = total_blocks
       THEN pc' = "found" /\ UNCHANGED i
       ELSE i' = i + 1 /\ UNCHANGED pc
    /\ UNCHANGED <<table, total_blocks, entry, freed, entries, live>>

\* The loop is over, by its break or at the end of the table, with no start block:
\* heap_malloc returns NULL.
ScanFails ==
    /\ pc = "found" \/ (pc = "scan" /\ i >= TotalBlocks)
    /\ block_start = -1
    /\ Return
    /\ UNCHANGED <<table, entries, live>>

\* The loop is over with a start block, the request met or not.
ScanSucceeds ==
    /\ pc = "found" \/ (pc = "scan" /\ i >= TotalBlocks)
    /\ block_start # -1
    /\ pc' = "mark"
    /\ i' = block_start
    /\ entry' = HEAP_BLOCK_TABLE_ENTRY_TAKEN + HEAP_BLOCK_IS_FIRST
                  + (IF total_blocks > 1 THEN HEAP_BLOCK_HAS_NEXT ELSE 0)
    /\ UNCHANGED <<table, block_current, block_start, total_blocks, freed, entries, live>>

-----------------------------------------------------------------------------
end_block == block_start + total_blocks - 1

\* Mutant: the flags are chosen one block late.
MarkBlockLate ==
    /\ pc = "mark" /\ i <= end_block
    /\ table' = [j \in Indexes |-> IF j = i THEN entry ELSE table[j]]
    /\ entry' = HEAP_BLOCK_TABLE_ENTRY_TAKEN
                  + (IF i # end_block THEN HEAP_BLOCK_HAS_NEXT ELSE 0)
    /\ i' = i + 1
    /\ UNCHANGED <<pc, block_current, block_start, total_blocks, freed, entries, live>>

\* One block is marked; behind the end of the table the write is to memory that
\* nobody reads.
MarkBlock ==
    /\ pc = "mark" /\ i <= end_block
    /\ table' = [j \in Indexes |-> IF j = i THEN entry ELSE table[j]]
    /\ entry' = HEAP_BLOCK_TABLE_ENTRY_TAKEN
                  + (IF i # end_block - 1 THEN HEAP_BLOCK_HAS_NEXT ELSE 0)
    /\ i' = i + 1
    /\ UNCHANGED <<pc, block_current, block_start, total_blocks, freed, entries, live>>

\* heap_malloc returns the address of block_start.
MarkDone ==
    /\ pc = "mark" /\ i > end_block
    /\ Return
    /\ entries' = table
    /\ live' = live \cup {[start |-> block_start, blocks |-> total_blocks]}
    /\ UNCHANGED table

-----------------------------------------------------------------------------
\* heap_free of an address, up to the loop of heap_mark_blocks_free.
StartFree(address, extents) ==
    /\ Idle
    /\ pc' = "free"
    /\ i' = heap_address_to_block(address)
    /\ freed' = extents
    /\ UNCHANGED <<table, block_current, block_start, total_blocks, entry, entries, live>>

CallFree(a) == StartFree(heap_block_to_address(a.start), {a})

CallFreeNull == StartFree(0, {})

\* One entry is read, cleared, and its flag decides whether the walk goes on.
FreeBlock ==
    /\ pc = "free" /\ i < TotalBlocks
    /\ table' = [j \in Indexes |-> IF j = i THEN HEAP_BLOCK_TABLE_ENTRY_FREE ELSE table[j]]
    /\ IF HasNext(table[i])
       THEN i' = i + 1 /\ UNCHANGED pc
       ELSE pc' = "freed" /\ UNCHANGED i
    /\ UNCHANGED <<block_current, block_start, total_blocks, entry, freed, entries, live>>

\* The walk met an entry without HAS_NEXT or the end of the table.
FreeDone ==
    /\ pc = "freed" \/ (pc = "free" /\ i >= TotalBlocks)
    /\ Return
    /\ entries' = table
    /\ live' = live \ freed
    /\ UNCHANGED table

Loop ==
    \/ ScanTaken \/ ScanFree \/ ScanFails \/ ScanSucceeds
    \/ MarkBlock \/ MarkDone
    \/ FreeBlock \/ FreeDone

LoopsNext ==
    \/ \E size \in Sizes : CallMalloc(size)
    \/ \E a \in live : CallFree(a)
    \/ CallFreeNull
    \/ Loop

\* Interrupts are off while the heap runs: a loop that can go on does.
LoopsSpec == LoopsInit /\ [][LoopsNext]_loopVars /\ WF_loopVars(Loop)

-----------------------------------------------------------------------------
\* The loops compute what heap_get_start_block, heap_mark_blocks_taken and
\* heap_mark_blocks_free are said to in Heap: every call is one step of Heap or
\* none, at its return.  Requests of zero blocks and of more than the pool included.
HeapSpec == Spec

\* Every call of the heap returns: no request and no chain in the table keeps a loop
\* running.
CallsReturn == (pc # "idle") ~> (pc = "idle")

\* Between two iterations heap_mark_blocks_free stands on a block of the allocation
\* it frees (below the table, for address 0), never on a neighbour's.
FreeWalksOwnBlocks ==
    pc = "free" /\ i < TotalBlocks =>
        IF freed = {} THEN i \in LowBytes ELSE \A a \in freed : i \in Extent(a)
=============================================================================
