----------------------------- MODULE HeapTable -----------------------------
(***************************************************************************)
(* The block table of the kernel heap (src/memory/heap/heap.c, heap.h):    *)
(* one byte per block of the pool, and the pure operators the allocator    *)
(* is built from.                                                          *)
(*                                                                         *)
(* A table is a function from block indexes to bytes.  heap_free(0) is     *)
(* called by the kernel (process_terminate_allocations frees every slot,   *)
(* used or not) and converts address 0 to a NEGATIVE index, so the domain  *)
(* goes on below 0: entries[-LowBlocks .. -1] are the bytes of memory that *)
(* lie just below the table, boot sector included.                         *)
(*                                                                         *)
(* Above the table an allocation longer than the rest of the pool writes   *)
(* its marks on: over unused low memory, from index 0xB0200 on over the    *)
(* text of the screen and from KernelIndex on over the kernel at 1M.       *)
(* Nothing here reads those bytes below the kernel, and they are left out; *)
(* a module that uses the table says what it does about a request that     *)
(* reaches the kernel.                                                     *)
(***************************************************************************)
EXTENDS Integers

CONSTANTS
    TotalBlocks,  \* table->total: 25600 in the kernel
    BlockSize,    \* MAEROS_HEAP_BLOCK_SIZE: 4096
    LowBlocks,    \* blocks between address 0 and the pool: 4096
    WordSize,     \* values of a uint32_t/size_t: 2^32
    KernelIndex   \* the index whose byte is the kernel's first: 0xF8200

ASSUME HeapAssumption ==
    /\ TotalBlocks \in Nat \ {0}
    /\ BlockSize \in Nat \ {0}
    /\ LowBlocks \in Nat \ {0}
    /\ WordSize \in Nat \ {0}
    /\ KernelIndex \in Nat /\ KernelIndex >= TotalBlocks

ENOMEM == 2

HEAP_BLOCK_TABLE_ENTRY_FREE  == 0
HEAP_BLOCK_TABLE_ENTRY_TAKEN == 1
HEAP_BLOCK_IS_FIRST          == 64
HEAP_BLOCK_HAS_NEXT          == 128

Byte == 0 .. 255
Blocks == 0 .. TotalBlocks - 1
LowBytes == -LowBlocks .. -1
Indexes == -LowBlocks .. TotalBlocks - 1

\* MAEROS_HEAP_ADDRESS; the pool is laid out from here up.
saddr == LowBlocks * BlockSize

-----------------------------------------------------------------------------
\* entry & 0x0f
heap_get_entry_type(entry) == entry % 16

\* entry & HEAP_BLOCK_HAS_NEXT: bit 7 of the byte
HasNext(entry) == entry >= HEAP_BLOCK_HAS_NEXT

heap_block_to_address(block) == saddr + block * BlockSize

\* Both operands are multiples of the block size in every call, so that C's
\* truncating division and \div agree below zero too.
heap_address_to_block(address) == (address - saddr) \div BlockSize

\* Rounds up to a whole number of blocks in unsigned arithmetic: a value in the
\* last partial block of the word wraps to 0.
heap_align_value_to_upper(val) ==
    IF val % BlockSize = 0
    THEN val
    ELSE ((val - (val % BlockSize)) + BlockSize) % WordSize

\* The request of heap_malloc in blocks.
BlocksOf(size) == heap_align_value_to_upper(size) \div BlockSize

-----------------------------------------------------------------------------
IsFree(table, i) == heap_get_entry_type(table[i]) = HEAP_BLOCK_TABLE_ENTRY_FREE

\* Mutant: the scan forgets to reset its count at a taken block, so that only
\* the first and the last block of the run are known to be free.
CandidatesNoReset(table, total_blocks) ==
    {s \in Blocks : IsFree(table, s) /\ s + total_blocks - 1 \in Blocks
                                     /\ IsFree(table, s + total_blocks - 1)}

\* The starts of free runs that the scan of heap_get_start_block can return:
\* total_blocks free blocks, OR ONLY AS MANY AS THE TABLE STILL HAS.  The loop
\* leaves block_start set when the table ends inside a run, and a request of
\* zero blocks never meets block_current == total_blocks.
Candidates(table, total_blocks) ==
    {s \in Blocks : \A j \in Blocks :
        s <= j /\ (j < s + total_blocks \/ total_blocks = 0) => IsFree(table, j)}

\* Mutant: the start is set when the count has gone up already.
StartBlockBehind(table, total_blocks) ==
    LET C == Candidates(table, total_blocks)
    IN  IF C = {} THEN {-ENOMEM} ELSE {s + 1 : s \in {c \in C : \A r \in C : c <= r}}

\* What heap_get_start_block returns, as a set of at most one block; when there
\* is no candidate it returns -ENOMEM.
heap_get_start_block(table, total_blocks) ==
    LET C == Candidates(table, total_blocks)
    IN  IF C = {} THEN {-ENOMEM} ELSE {s \in C : \A r \in C : s <= r}

-----------------------------------------------------------------------------
\* The byte that block j of an allocation of n blocks from s is marked with.
EntryOf(s, n, j) ==
    HEAP_BLOCK_TABLE_ENTRY_TAKEN
      + (IF j = s THEN HEAP_BLOCK_IS_FIRST ELSE 0)
      + (IF j < s + n - 1 THEN HEAP_BLOCK_HAS_NEXT ELSE 0)

\* Mutant: the last block of every allocation keeps the HAS_NEXT flag.
MarkTakenNextOnLast(table, s, n) ==
    [j \in Indexes |-> IF s <= j /\ j < s + n THEN EntryOf(s, n + 1, j) ELSE table[j]]

\* Mutant: end_block is taken for the first block NOT marked.
MarkTakenShort(table, s, n) ==
    [j \in Indexes |-> IF s <= j /\ j < s + n - 1 THEN EntryOf(s, n, j) ELSE table[j]]

\* The marks of blocks outside the pool (n reaching past its end) are left out.
heap_mark_blocks_taken(table, s, n) ==
    [j \in Indexes |-> IF s <= j /\ j < s + n THEN EntryOf(s, n, j) ELSE table[j]]

\* Clears from s up to and including the first entry without HAS_NEXT.
heap_mark_blocks_free(table, s) ==
    [j \in Indexes |-> IF s <= j /\ \A k \in s .. j - 1 : HasNext(table[k])
                       THEN HEAP_BLOCK_TABLE_ENTRY_FREE ELSE table[j]]
=============================================================================
