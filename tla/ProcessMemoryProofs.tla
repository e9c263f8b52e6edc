----------------------- MODULE ProcessMemoryProofs --------------------------
(***************************************************************************)
(* Proofs about ProcessMemory: for every pool, word, number of slots and   *)
(* of table entries, and whatever is loaded, asked for, freed and ended,   *)
(* as long as every request is for at least one block.                     *)
(***************************************************************************)
EXTENDS ProcessMemory, Induction, FiniteSetTheorems, SequenceTheorems

\* Every request is for a block or more, once it is rounded up (heap.c:65).
NonzeroRequests == \A size \in Sizes \cup {ObjectSize} : BlocksOf(size) >= 1

AllKinds == Kinds \cup {"malloc", "tmp"}
Extents == [start : Blocks, blocks : Nat, owner : Slots, kind : AllKinds]
Entries == [ptr : Nat, size : Nat]
Flags == {"read-only", "writeable", "absent"}

MemoryType ==
    [entries : [Indexes -> Byte],
     live : SUBSET Extents,
     allocations : [Slots -> [Indices -> Entries]],
     directory : [Slots -> [Blocks -> Flags]],
     program : [Slots -> [Kinds -> Nat]]]

\* A block table t is exact for the extents L, as in HeapProofs.
Exact(t, L) ==
    /\ \A a \in L : a.blocks >= 1
    /\ \A a, b \in L : a # b => Extent(a) \cap Extent(b) = {}
    /\ \A a \in L : \A j \in Extent(a) : t[j] = EntryOf(a.start, a.blocks, j)
    /\ \A j \in Blocks : (\A a \in L : j \notin Extent(a)) => t[j] = HEAP_BLOCK_TABLE_ENTRY_FREE
    /\ \E i \in LowBytes : ~HasNext(t[i])

MallocsOf(m, p) == {a \in m.live : a.owner = p /\ a.kind = "malloc"}

\* An entry of the table is unused, or it names an allocation that is live, of the size
\* it says and not wrapping.
EntryRight(m, p, e) ==
    \/ e = NoAllocation
    \/ /\ \E a \in MallocsOf(m, p) : heap_block_to_address(a.start) = e.ptr /\ a.blocks = BlocksOf(e.size)
       /\ paging_align_address(e.ptr + e.size) = e.ptr + BlocksOf(e.size) * BlockSize

\* The table of p lists its allocations, each once.
Listed(m, p) ==
    /\ \A i \in Indices : EntryRight(m, p, m.allocations[p][i])
    /\ \A i, j \in Indices : i # j /\ m.allocations[p][i].ptr = m.allocations[p][j].ptr
                                => m.allocations[p][i].ptr = 0
    /\ \A a \in MallocsOf(m, p) :
         \E i \in Indices : m.allocations[p][i].ptr = heap_block_to_address(a.start)

\* What struct process points to is live.
Points(m, p) ==
    \A k \in Kinds : m.program[p][k] # 0 =>
        \E a \in m.live : a.owner = p /\ a.kind = k /\ heap_block_to_address(a.start) = m.program[p][k]

\* The directory of p lets it write what it has allocated, and keeps struct task.
Mapped(m, p) ==
    /\ \A j \in Blocks : m.directory[p][j] = "writeable" <=> \E a \in MallocsOf(m, p) : j \in Extent(a)
    /\ m.program[p]["task"] # 0
    /\ m.directory[p][heap_address_to_block(m.program[p]["task"])] = "read-only"
    /\ m.program[p]["ptr"] # 0 => m.program[p]["elf_file"] = 0 /\ m.program[p]["elf_memory"] = 0

\* Heap, tables and pointers agree.
Core(m) == m \in MemoryType /\ Exact(m.entries, m.live) /\ \A p \in Slots : Listed(m, p) /\ Points(m, p)

SlotRight(m, p) == IF Loaded(m, p) THEN Mapped(m, p) ELSE MallocsOf(m, p) = {}

\* The inductive invariant.
MInv(m) == Core(m) /\ \A p \in Slots : SlotRight(m, p)

-----------------------------------------------------------------------------
\* Lowest of a set of natural numbers is in it.
LEMMA LowestIn ==
    ASSUME NEW T, T \subseteq Nat, T # {}
    PROVE  Lowest(T) \in T
<1>1. \E x \in T : \A y \in T : x <= y
  BY LeastOf
<1> QED
  BY <1>1 DEF Lowest

-----------------------------------------------------------------------------
Tables == [Indexes -> Byte]

\* A whole number of blocks divides back to the number.
LEMMA DivCancel ==
    ASSUME NEW b \in Int, NEW d \in Nat \ {0}
    PROVE  (b * d) \div d = b
  OBVIOUS

\* Addresses of blocks: not 0, and each of one block.
LEMMA AddressFacts ==
    ASSUME NEW b \in Blocks
    PROVE  /\ heap_block_to_address(b) \in Nat \ {0}
           /\ heap_address_to_block(heap_block_to_address(b)) = b
<1>1. b \in Nat /\ BlockSize \in Nat \ {0} /\ LowBlocks \in Nat \ {0}
  BY HeapAssumption DEF Blocks
<1>2. (LowBlocks * BlockSize + b * BlockSize) - LowBlocks * BlockSize = b * BlockSize
  BY <1>1
<1>3. LowBlocks * BlockSize \in Nat \ {0} /\ b * BlockSize \in Nat
  BY <1>1
<1> QED
  BY <1>1, <1>2, <1>3, DivCancel DEF heap_address_to_block, heap_block_to_address, saddr

\* Address 0 is taken for the block LowBlocks below the pool.
LEMMA NullBlock == heap_address_to_block(0) = -LowBlocks
<1>1. -LowBlocks \in Int /\ BlockSize \in Nat \ {0} /\ LowBlocks \in Nat
  BY HeapAssumption
<1>2. 0 - LowBlocks * BlockSize = (-LowBlocks) * BlockSize
  BY <1>1
<1> QED
  BY <1>1, <1>2, DivCancel DEF heap_address_to_block, saddr

\* The bytes of a chain.
LEMMA EntryFacts ==
    ASSUME NEW s \in Int, NEW n \in Nat, NEW j \in Int
    PROVE  /\ EntryOf(s, n, j) \in Byte
           /\ heap_get_entry_type(EntryOf(s, n, j)) # HEAP_BLOCK_TABLE_ENTRY_FREE
           /\ HasNext(EntryOf(s, n, j)) <=> j < s + n - 1
  BY DEF EntryOf, Byte, heap_get_entry_type, HasNext, HEAP_BLOCK_TABLE_ENTRY_FREE,
         HEAP_BLOCK_TABLE_ENTRY_TAKEN, HEAP_BLOCK_IS_FIRST, HEAP_BLOCK_HAS_NEXT

\* What the scan finds belongs to nobody.
LEMMA FoundUnowned ==
    ASSUME NEW t \in Tables, NEW L \in SUBSET Extents, Exact(t, L), NEW n \in Nat, n >= 1,
           NEW new \in Extents, new.blocks = n, new.start \in heap_get_start_block(t, n)
    PROVE  new.start \in Extent(new) /\ new \notin L
           /\ \A a \in L : Extent(new) \cap Extent(a) = {}
<1>0. new.start \in Blocks /\ new.start \in Int /\ new.start >= 0
  BY DEF Extents, Blocks
<1>1. new.start \in Candidates(t, n)
  BY <1>0 DEF heap_get_start_block, ENOMEM
<1>2. \A j \in Extent(new) : IsFree(t, j) /\ j \in Blocks
  BY <1>0, <1>1 DEF Candidates, Extent
<1>3. new.start \in Extent(new)
  BY <1>0 DEF Extent
<1>4. ASSUME NEW a \in L, NEW j \in Extent(new), j \in Extent(a) PROVE FALSE
  <2>1. a.start \in Int /\ a.blocks \in Nat /\ j \in Int
    BY <1>4 DEF Extents, Blocks, Extent
  <2>2. t[j] = EntryOf(a.start, a.blocks, j)
    BY <1>4 DEF Exact
  <2> QED
    BY <1>2, <2>1, <2>2, EntryFacts DEF IsFree
<1> QED
  BY <1>3, <1>4

\* heap_mark_blocks_taken keeps the table exact.
LEMMA TakenExact ==
    ASSUME NEW t \in Tables, NEW L \in SUBSET Extents, Exact(t, L), NEW n \in Nat, n >= 1,
           NEW new \in Extents, new.blocks = n, new.start \in heap_get_start_block(t, n)
    PROVE  LET u == heap_mark_blocks_taken(t, new.start, n)
           IN  u \in Tables /\ Exact(u, L \cup {new})
<1> DEFINE s == new.start
           u == heap_mark_blocks_taken(t, s, n)
<1>0. s \in Blocks /\ s \in Int /\ s >= 0 /\ TotalBlocks \in Nat /\ LowBlocks \in Nat
  BY HeapAssumption DEF Extents, Blocks
<1>1. s \in Extent(new) /\ \A a \in L : Extent(new) \cap Extent(a) = {}
  BY FoundUnowned
<1>2. u \in Tables
  BY <1>0, EntryFacts DEF heap_mark_blocks_taken, Tables, Indexes
<1>3. \A j \in Indexes : u[j] = IF j \in Extent(new) THEN EntryOf(s, n, j) ELSE t[j]
  BY <1>0 DEF heap_mark_blocks_taken, Extent, Indexes, Blocks
<1> HIDE DEF u
<1>4. \A a, b \in L \cup {new} : a # b => Extent(a) \cap Extent(b) = {}
  BY <1>1 DEF Exact
<1>5. ASSUME NEW a \in L \cup {new}, NEW j \in Extent(a)
      PROVE  u[j] = EntryOf(a.start, a.blocks, j)
  <2>1. j \in Indexes
    BY <1>0 DEF Extent, Blocks, Indexes
  <2>2. CASE a = new
    BY <1>3, <2>1, <2>2
  <2>3. CASE a # new
    BY <1>1, <1>3, <2>1, <2>3 DEF Exact
  <2> QED
    BY <2>2, <2>3
<1>6. ASSUME NEW j \in Blocks, \A a \in L \cup {new} : j \notin Extent(a)
      PROVE  u[j] = HEAP_BLOCK_TABLE_ENTRY_FREE
  BY <1>0, <1>3, <1>6 DEF Exact, Blocks, Indexes
<1>7. \E i \in LowBytes : ~HasNext(u[i])
  <2>1. PICK i \in LowBytes : ~HasNext(t[i])
    BY DEF Exact
  <2>2. i \in Indexes /\ i \notin Extent(new)
    BY <1>0 DEF LowBytes, Indexes, Extent, Blocks
  <2> QED
    BY <1>3, <2>1, <2>2
<1>8. Exact(u, L \cup {new})
  <2>1. \A a \in L \cup {new} : a.blocks >= 1
    BY DEF Exact
  <2> QED
    BY <1>4, <1>5, <1>6, <1>7, <2>1 DEF Exact, Extent
<1> QED
  BY <1>2, <1>8 DEF u

\* heap_mark_blocks_free of a live extent clears that extent and nothing else.
LEMMA FreeClears ==
    ASSUME NEW t \in Tables, NEW L \in SUBSET Extents, Exact(t, L), NEW a \in L, NEW j \in Indexes
    PROVE  heap_mark_blocks_free(t, a.start)[j]
             = IF j \in Extent(a) THEN HEAP_BLOCK_TABLE_ENTRY_FREE ELSE t[j]
<1>1. /\ a.start \in Blocks /\ a.blocks \in Nat /\ a.blocks >= 1
      /\ TotalBlocks \in Nat /\ LowBlocks \in Nat
  BY HeapAssumption DEF Extents, Exact
<1>2. ASSUME j \in Extent(a), NEW k \in a.start .. j - 1
      PROVE  HasNext(t[k])
  <2>1. k \in Extent(a) /\ k < a.start + a.blocks - 1 /\ k \in Int
    BY <1>1, <1>2 DEF Extent, Blocks
  <2>2. t[k] = EntryOf(a.start, a.blocks, k)
    BY <2>1 DEF Exact
  <2> QED
    BY <1>1, <2>1, <2>2, EntryFacts DEF Blocks
<1>3. ASSUME j \notin Extent(a), a.start <= j
      PROVE  \E k \in a.start .. j - 1 : ~HasNext(t[k])
  <2> DEFINE k == a.start + a.blocks - 1
  <2>1. k \in a.start .. j - 1 /\ k \in Extent(a) /\ k \in Int
    BY <1>1, <1>3 DEF Extent, Blocks, Indexes
  <2>2. t[k] = EntryOf(a.start, a.blocks, k)
    BY <2>1 DEF Exact
  <2>3. ~HasNext(t[k])
    BY <1>1, <2>1, <2>2, EntryFacts DEF Blocks
  <2> QED
    BY <2>1, <2>3
<1>4. j \in Extent(a) => a.start <= j
  BY DEF Extent
<1> QED
  BY <1>2, <1>3, <1>4 DEF heap_mark_blocks_free

\* A free keeps the table exact.
LEMMA FreedExact ==
    ASSUME NEW t \in Tables, NEW L \in SUBSET Extents, Exact(t, L), NEW a \in L
    PROVE  LET u == heap_mark_blocks_free(t, a.start)
           IN  u \in Tables /\ Exact(u, L \ {a})
<1> DEFINE u == heap_mark_blocks_free(t, a.start)
<1>0. TotalBlocks \in Nat /\ LowBlocks \in Nat
  BY HeapAssumption
<1>1. u \in Tables
  BY DEF heap_mark_blocks_free, Tables, Byte, HEAP_BLOCK_TABLE_ENTRY_FREE
<1>2. \A j \in Indexes : u[j] = IF j \in Extent(a) THEN HEAP_BLOCK_TABLE_ENTRY_FREE ELSE t[j]
  BY FreeClears
<1> HIDE DEF u
<1>3. ASSUME NEW b \in L \ {a}, NEW j \in Extent(b)
      PROVE  u[j] = EntryOf(b.start, b.blocks, j)
  <2>1. j \notin Extent(a) /\ t[j] = EntryOf(b.start, b.blocks, j)
    BY DEF Exact
  <2>2. j \in Indexes
    BY <1>0 DEF Extent, Blocks, Indexes
  <2> QED
    BY <1>2, <2>1, <2>2
<1>4. ASSUME NEW j \in Blocks, \A b \in L \ {a} : j \notin Extent(b)
      PROVE  u[j] = HEAP_BLOCK_TABLE_ENTRY_FREE
  <2>1. j \in Indexes
    BY <1>0 DEF Blocks, Indexes
  <2>2. j \notin Extent(a) => t[j] = HEAP_BLOCK_TABLE_ENTRY_FREE
    BY <1>4 DEF Exact
  <2> QED
    BY <1>2, <2>1, <2>2
<1>5. \E i \in LowBytes : ~HasNext(u[i])
  <2>1. PICK i \in LowBytes : ~HasNext(t[i])
    BY DEF Exact
  <2>2. i \in Indexes /\ i \notin Extent(a)
    BY <1>0 DEF LowBytes, Indexes, Extent, Blocks
  <2> QED
    BY <1>2, <2>1, <2>2
<1>6. Exact(u, L \ {a})
  BY <1>3, <1>4, <1>5 DEF Exact, Extent
<1> QED
  BY <1>1, <1>6 DEF u

\* kfree(0) clears bytes below the table only.
LEMMA FreedNullExact ==
    ASSUME NEW t \in Tables, NEW L \in SUBSET Extents, Exact(t, L)
    PROVE  LET u == heap_mark_blocks_free(t, -LowBlocks)
           IN  u \in Tables /\ Exact(u, L)
<1> DEFINE u == heap_mark_blocks_free(t, -LowBlocks)
<1>0. TotalBlocks \in Nat /\ LowBlocks \in Nat
  BY HeapAssumption
<1>1. PICK i \in LowBytes : ~HasNext(t[i])
  BY DEF Exact
<1>2. \A j \in Blocks : i \in -LowBlocks .. j - 1 /\ j \in Indexes
  BY <1>0 DEF LowBytes, Blocks, Indexes
<1>3. u \in Tables
  BY DEF heap_mark_blocks_free, Tables, Byte, HEAP_BLOCK_TABLE_ENTRY_FREE
<1>4. \A j \in Blocks : u[j] = t[j]
  BY <1>1, <1>2 DEF heap_mark_blocks_free
<1>5. i \in Indexes
  BY <1>0 DEF LowBytes, Indexes
<1>6. ~HasNext(u[i])
  BY <1>1, <1>5 DEF heap_mark_blocks_free, HasNext, HEAP_BLOCK_TABLE_ENTRY_FREE, HEAP_BLOCK_HAS_NEXT
<1> HIDE DEF u
<1>7. Exact(u, L)
  BY <1>4, <1>6 DEF Exact, Extent
<1> QED
  BY <1>3, <1>7 DEF u

-----------------------------------------------------------------------------
\* Quotient and remainder.
LEMMA DivMod ==
    ASSUME NEW a \in Nat, NEW m \in Nat \ {0}
    PROVE  a = m * (a \div m) + (a % m) /\ a \div m \in Nat /\ a % m \in 0 .. m - 1
  OBVIOUS

\* Multiples are ordered as their factors are.
LEMMA MulLess ==
    ASSUME NEW m \in Nat \ {0}, NEW a \in Int, NEW b \in Int, a < b
    PROVE  m * a + m <= m * b
<1>1. b - a - 1 \in Nat /\ m * (b - a - 1) \in Nat
  OBVIOUS
<1>2. m * (b - a - 1) = m * b - m * a - m /\ m * a \in Int /\ m * b \in Int
  OBVIOUS
<1> QED
  BY <1>1, <1>2

\* There is only one quotient and remainder.
LEMMA ModUnique ==
    ASSUME NEW m \in Nat \ {0}, NEW q \in Nat, NEW r \in 0 .. m - 1, NEW a \in Nat, a = m * q + r
    PROVE  a % m = r /\ a \div m = q
<1> DEFINE p == a \div m
           s == a % m
<1>0. p \in Nat /\ s \in 0 .. m - 1 /\ a = m * p + s
  BY DivMod
<1> HIDE DEF p, s
<1>1. p \in Nat /\ s \in 0 .. m - 1 /\ a = m * p + s /\ m * p \in Int /\ m * q \in Int
  BY <1>0
<1>2. CASE p = q
  BY <1>1, <1>2 DEF s, p
<1>3. CASE p < q
  <2>1. m * p + m <= m * q
    BY <1>1, <1>3, MulLess
  <2> QED
    BY <1>1, <2>1
<1>4. CASE q < p
  <2>1. m * q + m <= m * p
    BY <1>1, <1>4, MulLess
  <2> QED
    BY <1>1, <2>1
<1> QED
  BY <1>1, <1>2, <1>3, <1>4

\* Rounding up to a block, where the word is a whole number w of blocks.
LEMMA AlignUp ==
    ASSUME NEW w \in Nat, WordSize = BlockSize * w, NEW k \in Nat, k < w, NEW r \in 0 .. BlockSize - 1
    PROVE  heap_align_value_to_upper(BlockSize * k + r)
             = IF r = 0 THEN BlockSize * k ELSE IF k + 1 = w THEN 0 ELSE BlockSize * (k + 1)
<1> DEFINE v == BlockSize * k + r
<1>0. BlockSize \in Nat \ {0} /\ WordSize \in Nat \ {0} /\ v \in Nat
  BY HeapAssumption
<1>1. v % BlockSize = r
  BY <1>0, ModUnique
<1> HIDE DEF v
<1>2. CASE r = 0
  <2>1. heap_align_value_to_upper(v) = v
    BY <1>1, <1>2 DEF heap_align_value_to_upper
  <2>2. v = BlockSize * k
    BY <1>0, <1>2 DEF v
  <2> QED
    BY <1>2, <2>1, <2>2 DEF v
<1>3. CASE r # 0
  <2>1. heap_align_value_to_upper(v) = ((v - r) + BlockSize) % WordSize
    BY <1>1, <1>3 DEF heap_align_value_to_upper
  <2>2. (v - r) + BlockSize = BlockSize * (k + 1) /\ BlockSize * (k + 1) \in Nat
    BY <1>0 DEF v
  <2>3. CASE k + 1 = w
    <3>1. WordSize % WordSize = 0
      BY <1>0
    <3> QED
      BY <1>3, <2>1, <2>2, <2>3, <3>1 DEF v
  <2>4. CASE k + 1 # w
    <3>1. k + 1 < w /\ k + 1 \in Int
      BY <2>4
    <3>2. BlockSize * (k + 1) + BlockSize <= BlockSize * w
      BY <1>0, <3>1, MulLess
    <3>3. BlockSize * (k + 1) \in 0 .. WordSize - 1
      BY <1>0, <2>2, <3>2
    <3>4. BlockSize * (k + 1) = WordSize * 0 + BlockSize * (k + 1)
      BY <1>0, <2>2
    <3>5. (BlockSize * (k + 1)) % WordSize = BlockSize * (k + 1)
      BY <1>0, <2>2, <3>3, <3>4, ModUnique
    <3> QED
      BY <1>3, <2>1, <2>2, <2>4, <3>5 DEF v
  <2> QED
    BY <2>3, <2>4
<1> QED
  BY <1>2, <1>3 DEF v

\* The word in blocks.
LEMMA WordInBlocks ==
    /\ BlockSize \in Nat \ {0} /\ WordSize \in Nat \ {0} /\ WordSize \div BlockSize \in Nat
    /\ WordSize = BlockSize * (WordSize \div BlockSize)
<1>1. BlockSize \in Nat \ {0} /\ WordSize \in Nat \ {0} /\ WordSize % BlockSize = 0
  BY HeapAssumption, AddressesFit
<1>2. WordSize = BlockSize * (WordSize \div BlockSize) + (WordSize % BlockSize)
      /\ WordSize \div BlockSize \in Nat
  BY <1>1, DivMod
<1> QED
  BY <1>1, <1>2

\* A value of the word is less than a word of blocks.
LEMMA InWord ==
    ASSUME NEW v \in 0 .. WordSize - 1
    PROVE  /\ v = BlockSize * (v \div BlockSize) + (v % BlockSize)
           /\ v \div BlockSize \in Nat /\ v % BlockSize \in 0 .. BlockSize - 1
           /\ v \div BlockSize < WordSize \div BlockSize
<1> DEFINE k == v \div BlockSize
           w == WordSize \div BlockSize
           r == v % BlockSize
<1>1. BlockSize \in Nat \ {0} /\ WordSize \in Nat \ {0} /\ w \in Nat /\ WordSize = BlockSize * w
  BY WordInBlocks
<1>2. v = BlockSize * k + r /\ k \in Nat /\ r \in 0 .. BlockSize - 1
  <2>1. v \in Nat
    BY <1>1
  <2> QED
    BY <1>1, <2>1, DivMod
<1> HIDE DEF k, w, r
<1>3. CASE k < w
  BY <1>2, <1>3 DEF k, w, r
<1>4. CASE ~(k < w)
  <2>1. k = w \/ w < k
    BY <1>1, <1>2, <1>4
  <2>2. BlockSize * w <= BlockSize * k
    <3>1. CASE k = w
      BY <1>1, <3>1
    <3>2. CASE w < k
      <4>1. BlockSize * w + BlockSize <= BlockSize * k
        BY <1>1, <1>2, <3>2, MulLess
      <4> QED
        BY <1>1, <1>2, <4>1
    <3> QED
      BY <2>1, <3>1, <3>2
  <2>3. BlockSize * k \in Nat
    BY <1>1, <1>2
  <2> QED
    BY <1>1, <1>2, <2>2, <2>3
<1> QED
  BY <1>3, <1>4

\* The blocks of a request.
LEMMA RequestFacts ==
    ASSUME NEW size \in 0 .. WordSize - 1
    PROVE  LET k == size \div BlockSize
           IN  BlocksOf(size) = IF size % BlockSize = 0 THEN k
                                ELSE IF k + 1 = WordSize \div BlockSize THEN 0 ELSE k + 1
<1> DEFINE k == size \div BlockSize
           w == WordSize \div BlockSize
           r == size % BlockSize
<1>1. BlockSize \in Nat \ {0} /\ w \in Nat /\ WordSize = BlockSize * w
  BY WordInBlocks
<1>2. size = BlockSize * k + r /\ k \in Nat /\ r \in 0 .. BlockSize - 1 /\ k < w
  BY InWord
<1> HIDE DEF k, w, r
<1>3. heap_align_value_to_upper(size)
        = IF r = 0 THEN BlockSize * k ELSE IF k + 1 = w THEN 0 ELSE BlockSize * (k + 1)
  BY <1>1, <1>2, AlignUp
<1>4. \A q \in Nat : (BlockSize * q) \div BlockSize = q
  <2> TAKE q \in Nat
  <2>1. BlockSize * q = q * BlockSize
    BY <1>1
  <2> QED
    BY <1>1, <2>1, DivCancel
<1>5. 0 \div BlockSize = 0
  BY <1>1, <1>4
<1>6. BlocksOf(size) = IF r = 0 THEN k ELSE IF k + 1 = w THEN 0 ELSE k + 1
  BY <1>2, <1>3, <1>4, <1>5 DEF BlocksOf
<1> QED
  BY <1>6 DEF k, w, r

\* A request is a natural number of blocks.
LEMMA BlocksOfType ==
    ASSUME NEW size \in 0 .. WordSize - 1
    PROVE  BlocksOf(size) \in Nat
  BY RequestFacts, InWord

\* Where a request from block s ends: behind its blocks, or before s when it wraps.
LEMMA EndFacts ==
    ASSUME NEW s \in Blocks, NEW size \in 0 .. WordSize - 1, BlocksOf(size) >= 1
    PROVE  LET ptr == heap_block_to_address(s)
               end == paging_align_address(ptr + size)
           IN  end \in Nat /\ (end < ptr \/ end = ptr + BlocksOf(size) * BlockSize)
<1> DEFINE c == LowBlocks + s
           w == WordSize \div BlockSize
           k == size \div BlockSize
           r == size % BlockSize
           n == BlocksOf(size)
           ptr == heap_block_to_address(s)
           x == ptr + size
<1>1. BlockSize \in Nat \ {0} /\ w \in Nat /\ WordSize = BlockSize * w /\ WordSize \in Nat \ {0}
  BY WordInBlocks
<1>2. size = BlockSize * k + r /\ k \in Nat /\ r \in 0 .. BlockSize - 1 /\ k < w
  BY InWord
<1>3. n = IF r = 0 THEN k ELSE IF k + 1 = w THEN 0 ELSE k + 1
  BY RequestFacts
<1>4. c \in Nat /\ ptr = BlockSize * c /\ ptr \in Nat
  <2>1. s \in Nat /\ LowBlocks \in Nat
    BY HeapAssumption DEF Blocks
  <2>2. LowBlocks * BlockSize + s * BlockSize = BlockSize * (LowBlocks + s)
    BY <1>1, <2>1
  <2>3. BlockSize * (LowBlocks + s) \in Nat
    BY <1>1, <2>1
  <2> QED
    BY <2>1, <2>2, <2>3 DEF heap_block_to_address, saddr
<1>5. c < w
  <2>1. s \in Nat /\ LowBlocks \in Nat /\ TotalBlocks \in Nat /\ s < TotalBlocks
    BY HeapAssumption DEF Blocks
  <2>2. BlockSize * (LowBlocks + TotalBlocks) < BlockSize * w
    <3>1. LowBlocks * BlockSize + TotalBlocks * BlockSize = BlockSize * (LowBlocks + TotalBlocks)
      BY <1>1, <2>1
    <3> QED
      BY <1>1, <3>1, AddressesFit DEF saddr
  <2>3. CASE w < LowBlocks + TotalBlocks
    <3>1. BlockSize * w + BlockSize <= BlockSize * (LowBlocks + TotalBlocks)
      BY <1>1, <2>1, <2>3, MulLess
    <3>2. BlockSize * w \in Int /\ BlockSize * (LowBlocks + TotalBlocks) \in Int
      BY <1>1, <2>1
    <3> QED
      BY <1>1, <2>2, <3>1, <3>2
  <2>4. CASE ~(w < LowBlocks + TotalBlocks)
    BY <1>1, <2>1, <2>4
  <2> QED
    BY <2>3, <2>4
<1>6. n \in Nat /\ n >= 1 /\ n < w
  <2>1. n \in Nat
    BY <1>1, <1>2, <1>3
  <2> QED
    BY <1>1, <1>2, <1>3, <2>1
<1>7. x \in Nat /\ x = BlockSize * (c + k) + r
  BY <1>1, <1>2, <1>4
<1> HIDE DEF c, w, k, r, n, ptr, x
<1>8. ptr + n * BlockSize = BlockSize * (c + n)
  BY <1>1, <1>4, <1>6
<1>9. CASE c + k < w
  <2>1. x % WordSize = x
    <3>1. BlockSize * (c + k) + BlockSize <= BlockSize * w /\ BlockSize * (c + k) \in Int
      BY <1>1, <1>2, <1>4, <1>9, MulLess
    <3>2. x \in 0 .. WordSize - 1
      BY <1>1, <1>2, <1>7, <3>1
    <3>3. x = WordSize * 0 + x
      BY <1>1, <1>7
    <3> QED
      BY <1>1, <1>7, <3>2, <3>3, ModUnique
  <2>2. c + k \in Nat
    BY <1>2, <1>4
  <2>3. heap_align_value_to_upper(x)
          = IF r = 0 THEN BlockSize * (c + k) ELSE IF (c + k) + 1 = w THEN 0 ELSE BlockSize * ((c + k) + 1)
    BY <1>1, <1>2, <1>7, <1>9, <2>2, AlignUp
  <2>4. CASE r # 0 /\ (c + k) + 1 = w
    <3>1. paging_align_address(x) = 0 /\ ptr > 0
      <4>1. c >= 1
        BY HeapAssumption DEF c, Blocks
      <4>2. BlockSize * c > 0
        BY <1>1, <1>4, <4>1
      <4> QED
        BY <1>4, <2>1, <2>3, <2>4, <4>2 DEF paging_align_address
    <3> QED
      BY <1>4, <3>1 DEF ptr, x
  <2>5. CASE ~(r # 0 /\ (c + k) + 1 = w)
    <3>1. heap_align_value_to_upper(x) = BlockSize * (c + n)
      <4>1. CASE r = 0
        BY <1>3, <2>3, <4>1
      <4>2. CASE r # 0
        <5>1. n = k + 1 /\ c + n = (c + k) + 1
          BY <1>2, <1>3, <1>4, <1>6, <4>2
        <5> QED
          BY <2>3, <2>5, <4>2, <5>1
      <4> QED
        BY <4>1, <4>2
    <3>2. paging_align_address(x) = ptr + n * BlockSize
      BY <1>8, <2>1, <3>1 DEF paging_align_address
    <3>3. ptr + n * BlockSize \in Nat
      BY <1>1, <1>4, <1>6
    <3> QED
      BY <3>2, <3>3 DEF ptr, x, n
  <2> QED
    BY <2>4, <2>5
<1>10. CASE ~(c + k < w)
  <2> DEFINE d == c + k - w
             y == BlockSize * d + r
  <2>1. d \in Nat /\ d < w /\ d + 1 < w + 1 /\ d < c
    BY <1>1, <1>2, <1>4, <1>5, <1>10
  <2>2. BlockSize * (c + k) = BlockSize * w + BlockSize * d /\ BlockSize * d \in Nat
    <3>1. c + k = w + d
      BY <1>1, <1>2, <1>4
    <3> HIDE DEF d
    <3>2. BlockSize * (w + d) = BlockSize * w + BlockSize * d
      BY <1>1, <2>1
    <3> QED
      BY <1>1, <2>1, <3>1, <3>2
  <2> HIDE DEF d
  <2>3. x = WordSize * 1 + y /\ y \in Nat
    BY <1>1, <1>2, <1>7, <2>2
  <2>4. y \in 0 .. WordSize - 1
    <3>1. BlockSize * d + BlockSize <= BlockSize * w
      BY <1>1, <2>1, MulLess
    <3> QED
      BY <1>1, <1>2, <2>2, <2>3, <3>1
  <2>5. heap_align_value_to_upper(y)
          = IF r = 0 THEN BlockSize * d ELSE IF d + 1 = w THEN 0 ELSE BlockSize * (d + 1)
    BY <1>1, <1>2, <2>1, AlignUp
  <2> HIDE DEF y
  <2>6. x % WordSize = y
    BY <1>1, <1>7, <2>3, <2>4, ModUnique, SMTT(30)
  <2>7. paging_align_address(x) = heap_align_value_to_upper(y)
    BY <2>6 DEF paging_align_address
  <2>8. r # 0 => d + 1 < c
    <3>1. r # 0 => k + 1 < w
      BY <1>1, <1>2, <1>3, <1>6
    <3> QED
      BY <1>1, <1>2, <1>4, <3>1 DEF d
  <2>9. \A q \in Nat : q < c => BlockSize * q < BlockSize * c /\ BlockSize * q \in Nat
    <3> SUFFICES ASSUME NEW q \in Nat, q < c PROVE BlockSize * q < BlockSize * c /\ BlockSize * q \in Nat
      OBVIOUS
    <3>1. BlockSize * q + BlockSize <= BlockSize * c /\ BlockSize * q \in Nat
      BY <1>1, <1>4, MulLess
    <3> QED
      BY <1>1, <1>4, <3>1
  <2>10. heap_align_value_to_upper(y) \in Nat /\ heap_align_value_to_upper(y) < ptr
    <3>1. CASE r = 0
      BY <1>4, <2>1, <2>5, <2>9, <3>1
    <3>2. CASE r # 0 /\ d + 1 = w
      BY <1>4, <1>5, <2>1, <2>8, <3>2
    <3>3. CASE r # 0 /\ d + 1 # w
      <4>1. d + 1 \in Nat /\ d + 1 < c
        BY <2>1, <2>8, <3>3
      <4> QED
        BY <1>4, <2>5, <2>9, <3>3, <4>1
    <3> QED
      BY <3>1, <3>2, <3>3
  <2> QED
    BY <2>7, <2>10 DEF ptr, x
<1> QED
  BY <1>9, <1>10

\* The pages from block s to behind n blocks are those of the extent.
LEMMA RangeIsExtent ==
    ASSUME NEW s \in Blocks, NEW j \in Blocks, NEW n \in Nat
    PROVE  (/\ heap_block_to_address(s) <= heap_block_to_address(j)
            /\ heap_block_to_address(j) < heap_block_to_address(s) + n * BlockSize)
              <=> s <= j /\ j < s + n
<1>1. s \in Nat /\ j \in Nat /\ BlockSize \in Nat \ {0} /\ LowBlocks \in Nat
  BY HeapAssumption DEF Blocks
<1> DEFINE a == BlockSize * s
           b == BlockSize * j
           e == BlockSize * (s + n)
<1>2. a \in Nat /\ b \in Nat /\ e \in Nat /\ LowBlocks * BlockSize \in Nat
  BY <1>1
<1>3. /\ heap_block_to_address(s) = LowBlocks * BlockSize + a
      /\ heap_block_to_address(j) = LowBlocks * BlockSize + b
      /\ heap_block_to_address(s) + n * BlockSize = LowBlocks * BlockSize + e
  BY <1>1 DEF heap_block_to_address, saddr
<1>4. s <= j => a <= b
  <2>1. s < j => BlockSize * s + BlockSize <= BlockSize * j
    BY <1>1, MulLess
  <2> QED
    BY <1>1, <1>2, <2>1
<1>5. j < s => b < a
  <2>1. j < s => BlockSize * j + BlockSize <= BlockSize * s
    BY <1>1, MulLess
  <2> QED
    BY <1>1, <1>2, <2>1
<1>6. j < s + n => b < e
  <2>1. j < s + n => BlockSize * j + BlockSize <= BlockSize * (s + n)
    BY <1>1, MulLess
  <2> QED
    BY <1>1, <1>2, <2>1
<1>7. s + n <= j => e <= b
  <2>1. s + n < j => BlockSize * (s + n) + BlockSize <= BlockSize * j
    BY <1>1, MulLess
  <2> QED
    BY <1>1, <1>2, <2>1
<1> HIDE DEF a, b, e
<1> QED
  BY <1>1, <1>2, <1>3, <1>4, <1>5, <1>6, <1>7

-----------------------------------------------------------------------------
\* x is m with the extents L, and an exact table for them.
WithLive(m, x, L) ==
    /\ x \in MemoryType /\ x.live = L /\ Exact(x.entries, x.live)
    /\ x.allocations = m.allocations /\ x.directory = m.directory /\ x.program = m.program

\* What the heap changes of a memory.
SetHeap(m, t, L) == [m EXCEPT !.entries = t, !.live = L]

\* That is all it changes.
LEMMA HeapChange ==
    ASSUME NEW m \in MemoryType, NEW t \in Tables, NEW L \in SUBSET Extents
    PROVE  LET x == SetHeap(m, t, L)
           IN  /\ x \in MemoryType /\ x.entries = t /\ x.live = L
               /\ x.allocations = m.allocations /\ x.directory = m.directory
               /\ x.program = m.program
<1> DEFINE y == [m EXCEPT !.entries = t]
<1>1. SetHeap(m, t, L) = [y EXCEPT !.live = L]
  BY Zenon DEF SetHeap
<1>2. /\ y \in MemoryType /\ y.entries = t
      /\ y.allocations = m.allocations /\ y.directory = m.directory /\ y.program = m.program
  BY DEF MemoryType, Tables
<1> HIDE DEF y
<1> QED
  BY <1>1, <1>2 DEF MemoryType

\* What heap_get_start_block returns.
LEMMA StartBlock ==
    ASSUME NEW t \in Tables, NEW n \in Nat
    PROVE  LET s == CHOOSE b \in heap_get_start_block(t, n) : TRUE
           IN  s \in heap_get_start_block(t, n) /\ s \in Int /\ (s < 0 \/ s \in Blocks)
<1> DEFINE C == Candidates(t, n)
           H == heap_get_start_block(t, n)
<1>1. C \subseteq Nat /\ C \subseteq Blocks
  BY DEF Candidates, Blocks
<1>2. H = IF C = {} THEN {-ENOMEM} ELSE {s \in C : \A q \in C : s <= q}
  BY DEF heap_get_start_block
<1> HIDE DEF C, H
<1>3. H # {}
  BY <1>1, <1>2, LeastOf
<1>4. \A s \in H : s \in Int /\ (s < 0 \/ s \in Blocks)
  BY <1>1, <1>2 DEF ENOMEM
<1>5. (CHOOSE b \in H : TRUE) \in H
  BY <1>3
<1> QED
  BY <1>4, <1>5 DEF H

\* kzalloc gives nothing and changes nothing, or gives an extent that nobody holds.
LEMMA KzallocFacts ==
    ASSUME NEW m \in MemoryType, Exact(m.entries, m.live), NEW p \in Slots, NEW kind \in AllKinds,
           NEW size \in 0 .. WordSize - 1, BlocksOf(size) >= 1
    PROVE  LET r == kzalloc(m, p, kind, size)
           IN  /\ r \in [mem : MemoryType, ptr : Nat]
               /\ \/ r.ptr = 0 /\ r.mem = m
                  \/ \E a \in Extents :
                       /\ a \notin m.live /\ a.blocks = BlocksOf(size) /\ a.owner = p /\ a.kind = kind
                       /\ r.ptr = heap_block_to_address(a.start)
                       /\ \A b \in m.live : Extent(a) \cap Extent(b) = {}
                       /\ WithLive(m, r.mem, m.live \cup {a})
<1> DEFINE n == BlocksOf(size)
           s == CHOOSE b \in heap_get_start_block(m.entries, n) : TRUE
           r == kzalloc(m, p, kind, size)
           a == [start |-> s, blocks |-> n, owner |-> p, kind |-> kind]
           t == heap_mark_blocks_taken(m.entries, s, n)
           x == SetHeap(m, t, m.live \cup {a})
<1>1. n \in Nat /\ n >= 1 /\ m.entries \in Tables /\ m.live \in SUBSET Extents
  BY BlocksOfType DEF MemoryType, Tables
<1>2. s \in heap_get_start_block(m.entries, n) /\ s \in Int /\ (s < 0 \/ s \in Blocks)
  BY <1>1, StartBlock
<1>3. r = IF s < 0 THEN [mem |-> m, ptr |-> 0]
          ELSE [mem |-> [m EXCEPT
                          !.entries = heap_mark_blocks_taken(@, s, n),
                          !.live = @ \cup {[start |-> s, blocks |-> n, owner |-> p, kind |-> kind]}],
                ptr |-> heap_block_to_address(s)]
  BY DEF kzalloc
<1> HIDE DEF n, s, r
<1>4. CASE s < 0
  BY <1>3, <1>4 DEF r
<1>5. CASE ~(s < 0)
  <2>1. r.mem = x /\ r.ptr = heap_block_to_address(s) /\ r = [mem |-> x, ptr |-> heap_block_to_address(s)]
    <3>1. r = [mem |-> [m EXCEPT
                          !.entries = heap_mark_blocks_taken(@, s, n),
                          !.live = @ \cup {[start |-> s, blocks |-> n, owner |-> p, kind |-> kind]}],
               ptr |-> heap_block_to_address(s)]
      BY <1>3, <1>5, Zenon
    <3> QED
      BY <3>1, Zenon DEF SetHeap
  <2>2. /\ a \in Extents /\ a.start = s /\ a.blocks = n /\ a.owner = p /\ a.kind = kind
    BY <1>1, <1>2, <1>5 DEF Extents
  <2> HIDE DEF a
  <2>3. t \in Tables /\ Exact(t, m.live \cup {a})
    BY <1>1, <1>2, <2>2, TakenExact
  <2>4. a \notin m.live /\ \A b \in m.live : Extent(a) \cap Extent(b) = {}
    BY <1>1, <1>2, <2>2, FoundUnowned
  <2>5. m.live \cup {a} \in SUBSET Extents
    BY <1>1, <2>2
  <2> HIDE DEF t
  <2>6. /\ x \in MemoryType /\ x.entries = t /\ x.live = m.live \cup {a}
        /\ x.allocations = m.allocations /\ x.directory = m.directory /\ x.program = m.program
    BY <2>3, <2>5, HeapChange
  <2>7. WithLive(m, r.mem, m.live \cup {a})
    BY <2>1, <2>3, <2>6 DEF WithLive
  <2>8. r.ptr = heap_block_to_address(a.start)
    BY <2>1, <2>2
  <2>9. a.blocks = BlocksOf(size)
    BY <2>2 DEF n
  <2>10. r \in [mem : MemoryType, ptr : Nat]
    BY <1>2, <1>5, <2>1, <2>6, AddressFacts
  <2> QED
    BY <2>2, <2>4, <2>7, <2>8, <2>9, <2>10 DEF r
<1> QED
  BY <1>4, <1>5

\* kfree of a live extent takes it, and only it.
LEMMA KfreeLive ==
    ASSUME NEW m \in MemoryType, Exact(m.entries, m.live), NEW a \in m.live
    PROVE  WithLive(m, kfree(m, a.owner, a.kind, heap_block_to_address(a.start)), m.live \ {a})
<1> DEFINE s == heap_address_to_block(heap_block_to_address(a.start))
           L == {b \in m.live : b.start # s \/ b.owner # a.owner \/ b.kind # a.kind}
           t == heap_mark_blocks_free(m.entries, s)
           x == SetHeap(m, t, L)
<1>1. m.entries \in Tables /\ m.live \in SUBSET Extents /\ a \in Extents /\ a.start \in Blocks
  BY DEF MemoryType, Tables, Extents
<1>2. s = a.start
  BY <1>1, AddressFacts
<1>3. L = m.live \ {a}
  <2>1. ASSUME NEW b \in m.live, b.start = a.start PROVE b = a
    <3>1. b \in Extents /\ b.start \in Blocks /\ a.blocks >= 1 /\ b.blocks >= 1
          /\ a.blocks \in Nat /\ b.blocks \in Nat
      BY <1>1 DEF Extents, Exact
    <3>2. a.start \in Extent(a) /\ a.start \in Extent(b)
      BY <1>1, <2>1, <3>1 DEF Extent, Blocks
    <3> QED
      BY <3>2 DEF Exact
  <2> QED
    BY <1>2, <2>1
<1>4. kfree(m, a.owner, a.kind, heap_block_to_address(a.start)) = x
  BY Zenon DEF kfree, SetHeap
<1>5. t \in Tables /\ Exact(t, L)
  BY <1>1, <1>2, <1>3, FreedExact
<1>6. L \in SUBSET Extents
  BY <1>1
<1> HIDE DEF t, L
<1>7. /\ x \in MemoryType /\ x.entries = t /\ x.live = L
      /\ x.allocations = m.allocations /\ x.directory = m.directory /\ x.program = m.program
  BY <1>5, <1>6, HeapChange
<1> QED
  BY <1>3, <1>4, <1>5, <1>7 DEF WithLive

\* kfree(0) takes nothing.
LEMMA KfreeNull ==
    ASSUME NEW m \in MemoryType, Exact(m.entries, m.live), NEW p, NEW kind
    PROVE  WithLive(m, kfree(m, p, kind, 0), m.live)
<1> DEFINE s == heap_address_to_block(0)
           L == {b \in m.live : b.start # s \/ b.owner # p \/ b.kind # kind}
           t == heap_mark_blocks_free(m.entries, s)
           x == SetHeap(m, t, L)
<1>1. m.entries \in Tables /\ m.live \in SUBSET Extents
  BY DEF MemoryType, Tables
<1>2. s = -LowBlocks
  BY NullBlock
<1>3. L = m.live
  <2>1. \A b \in m.live : b.start # s
    BY <1>1, <1>2, HeapAssumption DEF Extents, Blocks
  <2> QED
    BY <2>1
<1>4. kfree(m, p, kind, 0) = x
  BY Zenon DEF kfree, SetHeap
<1>5. t \in Tables /\ Exact(t, L)
  BY <1>1, <1>2, <1>3, FreedNullExact
<1>6. L \in SUBSET Extents
  BY <1>1
<1> HIDE DEF t, L
<1>7. /\ x \in MemoryType /\ x.entries = t /\ x.live = L
      /\ x.allocations = m.allocations /\ x.directory = m.directory /\ x.program = m.program
  BY <1>5, <1>6, HeapChange
<1> QED
  BY <1>3, <1>4, <1>5, <1>7 DEF WithLive

-----------------------------------------------------------------------------
\* The other changes of a memory, one slot at a time.
SetDirectory(m, p, d) == [m EXCEPT !.directory[p] = d]
SetAllocations(m, p, t) == [m EXCEPT !.allocations[p] = t]
SetProgram(m, p, g) == [m EXCEPT !.program[p] = g]

\* What they leave alone.
LEMMA SetDirectoryFacts ==
    ASSUME NEW m \in MemoryType, NEW p \in Slots, NEW d \in [Blocks -> Flags]
    PROVE  LET x == SetDirectory(m, p, d)
           IN  /\ x \in MemoryType /\ x.entries = m.entries /\ x.live = m.live
               /\ x.allocations = m.allocations /\ x.program = m.program
               /\ x.directory[p] = d /\ \A q \in Slots \ {p} : x.directory[q] = m.directory[q]
<1> DEFINE f == [m.directory EXCEPT ![p] = d]
<1>1. SetDirectory(m, p, d) = [m EXCEPT !.directory = f]
  BY DEF SetDirectory, MemoryType
<1>2. f \in [Slots -> [Blocks -> Flags]] /\ f[p] = d /\ \A q \in Slots \ {p} : f[q] = m.directory[q]
  BY DEF MemoryType
<1> HIDE DEF f
<1> QED
  BY <1>1, <1>2 DEF MemoryType

\* The same for the table of a slot.
LEMMA SetAllocationsFacts ==
    ASSUME NEW m \in MemoryType, NEW p \in Slots, NEW t \in [Indices -> Entries]
    PROVE  LET x == SetAllocations(m, p, t)
           IN  /\ x \in MemoryType /\ x.entries = m.entries /\ x.live = m.live
               /\ x.directory = m.directory /\ x.program = m.program
               /\ x.allocations[p] = t
               /\ \A q \in Slots \ {p} : x.allocations[q] = m.allocations[q]
<1> DEFINE f == [m.allocations EXCEPT ![p] = t]
<1>1. SetAllocations(m, p, t) = [m EXCEPT !.allocations = f]
  BY DEF SetAllocations, MemoryType
<1>2. f \in [Slots -> [Indices -> Entries]] /\ f[p] = t
      /\ \A q \in Slots \ {p} : f[q] = m.allocations[q]
  BY DEF MemoryType
<1> HIDE DEF f
<1> QED
  BY <1>1, <1>2 DEF MemoryType

\* And for what its struct process points to.
LEMMA SetProgramFacts ==
    ASSUME NEW m \in MemoryType, NEW p \in Slots, NEW g \in [Kinds -> Nat]
    PROVE  LET x == SetProgram(m, p, g)
           IN  /\ x \in MemoryType /\ x.entries = m.entries /\ x.live = m.live
               /\ x.directory = m.directory /\ x.allocations = m.allocations
               /\ x.program[p] = g /\ \A q \in Slots \ {p} : x.program[q] = m.program[q]
<1> DEFINE f == [m.program EXCEPT ![p] = g]
<1>1. SetProgram(m, p, g) = [m EXCEPT !.program = f]
  BY DEF SetProgram, MemoryType
<1>2. f \in [Slots -> [Kinds -> Nat]] /\ f[p] = g /\ \A q \in Slots \ {p} : f[q] = m.program[q]
  BY DEF MemoryType
<1> HIDE DEF f
<1> QED
  BY <1>1, <1>2 DEF MemoryType

\* Nothing that belongs to slot q is different in x.
SameFor(m, x, q) ==
    /\ x.allocations[q] = m.allocations[q] /\ x.directory[q] = m.directory[q]
    /\ x.program[q] = m.program[q]
    /\ \A a \in Extents : a.owner = q => (a \in x.live <=> a \in m.live)

\* Then what holds of q in m holds in x.
LEMMA SameSlot ==
    ASSUME NEW m \in MemoryType, NEW x \in MemoryType, NEW q \in Slots, SameFor(m, x, q)
    PROVE  /\ MallocsOf(x, q) = MallocsOf(m, q) /\ (Loaded(x, q) <=> Loaded(m, q))
           /\ Listed(m, q) => Listed(x, q)
           /\ Points(m, q) => Points(x, q)
           /\ SlotRight(m, q) => SlotRight(x, q)
<1>1. m.live \subseteq Extents /\ x.live \subseteq Extents
  BY DEF MemoryType
<1>2. MallocsOf(x, q) = MallocsOf(m, q)
  BY <1>1 DEF MallocsOf, SameFor
<1>3. Loaded(x, q) <=> Loaded(m, q)
  BY DEF Loaded, SameFor
<1>4. Listed(m, q) => Listed(x, q)
  BY <1>2 DEF Listed, EntryRight, SameFor
<1>5. Points(m, q) => Points(x, q)
  BY <1>1 DEF Points, SameFor
<1>6. SlotRight(m, q) => SlotRight(x, q)
  BY <1>2, <1>3 DEF SlotRight, Mapped, SameFor
<1> QED
  BY <1>2, <1>3, <1>4, <1>5, <1>6

\* A memory with the same extents is as good.
LEMMA SameLive ==
    ASSUME NEW m, NEW x, MInv(m), WithLive(m, x, m.live)
    PROVE  MInv(x)
<1>1. m \in MemoryType /\ x \in MemoryType /\ \A q \in Slots : SameFor(m, x, q)
  BY DEF MInv, Core, WithLive, SameFor
<1> QED
  BY <1>1, SameSlot DEF MInv, Core, WithLive

\* What the invariant says of an entry that is in use.
LEMMA EntryFound ==
    ASSUME NEW m, Core(m), NEW p \in Slots, NEW i \in Indices, m.allocations[p][i].ptr # 0
    PROVE  LET e == m.allocations[p][i]
           IN  /\ e.ptr \in Nat /\ e.size \in Nat
               /\ \E a \in MallocsOf(m, p) : heap_block_to_address(a.start) = e.ptr /\ a.blocks = BlocksOf(e.size)
               /\ paging_align_address(e.ptr + e.size) = e.ptr + BlocksOf(e.size) * BlockSize
<1>1. EntryRight(m, p, m.allocations[p][i]) /\ m.allocations[p][i] \in Entries
  BY DEF Core, Listed, MemoryType
<1>2. m.allocations[p][i] # NoAllocation
  BY DEF NoAllocation
<1> QED
  BY <1>1, <1>2 DEF EntryRight, Entries

\* Blocks of different extents of m have different addresses, and different extents
\* different blocks.
LEMMA ExtentByAddress ==
    ASSUME NEW m, Core(m), NEW a \in m.live, NEW b \in m.live,
           heap_block_to_address(a.start) = heap_block_to_address(b.start)
    PROVE  a = b
<1>1. /\ a \in Extents /\ b \in Extents /\ a.blocks >= 1 /\ b.blocks >= 1
      /\ a.start \in Blocks /\ b.start \in Blocks /\ a.blocks \in Nat /\ b.blocks \in Nat
  BY DEF Core, MemoryType, Extents, Exact
<1>2. a.start = b.start
  BY <1>1, AddressFacts
<1>3. a.start \in Extent(a) /\ a.start \in Extent(b)
  BY <1>1, <1>2 DEF Extent, Blocks
<1> QED
  BY <1>3 DEF Core, Exact

-----------------------------------------------------------------------------
\* What else is right when an extent has been added to the heap.
LEMMA Grown ==
    ASSUME NEW m, NEW x, Core(m), NEW a \in Extents, WithLive(m, x, m.live \cup {a})
    PROVE  /\ \A q \in Slots : q # a.owner => SameFor(m, x, q)
           /\ \A q \in Slots : Points(x, q)
           /\ a.kind # "malloc" => \A q \in Slots : MallocsOf(x, q) = MallocsOf(m, q) /\ Listed(x, q)
<1>1. /\ x.live = m.live \cup {a} /\ x.allocations = m.allocations
      /\ x.directory = m.directory /\ x.program = m.program
  BY DEF WithLive
<1>2. \A q \in Slots : q # a.owner => SameFor(m, x, q)
  BY <1>1 DEF SameFor
<1>3. \A q \in Slots : Points(x, q)
  BY <1>1 DEF Core, Points
<1>4. ASSUME a.kind # "malloc", NEW q \in Slots
      PROVE  MallocsOf(x, q) = MallocsOf(m, q) /\ Listed(x, q)
  <2>1. MallocsOf(x, q) = MallocsOf(m, q)
    BY <1>1, <1>4 DEF MallocsOf
  <2> QED
    BY <1>1, <2>1 DEF Listed, EntryRight, Core
<1> QED
  BY <1>2, <1>3, <1>4

\* What else is right when one has been taken from it.
LEMMA Shrunk ==
    ASSUME NEW m, NEW x, Core(m), NEW a \in m.live, WithLive(m, x, m.live \ {a})
    PROVE  /\ \A q \in Slots : q # a.owner => SameFor(m, x, q)
           /\ a.kind = "malloc" => \A q \in Slots : Points(x, q)
           /\ a.kind # "malloc" => \A q \in Slots : MallocsOf(x, q) = MallocsOf(m, q) /\ Listed(x, q)
<1>1. /\ x.live = m.live \ {a} /\ x.allocations = m.allocations
      /\ x.directory = m.directory /\ x.program = m.program
  BY DEF WithLive
<1>2. \A q \in Slots : q # a.owner => SameFor(m, x, q)
  BY <1>1 DEF SameFor
<1>3. ASSUME a.kind = "malloc", NEW q \in Slots PROVE Points(x, q)
  <2>1. ASSUME NEW k \in Kinds, x.program[q][k] # 0
        PROVE  \E b \in x.live : b.owner = q /\ b.kind = k /\ heap_block_to_address(b.start) = x.program[q][k]
    <3>1. PICK b \in m.live : b.owner = q /\ b.kind = k /\ heap_block_to_address(b.start) = m.program[q][k]
      BY <1>1, <2>1 DEF Core, Points
    <3>2. k # "malloc"
      BY DEF Kinds
    <3>3. b # a
      BY <1>3, <3>1, <3>2
    <3> QED
      BY <1>1, <3>1, <3>3
  <2> QED
    BY <2>1 DEF Points
<1>4. ASSUME a.kind # "malloc", NEW q \in Slots
      PROVE  MallocsOf(x, q) = MallocsOf(m, q) /\ Listed(x, q)
  <2>1. MallocsOf(x, q) = MallocsOf(m, q)
    BY <1>1, <1>4 DEF MallocsOf
  <2> QED
    BY <1>1, <2>1 DEF Listed, EntryRight, Core
<1> QED
  BY <1>2, <1>3, <1>4

\* An extent handed out and freed again leaves the memory as it was.
LEMMA GivenBack ==
    ASSUME NEW m, NEW x, Core(m), NEW a \in Extents, a \notin m.live,
           WithLive(m, x, m.live \cup {a})
    PROVE  WithLive(m, kfree(x, a.owner, a.kind, heap_block_to_address(a.start)), m.live)
<1>1. /\ x \in MemoryType /\ Exact(x.entries, x.live) /\ a \in x.live /\ x.live \ {a} = m.live
      /\ x.allocations = m.allocations /\ x.directory = m.directory /\ x.program = m.program
  BY DEF WithLive
<1>2. WithLive(x, kfree(x, a.owner, a.kind, heap_block_to_address(a.start)), m.live)
  BY <1>1, KfreeLive
<1> QED
  BY <1>1, <1>2 DEF WithLive

\* Mapping the pages of an extent, and no others.
LEMMA MapExtent ==
    ASSUME NEW d \in [Blocks -> Flags], NEW a \in Extents, NEW flags \in Flags
    PROVE  LET ptr == heap_block_to_address(a.start)
               e == paging_map_to(d, ptr, ptr + a.blocks * BlockSize, flags)
           IN  /\ e \in [Blocks -> Flags]
               /\ \A j \in Blocks : e[j] = IF j \in Extent(a) THEN flags ELSE d[j]
<1> DEFINE ptr == heap_block_to_address(a.start)
           e == paging_map_to(d, ptr, ptr + a.blocks * BlockSize, flags)
<1>1. a.start \in Blocks /\ a.blocks \in Nat
  BY DEF Extents
<1>2. \A j \in Blocks : (ptr <= heap_block_to_address(j)
                          /\ heap_block_to_address(j) < ptr + a.blocks * BlockSize)
                            <=> j \in Extent(a)
  BY <1>1, RangeIsExtent DEF Extent
<1>3. e = [j \in Blocks |-> IF ptr <= heap_block_to_address(j)
                               /\ heap_block_to_address(j) < ptr + a.blocks * BlockSize
                            THEN flags ELSE d[j]]
  BY DEF paging_map_to
<1> HIDE DEF e, ptr
<1>4. e \in [Blocks -> Flags] /\ \A j \in Blocks : e[j] = IF j \in Extent(a) THEN flags ELSE d[j]
  BY <1>2, <1>3
<1> QED
  BY <1>4 DEF e, ptr

-----------------------------------------------------------------------------
\* The page of struct task is the first of an extent of its own.
LEMMA TaskBlock ==
    ASSUME NEW m, Core(m), NEW p \in Slots, m.program[p]["task"] # 0
    PROVE  \E b \in m.live :
              /\ b.kind = "task" /\ heap_address_to_block(m.program[p]["task"]) = b.start
              /\ b.start \in Blocks /\ b.start \in Extent(b)
<1>1. PICK b \in m.live : b.owner = p /\ b.kind = "task"
                          /\ heap_block_to_address(b.start) = m.program[p]["task"]
  BY DEF Core, Points, Kinds
<1>2. b \in Extents /\ b.start \in Blocks /\ b.blocks \in Nat /\ b.blocks >= 1
  BY DEF Core, MemoryType, Extents, Exact
<1>3. b.start \in Extent(b)
  BY <1>2 DEF Extent, Blocks
<1> QED
  BY <1>1, <1>2, <1>3, AddressFacts

\* An allocation of a loaded process, entered in its table and mapped.
LEMMA Entered ==
    ASSUME NEW m, NEW x, MInv(m), NEW p \in Slots, Loaded(m, p), NEW a \in Extents,
           a \notin m.live, a.owner = p, a.kind = "malloc",
           \A b \in m.live : Extent(a) \cap Extent(b) = {},
           WithLive(m, x, m.live \cup {a}),
           NEW i \in FreeIndices(m, p), NEW size \in Nat, a.blocks = BlocksOf(size),
           paging_align_address(heap_block_to_address(a.start) + size)
              = heap_block_to_address(a.start) + a.blocks * BlockSize,
           NEW d, NEW t,
           d = paging_map_to(x.directory[p], heap_block_to_address(a.start),
                             heap_block_to_address(a.start) + a.blocks * BlockSize, "writeable"),
           t = [x.allocations[p] EXCEPT ![i] = [ptr |-> heap_block_to_address(a.start), size |-> size]]
    PROVE  MInv(SetAllocations(SetDirectory(x, p, d), p, t))
<1> DEFINE ptr == heap_block_to_address(a.start)
           z == SetDirectory(x, p, d)
           y == SetAllocations(z, p, t)
<1>1. /\ m \in MemoryType /\ x \in MemoryType /\ x.live = m.live \cup {a}
      /\ Exact(x.entries, x.live) /\ x.allocations = m.allocations
      /\ x.directory = m.directory /\ x.program = m.program
      /\ Core(m) /\ m.live \subseteq Extents
  BY DEF WithLive, MInv, Core, MemoryType
<1>2. a.start \in Blocks /\ a.blocks \in Nat /\ a.blocks >= 1 /\ ptr \in Nat /\ ptr # 0
  <2>1. a.start \in Blocks /\ a.blocks \in Nat
    BY DEF Extents
  <2>2. a.blocks >= 1
    BY <1>1 DEF Exact
  <2> QED
    BY <2>1, <2>2, AddressFacts
<1>3. /\ d \in [Blocks -> Flags]
      /\ \A j \in Blocks : d[j] = IF j \in Extent(a) THEN "writeable" ELSE m.directory[p][j]
  <2>1. x.directory[p] \in [Blocks -> Flags] /\ x.directory[p] = m.directory[p] /\ "writeable" \in Flags
    BY <1>1 DEF MemoryType, Flags
  <2> DEFINE h == x.directory[p]
             e == paging_map_to(h, ptr, ptr + a.blocks * BlockSize, "writeable")
  <2>2. \A g \in [Blocks -> Flags] :
          LET f == paging_map_to(g, ptr, ptr + a.blocks * BlockSize, "writeable")
          IN  /\ f \in [Blocks -> Flags]
              /\ \A j \in Blocks : f[j] = IF j \in Extent(a) THEN "writeable" ELSE g[j]
    BY <2>1, MapExtent
  <2>3. d = e
    OBVIOUS
  <2>4. e \in [Blocks -> Flags] /\ \A j \in Blocks : e[j] = IF j \in Extent(a) THEN "writeable" ELSE h[j]
    BY <2>1, <2>2
  <2> HIDE DEF e
  <2> QED
    BY <2>1, <2>3, <2>4
<1>4. i \in Indices /\ m.allocations[p][i].ptr = 0 /\ m.allocations[p] \in [Indices -> Entries]
  BY <1>1 DEF FreeIndices, MemoryType
<1>5. /\ t \in [Indices -> Entries] /\ t[i].ptr = ptr /\ t[i].size = size
      /\ \A j \in Indices : j # i => t[j] = m.allocations[p][j]
  BY <1>1, <1>2, <1>4 DEF Entries
<1> HIDE DEF ptr
<1>6. /\ z \in MemoryType /\ z.entries = x.entries /\ z.live = x.live
      /\ z.allocations = m.allocations /\ z.program = m.program
      /\ z.directory[p] = d /\ \A q \in Slots \ {p} : z.directory[q] = m.directory[q]
  BY <1>1, <1>3, SetDirectoryFacts
<1> HIDE DEF z
<1>7. /\ y \in MemoryType /\ y.entries = x.entries /\ y.live = m.live \cup {a}
      /\ y.program = m.program /\ y.allocations[p] = t
      /\ \A q \in Slots \ {p} : y.allocations[q] = m.allocations[q]
      /\ y.directory[p] = d /\ \A q \in Slots \ {p} : y.directory[q] = m.directory[q]
  <2>1. /\ y \in MemoryType /\ y.entries = z.entries /\ y.live = z.live
        /\ y.directory = z.directory /\ y.program = z.program /\ y.allocations[p] = t
        /\ \A q \in Slots \ {p} : y.allocations[q] = z.allocations[q]
    BY <1>5, <1>6, SetAllocationsFacts
  <2> HIDE DEF y
  <2> QED
    BY <1>1, <1>6, <2>1
<1> HIDE DEF y
<1>8. \A q \in Slots \ {p} : SameFor(m, y, q)
  BY <1>7 DEF SameFor
<1>9. MallocsOf(y, p) = MallocsOf(m, p) \cup {a}
  BY <1>7 DEF MallocsOf
<1>10. \A q \in Slots \ {p} : Listed(y, q) /\ Points(y, q) /\ SlotRight(y, q)
  BY <1>1, <1>7, <1>8, SameSlot DEF MInv, Core
<1>11. Points(y, p)
  BY <1>1, <1>7 DEF Core, Points
<1>12. Listed(y, p)
  <2>1. ASSUME NEW j \in Indices PROVE EntryRight(y, p, t[j])
    <3>1. CASE j = i
      BY <1>5, <1>9, <3>1 DEF EntryRight, ptr
    <3>2. CASE j # i
      <4>1. EntryRight(m, p, t[j])
        BY <1>1, <1>5, <3>2 DEF Core, Listed
      <4> QED
        BY <1>9, <4>1 DEF EntryRight
    <3> QED
      BY <3>1, <3>2
  <2>2. ASSUME NEW j \in Indices, j # i PROVE t[j].ptr # ptr
    <3>1. SUFFICES ASSUME m.allocations[p][j].ptr = ptr PROVE FALSE
      BY <1>5, <2>2
    <3>2. PICK b \in MallocsOf(m, p) : heap_block_to_address(b.start) = ptr
      BY <1>1, <1>2, <3>1, EntryFound
    <3>3. b \in m.live /\ b \in Extents /\ b.start \in Blocks /\ b.blocks \in Nat /\ b.blocks >= 1
      BY <1>1 DEF MallocsOf, Extents, Core, Exact
    <3>4. b.start = a.start
      BY <1>2, <3>2, <3>3, AddressFacts DEF ptr
    <3>5. a.start \in Extent(a) /\ a.start \in Extent(b)
      BY <1>2, <3>3, <3>4 DEF Extent, Blocks
    <3> QED
      BY <3>3, <3>5
  <2>3. ASSUME NEW j \in Indices, NEW k \in Indices, j # k, t[j].ptr = t[k].ptr
        PROVE  t[j].ptr = 0
    <3>1. j # i /\ k # i
      BY <1>5, <2>2, <2>3
    <3>2. t[j] = m.allocations[p][j] /\ t[k] = m.allocations[p][k]
      BY <1>5, <3>1
    <3>3. Listed(m, p)
      BY <1>1 DEF Core
    <3> QED
      BY <2>3, <3>2, <3>3 DEF Listed
  <2>4. ASSUME NEW b \in MallocsOf(y, p)
        PROVE  \E j \in Indices : t[j].ptr = heap_block_to_address(b.start)
    <3>1. CASE b = a
      BY <1>4, <1>5, <3>1 DEF ptr
    <3>2. CASE b \in MallocsOf(m, p)
      <4>1. Listed(m, p)
        BY <1>1 DEF Core
      <4>2. PICK j \in Indices : m.allocations[p][j].ptr = heap_block_to_address(b.start)
        BY <3>2, <4>1 DEF Listed
      <4>3. b.start \in Blocks
        BY <1>1, <3>2 DEF MallocsOf, Extents
      <4>4. j # i
        BY <1>4, <4>2, <4>3, AddressFacts
      <4> QED
        BY <1>5, <4>2, <4>4
    <3> QED
      BY <1>9, <3>1, <3>2
  <2> QED
    BY <1>7, <2>1, <2>3, <2>4 DEF Listed
<1>13. SlotRight(y, p)
  <2>1. Mapped(m, p)
    BY DEF MInv, SlotRight
  <2>2. \A j \in Blocks : d[j] = "writeable" <=> \E b \in MallocsOf(y, p) : j \in Extent(b)
    BY <1>3, <1>9, <2>1 DEF Mapped
  <2>3. PICK b \in m.live : /\ heap_address_to_block(m.program[p]["task"]) = b.start
                            /\ b.start \in Blocks /\ b.start \in Extent(b)
    BY <1>1, <2>1, TaskBlock DEF Mapped
  <2>4. b.start \notin Extent(a)
    BY <2>3
  <2>5. d[heap_address_to_block(m.program[p]["task"])] = "read-only"
    BY <1>3, <2>1, <2>3, <2>4 DEF Mapped
  <2>6. Mapped(y, p)
    BY <1>7, <2>1, <2>2, <2>5 DEF Mapped
  <2>7. Loaded(y, p)
    BY <1>7 DEF Loaded
  <2> QED
    BY <2>6, <2>7 DEF SlotRight
<1>14. MInv(y)
  BY <1>1, <1>7, <1>10, <1>11, <1>12, <1>13 DEF MInv, Core
<1> QED
  BY <1>14 DEF y, z

\* malloc keeps the invariant.
LEMMA MallocInv ==
    ASSUME NEW m, MInv(m), NEW p \in Slots, Loaded(m, p),
           NEW size \in 0 .. WordSize - 1, BlocksOf(size) >= 1
    PROVE  LET r == process_malloc(m, p, size)
           IN  r \in [mem : MemoryType, ptr : Nat] /\ MInv(r.mem) /\ r.mem.program = m.program
<1> DEFINE r == kzalloc(m, p, "malloc", size)
           end == paging_align_address(r.ptr + size)
           i == Lowest(FreeIndices(m, p))
           x == r.mem
           d == paging_map_to(x.directory[p], r.ptr, end, "writeable")
           t == [x.allocations[p] EXCEPT ![i] = [ptr |-> r.ptr, size |-> size]]
           y == SetAllocations(SetDirectory(x, p, d), p, t)
           res == process_malloc(m, p, size)
           entered == [mem |-> [x EXCEPT
                          !.directory[p] = paging_map_to(@, r.ptr, end, "writeable"),
                          !.allocations[p][i] = [ptr |-> r.ptr, size |-> size]],
                       ptr |-> r.ptr]
           back == [mem |-> kfree(x, p, "malloc", r.ptr), ptr |-> 0]
<1>1. m \in MemoryType /\ Exact(m.entries, m.live) /\ Core(m) /\ "malloc" \in AllKinds
      /\ size \in Nat
  BY DEF MInv, Core, AllKinds
<1>2. /\ r \in [mem : MemoryType, ptr : Nat]
      /\ \/ r.ptr = 0 /\ r.mem = m
         \/ \E a \in Extents :
              /\ a \notin m.live /\ a.blocks = BlocksOf(size) /\ a.owner = p /\ a.kind = "malloc"
              /\ r.ptr = heap_block_to_address(a.start)
              /\ \A b \in m.live : Extent(a) \cap Extent(b) = {}
              /\ WithLive(m, r.mem, m.live \cup {a})
  BY <1>1, KzallocFacts
<1>3. res = CASE r.ptr = 0 -> r
              [] r.ptr # 0 /\ (FreeIndices(m, p) = {} \/ MapFails(r.ptr, end)) -> back
              [] OTHER -> entered
  BY Zenon DEF process_malloc
<1>4. entered = [mem |-> y, ptr |-> r.ptr]
  BY Zenon DEF SetAllocations, SetDirectory
<1>5. back = [mem |-> kfree(x, p, "malloc", r.ptr), ptr |-> 0]
  OBVIOUS
<1> HIDE DEF r, res, entered, back
<1>6. CASE r.ptr = 0
  <2>1. res = r
    BY <1>3, <1>6
  <2>2. r.mem = m
    BY <1>2, <1>6, AddressFacts DEF Extents
  <2> QED
    BY <1>2, <2>1, <2>2 DEF res
<1>7. CASE r.ptr # 0
  <2>1. PICK a \in Extents :
           /\ a \notin m.live /\ a.blocks = BlocksOf(size) /\ a.owner = p /\ a.kind = "malloc"
           /\ r.ptr = heap_block_to_address(a.start)
           /\ \A b \in m.live : Extent(a) \cap Extent(b) = {}
           /\ WithLive(m, x, m.live \cup {a})
    BY <1>2, <1>7
  <2>2. CASE FreeIndices(m, p) = {} \/ MapFails(r.ptr, end)
    <3>1. res = back
      BY <1>3, <1>7, <2>2
    <3>2. WithLive(m, kfree(x, p, "malloc", r.ptr), m.live)
      BY <1>1, <2>1, GivenBack
    <3>3. MInv(res.mem)
      BY <1>5, <3>1, <3>2, SameLive
    <3>4. res.mem.program = m.program
      BY <1>5, <3>1, <3>2 DEF WithLive
    <3>5. res \in [mem : MemoryType, ptr : Nat]
      BY <1>5, <3>1, <3>2 DEF WithLive
    <3> QED
      BY <3>3, <3>4, <3>5 DEF res
  <2>3. CASE ~(FreeIndices(m, p) = {} \/ MapFails(r.ptr, end))
    <3>1. res = entered
      BY <1>3, <1>7, <2>3
    <3>2. i \in FreeIndices(m, p)
      <4>1. FreeIndices(m, p) \subseteq Nat /\ FreeIndices(m, p) # {}
        BY <2>3 DEF FreeIndices, Indices
      <4> QED
        BY <4>1, LowestIn
    <3>3. a.start \in Blocks
      BY DEF Extents
    <3>4. end \in Nat /\ (end < r.ptr \/ end = r.ptr + BlocksOf(size) * BlockSize)
      BY <2>1, <3>3, EndFacts
    <3>5. ~(end < r.ptr)
      BY <2>3 DEF MapFails
    <3>6. end = heap_block_to_address(a.start) + a.blocks * BlockSize
      BY <2>1, <3>4, <3>5
    <3>7. paging_align_address(heap_block_to_address(a.start) + size)
             = heap_block_to_address(a.start) + a.blocks * BlockSize
      BY <2>1, <3>6
    <3>8. d = paging_map_to(x.directory[p], heap_block_to_address(a.start),
                            heap_block_to_address(a.start) + a.blocks * BlockSize, "writeable")
      BY <2>1, <3>6
    <3>9. t = [x.allocations[p] EXCEPT ![i] = [ptr |-> heap_block_to_address(a.start), size |-> size]]
      BY <2>1
    <3> HIDE DEF d, t, i, x, end
    <3>10. MInv(y)
      BY <1>1, <2>1, <3>2, <3>7, <3>8, <3>9, Entered
    <3>11. y.program = m.program
      <4>1. x \in MemoryType /\ x.program = m.program
        BY <2>1 DEF WithLive
      <4> QED
        BY <4>1, Zenon DEF y, SetAllocations, SetDirectory, MemoryType
    <3>12. y \in MemoryType
      BY <3>10 DEF MInv, Core
    <3> HIDE DEF y
    <3>13. res.mem = y /\ res \in [mem : MemoryType, ptr : Nat]
      BY <1>2, <1>4, <3>1, <3>12
    <3> QED
      BY <3>10, <3>11, <3>13 DEF res
  <2> QED
    BY <2>2, <2>3
<1> QED
  BY <1>6, <1>7

-----------------------------------------------------------------------------
\* What a free does for the caller: the entries with the pointer are cleared, the others
\* and the programs are kept, and nothing is added to the heap.
Cleared(m, y, p, ptr) ==
    /\ y.program = m.program /\ y.live \subseteq m.live
    /\ \A i \in Indices : y.allocations[p][i] = IF m.allocations[p][i].ptr = ptr THEN NoAllocation
                                                ELSE m.allocations[p][i]

\* An allocation taken from the directory, from the table and from the heap.
LEMMA Removed ==
    ASSUME NEW m, MInv(m), NEW p \in Slots, Loaded(m, p), NEW a \in MallocsOf(m, p),
           NEW d, NEW t,
           d = paging_map_to(m.directory[p], heap_block_to_address(a.start),
                             heap_block_to_address(a.start) + a.blocks * BlockSize, "absent"),
           t = process_allocation_unjoin(m.allocations[p], heap_block_to_address(a.start))
    PROVE  LET y == kfree(SetAllocations(SetDirectory(m, p, d), p, t), p, "malloc",
                          heap_block_to_address(a.start))
           IN  MInv(y) /\ Cleared(m, y, p, heap_block_to_address(a.start))
<1> DEFINE ptr == heap_block_to_address(a.start)
           z == SetDirectory(m, p, d)
           x == SetAllocations(z, p, t)
           y == kfree(x, p, "malloc", ptr)
<1>1. /\ m \in MemoryType /\ Core(m) /\ m.live \subseteq Extents /\ Exact(m.entries, m.live)
      /\ a \in m.live /\ a.owner = p /\ a.kind = "malloc" /\ a \in Extents
  BY DEF MInv, Core, MemoryType, MallocsOf
<1>2. a.start \in Blocks /\ a.blocks \in Nat /\ a.blocks >= 1 /\ ptr \in Nat /\ ptr # 0
  <2>1. a.start \in Blocks /\ a.blocks \in Nat
    BY <1>1 DEF Extents
  <2>2. a.blocks >= 1
    BY <1>1 DEF Exact
  <2> QED
    BY <2>1, <2>2, AddressFacts
<1>3. /\ d \in [Blocks -> Flags]
      /\ \A j \in Blocks : d[j] = IF j \in Extent(a) THEN "absent" ELSE m.directory[p][j]
  <2> DEFINE h == m.directory[p]
             e == paging_map_to(h, ptr, ptr + a.blocks * BlockSize, "absent")
  <2>1. h \in [Blocks -> Flags] /\ "absent" \in Flags
    BY <1>1 DEF MemoryType, Flags
  <2>2. \A g \in [Blocks -> Flags] :
          LET f == paging_map_to(g, ptr, ptr + a.blocks * BlockSize, "absent")
          IN  /\ f \in [Blocks -> Flags]
              /\ \A j \in Blocks : f[j] = IF j \in Extent(a) THEN "absent" ELSE g[j]
    BY <1>1, <2>1, MapExtent, ZenonT(30)
  <2>3. d = e
    OBVIOUS
  <2>4. e \in [Blocks -> Flags] /\ \A j \in Blocks : e[j] = IF j \in Extent(a) THEN "absent" ELSE h[j]
    BY <2>1, <2>2
  <2> HIDE DEF e
  <2> QED
    BY <2>1, <2>3, <2>4
<1>4. /\ t \in [Indices -> Entries]
      /\ \A j \in Indices : t[j] = IF m.allocations[p][j].ptr = ptr THEN NoAllocation
                                   ELSE m.allocations[p][j]
  <2>1. m.allocations[p] \in [Indices -> Entries] /\ NoAllocation \in Entries
    BY <1>1 DEF MemoryType, NoAllocation, Entries
  <2> QED
    BY <2>1 DEF process_allocation_unjoin
<1> HIDE DEF ptr
<1>5. /\ z \in MemoryType /\ z.entries = m.entries /\ z.live = m.live
      /\ z.allocations = m.allocations /\ z.program = m.program
      /\ z.directory[p] = d /\ \A q \in Slots \ {p} : z.directory[q] = m.directory[q]
  BY <1>1, <1>3, SetDirectoryFacts
<1> HIDE DEF z
<1>6. /\ x \in MemoryType /\ x.entries = z.entries /\ x.live = z.live
      /\ x.directory = z.directory /\ x.program = z.program /\ x.allocations[p] = t
      /\ \A q \in Slots \ {p} : x.allocations[q] = z.allocations[q]
  BY <1>4, <1>5, SetAllocationsFacts
<1> HIDE DEF x
<1>7. WithLive(x, y, x.live \ {a})
  <2>1. Exact(x.entries, x.live) /\ a \in x.live
    BY <1>1, <1>5, <1>6
  <2> QED
    BY <1>1, <1>6, <2>1, KfreeLive DEF ptr
<1> HIDE DEF y
<1>8. /\ y \in MemoryType /\ y.live = m.live \ {a} /\ Exact(y.entries, y.live)
      /\ y.program = m.program /\ y.allocations[p] = t
      /\ \A q \in Slots \ {p} : y.allocations[q] = m.allocations[q]
      /\ y.directory[p] = d /\ \A q \in Slots \ {p} : y.directory[q] = m.directory[q]
  BY <1>5, <1>6, <1>7 DEF WithLive
<1>9. \A q \in Slots \ {p} : SameFor(m, y, q)
  BY <1>1, <1>8 DEF SameFor
<1>10. MallocsOf(y, p) = MallocsOf(m, p) \ {a}
  BY <1>8 DEF MallocsOf
<1>11. \A q \in Slots \ {p} : Listed(y, q) /\ Points(y, q) /\ SlotRight(y, q)
  BY <1>1, <1>8, <1>9, SameSlot DEF MInv, Core
<1>12. Points(y, p)
  <2>1. ASSUME NEW k \in Kinds, m.program[p][k] # 0
        PROVE  \E b \in y.live : b.owner = p /\ b.kind = k /\ heap_block_to_address(b.start) = m.program[p][k]
    <3>1. PICK b \in m.live : b.owner = p /\ b.kind = k /\ heap_block_to_address(b.start) = m.program[p][k]
      BY <1>1, <2>1 DEF Core, Points
    <3>2. k # "malloc"
      BY DEF Kinds
    <3> QED
      BY <1>1, <1>8, <3>1, <3>2
  <2> QED
    BY <1>8, <2>1 DEF Points
<1>13. Listed(m, p) /\ Mapped(m, p)
  BY <1>1 DEF Core, MInv, SlotRight
<1>14. Listed(y, p)
  <2>1. ASSUME NEW j \in Indices PROVE EntryRight(y, p, t[j])
    <3>1. CASE m.allocations[p][j].ptr = ptr \/ m.allocations[p][j] = NoAllocation
      BY <1>4, <3>1 DEF EntryRight
    <3>2. CASE m.allocations[p][j].ptr # ptr /\ m.allocations[p][j] # NoAllocation
      <4>1. t[j] = m.allocations[p][j] /\ EntryRight(m, p, t[j])
        BY <1>4, <1>13, <3>2 DEF Listed
      <4>2. PICK b \in MallocsOf(m, p) : heap_block_to_address(b.start) = t[j].ptr /\ b.blocks = BlocksOf(t[j].size)
        BY <3>2, <4>1 DEF EntryRight
      <4>3. b # a
        BY <3>2, <4>1, <4>2 DEF ptr
      <4> QED
        BY <1>10, <3>2, <4>1, <4>2, <4>3 DEF EntryRight
    <3> QED
      BY <3>1, <3>2
  <2>2. ASSUME NEW j \in Indices, NEW k \in Indices, j # k, t[j].ptr = t[k].ptr
        PROVE  t[j].ptr = 0
    <3>1. NoAllocation.ptr = 0
      BY DEF NoAllocation
    <3>2. CASE m.allocations[p][j].ptr = ptr
      BY <1>4, <3>1, <3>2
    <3>3. CASE m.allocations[p][k].ptr = ptr
      BY <1>4, <2>2, <3>1, <3>3
    <3>4. CASE m.allocations[p][j].ptr # ptr /\ m.allocations[p][k].ptr # ptr
      <4>1. t[j] = m.allocations[p][j] /\ t[k] = m.allocations[p][k]
        BY <1>4, <3>4
      <4> QED
        BY <1>13, <2>2, <4>1 DEF Listed
    <3> QED
      BY <3>2, <3>3, <3>4
  <2>3. ASSUME NEW b \in MallocsOf(y, p)
        PROVE  \E j \in Indices : t[j].ptr = heap_block_to_address(b.start)
    <3>1. b \in MallocsOf(m, p) /\ b # a /\ b \in m.live
      BY <1>10 DEF MallocsOf
    <3>2. PICK j \in Indices : m.allocations[p][j].ptr = heap_block_to_address(b.start)
      BY <1>13, <3>1 DEF Listed
    <3>3. heap_block_to_address(b.start) # ptr
      BY <1>1, <3>1, ExtentByAddress DEF ptr
    <3> QED
      BY <1>4, <3>2, <3>3
  <2> QED
    BY <1>8, <2>1, <2>2, <2>3 DEF Listed
<1>15. SlotRight(y, p)
  <2>1. \A b \in MallocsOf(y, p) : Extent(b) \cap Extent(a) = {}
    BY <1>1, <1>10 DEF Exact, MallocsOf
  <2>2. \A j \in Blocks : d[j] = "writeable" <=> \E b \in MallocsOf(y, p) : j \in Extent(b)
    BY <1>3, <1>10, <1>13, <2>1 DEF Mapped
  <2>3. PICK b \in m.live : /\ heap_address_to_block(m.program[p]["task"]) = b.start /\ b.kind = "task"
                            /\ b.start \in Blocks /\ b.start \in Extent(b)
    BY <1>1, <1>13, TaskBlock DEF Mapped
  <2>4. b # a
    BY <1>1, <2>3
  <2>5. b.start \notin Extent(a)
    BY <1>1, <2>3, <2>4 DEF Exact
  <2>6. d[heap_address_to_block(m.program[p]["task"])] = "read-only"
    BY <1>3, <1>13, <2>3, <2>5 DEF Mapped
  <2>7. Mapped(y, p)
    BY <1>8, <1>13, <2>2, <2>6 DEF Mapped
  <2>8. Loaded(y, p)
    BY <1>8 DEF Loaded
  <2> QED
    BY <2>7, <2>8 DEF SlotRight
<1>16. MInv(y)
  BY <1>8, <1>11, <1>12, <1>14, <1>15 DEF MInv, Core
<1>17. Cleared(m, y, p, ptr)
  BY <1>4, <1>8 DEF Cleared
<1> QED
  BY <1>16, <1>17 DEF y, x, z, ptr

\* free(0) walks an unused entry: nothing is unmapped and kfree(0) takes nothing.
LEMMA RemovedNull ==
    ASSUME NEW m, MInv(m), NEW p \in Slots, Loaded(m, p), NEW d, NEW t,
           d = paging_map_to(m.directory[p], 0, 0, "absent"),
           t = process_allocation_unjoin(m.allocations[p], 0)
    PROVE  LET y == kfree(SetAllocations(SetDirectory(m, p, d), p, t), p, "malloc", 0)
           IN  MInv(y) /\ Cleared(m, y, p, 0)
<1> DEFINE z == SetDirectory(m, p, d)
           x == SetAllocations(z, p, t)
           y == kfree(x, p, "malloc", 0)
<1>1. /\ m \in MemoryType /\ Exact(m.entries, m.live) /\ Listed(m, p)
      /\ m.directory[p] \in [Blocks -> Flags] /\ m.allocations[p] \in [Indices -> Entries]
  BY DEF MInv, Core, MemoryType
<1>2. d = m.directory[p]
  <2>1. \A j \in Blocks : ~(heap_block_to_address(j) < 0)
    BY AddressFacts
  <2> QED
    BY <1>1, <2>1 DEF paging_map_to
<1>3. \A i \in Indices : m.allocations[p][i].ptr = 0 => m.allocations[p][i] = NoAllocation
  <2>1. ASSUME NEW i \in Indices, m.allocations[p][i].ptr = 0, m.allocations[p][i] # NoAllocation
        PROVE  FALSE
    <3>1. PICK a \in MallocsOf(m, p) : heap_block_to_address(a.start) = 0
      BY <1>1, <2>1 DEF Listed, EntryRight
    <3>2. a.start \in Blocks
      BY <1>1 DEF MallocsOf, MemoryType, Extents
    <3> QED
      BY <3>1, <3>2, AddressFacts
  <2> QED
    BY <2>1
<1>4. t = m.allocations[p]
  BY <1>1, <1>3 DEF process_allocation_unjoin
<1>5. /\ z \in MemoryType /\ z.entries = m.entries /\ z.live = m.live
      /\ z.allocations = m.allocations /\ z.program = m.program
      /\ z.directory[p] = d /\ \A q \in Slots \ {p} : z.directory[q] = m.directory[q]
  BY <1>1, <1>2, SetDirectoryFacts
<1> HIDE DEF z
<1>6. /\ x \in MemoryType /\ x.entries = z.entries /\ x.live = z.live
      /\ x.directory = z.directory /\ x.program = z.program /\ x.allocations[p] = t
      /\ \A q \in Slots \ {p} : x.allocations[q] = z.allocations[q]
  BY <1>1, <1>4, <1>5, SetAllocationsFacts
<1> HIDE DEF x
<1>7. x.directory = m.directory /\ x.allocations = m.allocations
  <2>1. \A q \in Slots : x.directory[q] = m.directory[q] /\ x.allocations[q] = m.allocations[q]
    BY <1>2, <1>4, <1>5, <1>6
  <2> QED
    BY <1>1, <1>6, <2>1 DEF MemoryType
<1>8. WithLive(x, y, x.live)
  BY <1>1, <1>5, <1>6, KfreeNull
<1> HIDE DEF y
<1>9. WithLive(m, y, m.live)
  BY <1>5, <1>6, <1>7, <1>8 DEF WithLive
<1>10. MInv(y)
  BY <1>9, SameLive
<1>11. Cleared(m, y, p, 0)
  BY <1>3, <1>9 DEF Cleared, WithLive
<1> QED
  BY <1>10, <1>11 DEF y, x, z

-----------------------------------------------------------------------------
\* free keeps the invariant, whatever pointer it is given.
LEMMA FreeInv ==
    ASSUME NEW m, MInv(m), NEW p \in Slots, Loaded(m, p), NEW ptr \in Nat
    PROVE  LET y == process_free(m, p, ptr)
           IN  MInv(y) /\ Cleared(m, y, p, ptr)
<1> DEFINE found == {i \in Indices : m.allocations[p][i].ptr = ptr}
           low == Lowest(found)
           end == paging_align_address(ptr + m.allocations[p][low].size)
           d == paging_map_to(m.directory[p], ptr, end, "absent")
           t == process_allocation_unjoin(m.allocations[p], ptr)
           y == process_free(m, p, ptr)
<1>1. m \in MemoryType /\ Core(m) /\ Listed(m, p)
  BY DEF MInv, Core
<1>2. y = IF found = {} \/ MapFails(ptr, end) THEN m
          ELSE kfree([m EXCEPT !.directory[p] = paging_map_to(@, ptr, end, "absent"),
                               !.allocations[p] = process_allocation_unjoin(@, ptr)],
                     p, "malloc", ptr)
  BY DEF process_free
<1>3. [m EXCEPT !.directory[p] = paging_map_to(@, ptr, end, "absent"),
                !.allocations[p] = process_allocation_unjoin(@, ptr)]
        = SetAllocations(SetDirectory(m, p, d), p, t)
  <2>1. [m EXCEPT !.directory[p] = paging_map_to(@, ptr, end, "absent"),
                  !.allocations[p] = process_allocation_unjoin(@, ptr)]
          = [[m EXCEPT !.directory[p] = d] EXCEPT
               !.allocations[p] = process_allocation_unjoin([m EXCEPT !.directory[p] = d].allocations[p], ptr)]
    BY Zenon
  <2>2. [m EXCEPT !.directory[p] = d].allocations = m.allocations
    BY <1>1 DEF MemoryType
  <2> QED
    BY <2>1, <2>2, Zenon DEF SetAllocations, SetDirectory
<1>4. y = IF found = {} \/ MapFails(ptr, end) THEN m
          ELSE kfree(SetAllocations(SetDirectory(m, p, d), p, t), p, "malloc", ptr)
  BY <1>2, <1>3, Zenon
<1> HIDE DEF y
<1>5. CASE found = {}
  <2>1. y = m
    BY <1>4, <1>5
  <2>2. m.program = m.program /\ m.live \subseteq m.live
    OBVIOUS
  <2>3. \A i \in Indices : m.allocations[p][i].ptr # ptr
    BY <1>5
  <2>4. Cleared(m, m, p, ptr)
    BY <2>2, <2>3 DEF Cleared
  <2> QED
    BY <2>1, <2>4 DEF y
<1>6. CASE found # {}
  <2>1. low \in Indices /\ m.allocations[p][low].ptr = ptr
    <3>1. found \subseteq Nat
      BY DEF Indices
    <3>2. low \in found
      <4> HIDE DEF found
      <4> QED
        BY <1>6, <3>1, LowestIn
    <3> QED
      BY <3>2
  <2> HIDE DEF found, low
  <2>2. CASE ptr # 0
    <3>1. PICK a \in MallocsOf(m, p) : /\ heap_block_to_address(a.start) = ptr
                                       /\ a.blocks = BlocksOf(m.allocations[p][low].size)
      BY <1>1, <2>1, <2>2, EntryFound
    <3>2. end = ptr + a.blocks * BlockSize
      BY <1>1, <2>1, <2>2, <3>1, EntryFound
    <3> HIDE DEF end
    <3>3. a.blocks \in Nat /\ BlockSize \in Nat
      BY <1>1, HeapAssumption DEF MallocsOf, MemoryType, Extents
    <3>4. a.blocks * BlockSize >= 0
      BY <3>3
    <3>5. ~MapFails(ptr, end)
      <4> DEFINE c == a.blocks * BlockSize
      <4>1. c \in Int
        BY <3>3
      <4>2. end = ptr + c /\ c >= 0
        BY <3>2, <3>4
      <4> HIDE DEF c
      <4> QED
        BY <4>1, <4>2 DEF MapFails
    <3>6. y = kfree(SetAllocations(SetDirectory(m, p, d), p, t), p, "malloc", ptr)
      BY <1>4, <1>6, <3>5
    <3>7. /\ d = paging_map_to(m.directory[p], heap_block_to_address(a.start),
                               heap_block_to_address(a.start) + a.blocks * BlockSize, "absent")
          /\ t = process_allocation_unjoin(m.allocations[p], heap_block_to_address(a.start))
      BY <3>1, <3>2
    <3> HIDE DEF d, t
    <3>8. LET w == kfree(SetAllocations(SetDirectory(m, p, d), p, t), p, "malloc",
                         heap_block_to_address(a.start))
          IN  MInv(w) /\ Cleared(m, w, p, heap_block_to_address(a.start))
      BY <3>7, Removed
    <3> QED
      BY <3>1, <3>6, <3>8 DEF y
  <2>3. CASE ptr = 0
    <3>1. m.allocations[p][low].size = 0
      <4>1. EntryRight(m, p, m.allocations[p][low])
        BY <1>1, <2>1 DEF Listed
      <4>2. \A a \in MallocsOf(m, p) : a.start \in Blocks
        BY <1>1 DEF MallocsOf, MemoryType, Extents
      <4>3. m.allocations[p][low] = NoAllocation
        BY <2>1, <2>3, <4>1, <4>2, AddressFacts DEF EntryRight
      <4> QED
        BY <4>3 DEF NoAllocation
    <3>2. end = 0
      <4>1. BlockSize \in Nat \ {0} /\ WordSize \in Nat \ {0}
        BY WordInBlocks
      <4>2. 0 % WordSize = 0 /\ 0 % BlockSize = 0
        BY <4>1, ModUnique
      <4>3. paging_align_address(0) = 0
        BY <4>2 DEF paging_align_address, heap_align_value_to_upper
      <4> QED
        BY <2>3, <3>1, <4>3
    <3> HIDE DEF end
    <3>3. ~MapFails(ptr, end)
      BY <2>3, <3>2 DEF MapFails
    <3>4. y = kfree(SetAllocations(SetDirectory(m, p, d), p, t), p, "malloc", 0)
      BY <1>4, <1>6, <2>3, <3>3
    <3>5. /\ d = paging_map_to(m.directory[p], 0, 0, "absent")
          /\ t = process_allocation_unjoin(m.allocations[p], 0)
      BY <2>3, <3>2
    <3> HIDE DEF d, t
    <3>6. LET w == kfree(SetAllocations(SetDirectory(m, p, d), p, t), p, "malloc", 0)
          IN  MInv(w) /\ Cleared(m, w, p, 0)
      BY <3>5, RemovedNull
    <3> QED
      BY <2>3, <3>4, <3>6 DEF y
  <2> QED
    BY <2>2, <2>3
<1> QED
  BY <1>5, <1>6

-----------------------------------------------------------------------------
\* The buffer lent to the task is given back and its page mapped as it was.
LEMMA CopyInv ==
    ASSUME NonzeroRequests, NEW m, MInv(m), NEW p \in Slots
    PROVE  LET y == copy_string_from_task(m, p)
           IN  MInv(y) /\ y.program = m.program /\ y.live = m.live
<1> DEFINE r == kzalloc(m, p, "tmp", ObjectSize)
           dir == paging_map_to(m.directory[p], r.ptr, r.ptr + BlockSize, "writeable")
           back == [dir EXCEPT ![heap_address_to_block(r.ptr)] =
                                 m.directory[p][heap_address_to_block(r.ptr)]]
           x == r.mem
           z == SetDirectory(x, p, back)
           y == copy_string_from_task(m, p)
<1>1. /\ m \in MemoryType /\ Core(m) /\ Exact(m.entries, m.live) /\ "tmp" \in AllKinds
      /\ m.directory[p] \in [Blocks -> Flags]
  BY DEF MInv, Core, AllKinds, MemoryType
<1>2. ObjectSize \in 0 .. WordSize - 1 /\ BlocksOf(ObjectSize) >= 1
  BY SizesAssumption DEF NonzeroRequests
<1>3. \/ r.ptr = 0 /\ r.mem = m
      \/ \E a \in Extents :
           /\ a \notin m.live /\ a.owner = p /\ a.kind = "tmp"
           /\ r.ptr = heap_block_to_address(a.start)
           /\ WithLive(m, r.mem, m.live \cup {a})
  BY <1>1, <1>2, KzallocFacts
<1>4. y = IF r.ptr = 0 THEN m ELSE kfree(z, p, "tmp", r.ptr)
  BY Zenon DEF copy_string_from_task, SetDirectory
<1> HIDE DEF r, y
<1>5. CASE r.ptr = 0
  BY <1>4, <1>5 DEF y
<1>6. CASE r.ptr # 0
  <2>1. PICK a \in Extents :
           /\ a \notin m.live /\ a.owner = p /\ a.kind = "tmp"
           /\ r.ptr = heap_block_to_address(a.start)
           /\ WithLive(m, x, m.live \cup {a})
    BY <1>3, <1>6
  <2>2. a.start \in Blocks /\ heap_address_to_block(r.ptr) = a.start
    BY <2>1, AddressFacts DEF Extents
  <2>3. back = m.directory[p]
    <3>1. BlockSize = 1 * BlockSize /\ 1 \in Nat
      BY HeapAssumption
    <3>2. \A j \in Blocks : (r.ptr <= heap_block_to_address(j)
                               /\ heap_block_to_address(j) < r.ptr + 1 * BlockSize)
                                 <=> a.start <= j /\ j < a.start + 1
      BY <2>1, <2>2, <3>1, RangeIsExtent
    <3>3. \A j \in Blocks : (r.ptr <= heap_block_to_address(j)
                               /\ heap_block_to_address(j) < r.ptr + BlockSize) => j = a.start
      BY <2>2, <3>1, <3>2 DEF Blocks
    <3>4. dir = [j \in Blocks |-> IF r.ptr <= heap_block_to_address(j)
                                     /\ heap_block_to_address(j) < r.ptr + BlockSize
                                  THEN "writeable" ELSE m.directory[p][j]]
      BY DEF paging_map_to
    <3>5. \A j \in Blocks : j # a.start => dir[j] = m.directory[p][j]
      BY <3>3, <3>4
    <3>6. dir = [j \in Blocks |-> dir[j]]
      BY <3>4
    <3> HIDE DEF dir
    <3> QED
      BY <1>1, <2>2, <3>5, <3>6
  <2> HIDE DEF back, x
  <2>4. x \in MemoryType /\ x.directory = m.directory
    BY <2>1 DEF WithLive
  <2>5. /\ z \in MemoryType /\ z.entries = x.entries /\ z.live = x.live
        /\ z.allocations = x.allocations /\ z.program = x.program
        /\ z.directory[p] = back /\ \A q \in Slots \ {p} : z.directory[q] = x.directory[q]
    BY <1>1, <2>3, <2>4, SetDirectoryFacts
  <2> HIDE DEF z
  <2>6. z.directory = m.directory
    <3>1. \A q \in Slots : z.directory[q] = m.directory[q]
      BY <2>3, <2>4, <2>5
    <3> QED
      BY <1>1, <2>5, <3>1 DEF MemoryType
  <2>7. WithLive(m, z, m.live \cup {a})
    BY <2>1, <2>5, <2>6 DEF WithLive
  <2>8. WithLive(m, kfree(z, p, "tmp", r.ptr), m.live)
    BY <1>1, <2>1, <2>7, GivenBack
  <2>9. WithLive(m, y, m.live)
    BY <1>4, <1>6, <2>8
  <2>10. MInv(y)
    BY <2>9, SameLive
  <2>11. y.program = m.program /\ y.live = m.live
    BY <2>9 DEF WithLive
  <2> QED
    BY <2>10, <2>11 DEF y
<1> QED
  BY <1>5, <1>6

\* A buffer of the kernel more leaves the memory right.
LEMMA BufferInv ==
    ASSUME NonzeroRequests, NEW m, MInv(m), NEW p \in Slots
    PROVE  LET x == kzalloc(m, p, "tmp", ObjectSize).mem
           IN  MInv(x) /\ x.program = m.program
<1> DEFINE r == kzalloc(m, p, "tmp", ObjectSize)
           x == r.mem
<1>1. /\ m \in MemoryType /\ Core(m) /\ Exact(m.entries, m.live) /\ "tmp" \in AllKinds
  BY DEF MInv, Core, AllKinds
<1>2. ObjectSize \in 0 .. WordSize - 1 /\ BlocksOf(ObjectSize) >= 1
  BY SizesAssumption DEF NonzeroRequests
<1>3. \/ r.ptr = 0 /\ r.mem = m
      \/ \E a \in Extents :
           /\ a \notin m.live /\ a.owner = p /\ a.kind = "tmp"
           /\ r.ptr = heap_block_to_address(a.start)
           /\ WithLive(m, r.mem, m.live \cup {a})
  BY <1>1, <1>2, KzallocFacts
<1> HIDE DEF r
<1>4. CASE x = m
  BY <1>4 DEF r
<1>5. ASSUME NEW a \in Extents, a.kind = "tmp", WithLive(m, x, m.live \cup {a})
      PROVE  MInv(x) /\ x.program = m.program
  <2>1. /\ x \in MemoryType /\ Exact(x.entries, x.live)
        /\ x.directory = m.directory /\ x.program = m.program
    BY <1>5 DEF WithLive
  <2>2. \A q \in Slots : Points(x, q) /\ MallocsOf(x, q) = MallocsOf(m, q) /\ Listed(x, q)
    BY <1>1, <1>5, Grown
  <2>3. \A q \in Slots : SlotRight(x, q)
    BY <2>1, <2>2 DEF MInv, SlotRight, Mapped, Loaded
  <2> QED
    BY <2>1, <2>2, <2>3 DEF MInv, Core
<1> QED
  BY <1>3, <1>4, <1>5 DEF r

\* Freeing every entry of the table leaves the process without allocations.
LEMMA TerminateAllocations ==
    ASSUME NEW m, MInv(m), NEW p \in Slots, Loaded(m, p)
    PROVE  LET y == process_terminate_allocations(m, p)
           IN  /\ MInv(y) /\ y.program = m.program /\ y.live \subseteq m.live
               /\ MallocsOf(y, p) = {}
<1> DEFINE n == MaxAllocs
           G(i, x) == process_free(x, p, x.allocations[p][i - 1].ptr)
           S == {x \in MemoryType : MInv(x) /\ x.program = m.program /\ x.live \subseteq m.live}
           F(f) == f = [i \in 0 .. n |-> IF i = 0 THEN m ELSE G(i, f[i - 1])]
           g == [i \in 1 .. n |-> [x \in S |-> G(i, x)]]
           b == CHOOSE f : F(f)
<1>1. n \in Nat /\ m \in S /\ \A i \in 1 .. n : i - 1 \in Indices
  BY MaxAllocsAssumption DEF MInv, Core, Indices
<1>2. ASSUME NEW x \in S, NEW i \in 1 .. n
      PROVE  G(i, x) \in S /\ Cleared(x, G(i, x), p, x.allocations[p][i - 1].ptr)
  <2>1. x \in MemoryType /\ MInv(x) /\ x.program = m.program /\ x.live \subseteq m.live
    OBVIOUS
  <2>2. x.allocations[p][i - 1].ptr \in Nat
    <3>1. i - 1 \in Indices /\ x.allocations \in [Slots -> [Indices -> Entries]]
      BY <1>1, <2>1 DEF MemoryType
    <3>2. x.allocations[p][i - 1] \in Entries
      BY <3>1
    <3> QED
      BY <3>2 DEF Entries
  <2>3. Loaded(x, p)
    BY <2>1 DEF Loaded
  <2>4. MInv(G(i, x)) /\ Cleared(x, G(i, x), p, x.allocations[p][i - 1].ptr)
    BY <2>1, <2>2, <2>3, FreeInv
  <2> HIDE DEF G
  <2> QED
    BY <2>1, <2>4 DEF Cleared, MInv, Core
<1> HIDE DEF S
<1>3. g \in [1 .. n -> [S -> S]]
  <2> HIDE DEF G
  <2> QED
    BY <1>2
<1>4. \A i \in 1 .. n, x \in S : g[i][x] = G(i, x)
  <2> HIDE DEF G
  <2> QED
    OBVIOUS
<1> HIDE DEF g
<1>5. PICK f \in [0 .. n -> S] : f[0] = m /\ \A i \in 1 .. n : f[i] = g[i][f[i - 1]]
  <2> HIDE DEF n
  <2>1. n \in Nat /\ m \in S
    BY <1>1
  <2>2. Solvable(n, S, m, g)
    BY <1>3, <2>1, Recursion
  <2> QED
    BY <2>2 DEF Solvable
<1>6. F(f)
  <2> HIDE DEF G
  <2>1. ASSUME NEW i \in 1 .. n PROVE f[i] = G(i, f[i - 1])
    <3>1. f[i - 1] \in S
      BY <1>1
    <3>2. f[i] = g[i][f[i - 1]]
      BY <1>5
    <3> QED
      BY <1>4, <3>1, <3>2
  <2>2. \A i \in 0 .. n : f[i] = IF i = 0 THEN m ELSE G(i, f[i - 1])
    BY <1>1, <1>5, <2>1
  <2> QED
    BY <2>2
<1>7. F(b)
  <2> HIDE DEF F
  <2> QED
    BY <1>6
<1>8. process_terminate_allocations(m, p) = b[n]
  BY DEF process_terminate_allocations
<1> HIDE DEF b
<1>9. b[0] = m /\ \A i \in 1 .. n : b[i] = G(i, b[i - 1])
  <2> HIDE DEF G
  <2> QED
    BY <1>1, <1>7
<1> HIDE DEF G
<1>10. \A i \in 0 .. n : b[i] \in S
  BY <1>1, <1>2, <1>9, StaysIn
<1> DEFINE P == {i \in 0 .. n : \A j \in Indices : j < i => b[i].allocations[p][j] = NoAllocation}
<1>11. \A i \in 0 .. n : i \in P
  <2>1. 0 \in P
    BY <1>1 DEF Indices
  <2>2. ASSUME NEW i \in 1 .. n, i - 1 \in P PROVE i \in P
    <3> DEFINE x == b[i - 1]
    <3>1. x \in S /\ Cleared(x, b[i], p, x.allocations[p][i - 1].ptr)
      BY <1>1, <1>2, <1>9, <1>10
    <3>2. \A j \in Indices : j < i - 1 => x.allocations[p][j] = NoAllocation
      BY <2>2
    <3>3. ASSUME NEW j \in Indices, j < i PROVE b[i].allocations[p][j] = NoAllocation
      <4>1. j < i - 1 \/ j = i - 1
        BY <3>3 DEF Indices
      <4> HIDE DEF x
      <4> QED
        BY <1>1, <3>1, <3>2, <4>1 DEF Cleared
    <3> QED
      BY <3>3
  <2> HIDE DEF P
  <2> QED
    BY <1>1, <2>1, <2>2, UpTo
<1>12. \A j \in Indices : b[n].allocations[p][j] = NoAllocation
  BY <1>1, <1>11 DEF Indices
<1>13. b[n] \in S
  BY <1>1, <1>10
<1>14. MInv(b[n]) /\ b[n].program = m.program /\ b[n].live \subseteq m.live /\ b[n] \in MemoryType
  BY <1>13 DEF S
<1>15. MallocsOf(b[n], p) = {}
  <2> SUFFICES ASSUME NEW a \in MallocsOf(b[n], p) PROVE FALSE
    OBVIOUS
  <2>1. Listed(b[n], p)
    BY <1>14 DEF MInv, Core
  <2>2. PICK j \in Indices : b[n].allocations[p][j].ptr = heap_block_to_address(a.start)
    BY <2>1 DEF Listed
  <2>3. heap_block_to_address(a.start) = 0
    BY <1>12, <2>2 DEF NoAllocation
  <2>4. a.start \in Blocks
    BY <1>14 DEF MallocsOf, MemoryType, Extents
  <2> QED
    BY <2>3, <2>4, AddressFacts
<1> QED
  BY <1>8, <1>14, <1>15

-----------------------------------------------------------------------------
\* A step of slot p: nothing of the other slots is different.
Apart(m, x, p) == \A q \in Slots : q # p => SameFor(m, x, q)

\* When only p's program, its directory and its objects have changed, the rest is right.
LEMMA Reprogram ==
    ASSUME NEW m, Core(m), NEW p \in Slots, NEW x \in MemoryType, Exact(x.entries, x.live),
           x.allocations = m.allocations,
           \A q \in Slots : q # p => x.directory[q] = m.directory[q] /\ x.program[q] = m.program[q],
           \A a \in Extents : (a.owner # p \/ a.kind = "malloc") => (a \in x.live <=> a \in m.live),
           Points(x, p)
    PROVE  Core(x) /\ Apart(m, x, p) /\ MallocsOf(x, p) = MallocsOf(m, p)
<1>1. m \in MemoryType /\ m.live \subseteq Extents /\ x.live \subseteq Extents
  BY DEF Core, MemoryType
<1>2. Apart(m, x, p)
  BY DEF Apart, SameFor
<1>3. MallocsOf(x, p) = MallocsOf(m, p)
  BY <1>1 DEF MallocsOf
<1>4. Listed(x, p)
  BY <1>3 DEF Core, Listed, EntryRight
<1>5. \A q \in Slots : q # p => Listed(x, q) /\ Points(x, q)
  BY <1>1, <1>2, SameSlot DEF Apart, Core
<1> QED
  BY <1>2, <1>3, <1>4, <1>5 DEF Core

\* kfree of one object, as FreeObjects does it.
FreeObject(m, p, k) == kfree([m EXCEPT !.program[p][k] = 0], p, k, m.program[p][k])

\* kfree of an object that struct process points to, or of 0.
LEMMA ObjectFreed ==
    ASSUME NEW m, Core(m), NEW p \in Slots, NEW k \in Kinds
    PROVE  LET y == FreeObject(m, p, k)
           IN  /\ Core(y) /\ Apart(m, y, p) /\ MallocsOf(y, p) = MallocsOf(m, p)
               /\ y.live \subseteq m.live /\ y.program[p][k] = 0
               /\ \A h \in Kinds : h # k => y.program[p][h] = m.program[p][h]
               /\ \A a \in y.live : a.owner = p /\ a.kind = k
                                      => heap_block_to_address(a.start) # m.program[p][k]
<1> DEFINE g == [m.program[p] EXCEPT ![k] = 0]
           z == SetProgram(m, p, g)
           ptr == m.program[p][k]
           y == kfree(z, p, k, ptr)
<1>1. m \in MemoryType /\ m.live \subseteq Extents /\ Exact(m.entries, m.live) /\ Points(m, p)
      /\ m.program[p] \in [Kinds -> Nat]
  BY DEF Core, MemoryType
<1>2. FreeObject(m, p, k) = y
  BY Zenon DEF SetProgram, FreeObject
<1>3. g \in [Kinds -> Nat] /\ g[k] = 0 /\ \A h \in Kinds : h # k => g[h] = m.program[p][h]
  BY <1>1
<1> HIDE DEF g
<1>4. /\ z \in MemoryType /\ z.entries = m.entries /\ z.live = m.live
      /\ z.directory = m.directory /\ z.allocations = m.allocations
      /\ z.program[p] = g /\ \A q \in Slots \ {p} : z.program[q] = m.program[q]
  BY <1>1, <1>3, SetProgramFacts
<1> HIDE DEF z
<1>5. ASSUME NEW x, WithLive(z, x, x.live), x.live \subseteq m.live,
             \A b \in m.live : b \notin x.live => b.owner = p /\ b.kind = k
      PROVE  /\ Core(x) /\ Apart(m, x, p) /\ MallocsOf(x, p) = MallocsOf(m, p)
             /\ x.program[p][k] = 0 /\ \A h \in Kinds : h # k => x.program[p][h] = m.program[p][h]
  <2>1. /\ x \in MemoryType /\ Exact(x.entries, x.live) /\ x.allocations = m.allocations
        /\ x.directory = m.directory /\ x.program[p] = g
        /\ \A q \in Slots \ {p} : x.program[q] = m.program[q]
    BY <1>4, <1>5 DEF WithLive
  <2>2. k # "malloc"
    BY DEF Kinds
  <2>3. \A a \in Extents : (a.owner # p \/ a.kind = "malloc") => (a \in x.live <=> a \in m.live)
    BY <1>5, <2>2
  <2>4. Points(x, p)
    <3>1. ASSUME NEW h \in Kinds, x.program[p][h] # 0
          PROVE  \E b \in x.live : b.owner = p /\ b.kind = h
                                   /\ heap_block_to_address(b.start) = x.program[p][h]
      <4>1. h # k /\ x.program[p][h] = m.program[p][h]
        BY <1>3, <2>1, <3>1
      <4>2. PICK b \in m.live : b.owner = p /\ b.kind = h
                                /\ heap_block_to_address(b.start) = m.program[p][h]
        BY <1>1, <3>1, <4>1 DEF Points
      <4>3. b \in x.live
        BY <1>5, <4>1, <4>2
      <4> QED
        BY <4>1, <4>2, <4>3
    <3> QED
      BY <3>1 DEF Points
  <2>5. \A q \in Slots : q # p => x.directory[q] = m.directory[q] /\ x.program[q] = m.program[q]
    BY <2>1
  <2>6. Core(x) /\ Apart(m, x, p) /\ MallocsOf(x, p) = MallocsOf(m, p)
    BY <2>1, <2>3, <2>4, <2>5, Reprogram
  <2> QED
    BY <1>3, <2>1, <2>6
<1>6. CASE ptr = 0
  <2>1. WithLive(z, y, z.live)
    BY <1>1, <1>4, <1>6, KfreeNull
  <2> HIDE DEF y, ptr
  <2>2. y.live = m.live
    BY <1>4, <2>1 DEF WithLive
  <2>3. \A a \in y.live : heap_block_to_address(a.start) # 0
    BY <1>1, <2>2, AddressFacts DEF Extents
  <2>4. /\ Core(y) /\ Apart(m, y, p) /\ MallocsOf(y, p) = MallocsOf(m, p)
        /\ y.program[p][k] = 0 /\ \A h \in Kinds : h # k => y.program[p][h] = m.program[p][h]
    BY <1>4, <1>5, <2>1, <2>2
  <2> QED
    BY <1>2, <1>6, <2>2, <2>3, <2>4 DEF y, ptr
<1>7. CASE ptr # 0
  <2>1. PICK a \in m.live : a.owner = p /\ a.kind = k /\ heap_block_to_address(a.start) = ptr
    BY <1>1, <1>7 DEF Points
  <2>2. WithLive(z, y, z.live \ {a})
    BY <1>1, <1>4, <2>1, KfreeLive
  <2> HIDE DEF y, ptr
  <2>3. y.live = m.live \ {a}
    BY <1>4, <2>2 DEF WithLive
  <2>4. \A b \in y.live : heap_block_to_address(b.start) # ptr
    BY <2>1, <2>3, ExtentByAddress
  <2>5. /\ Core(y) /\ Apart(m, y, p) /\ MallocsOf(y, p) = MallocsOf(m, p)
        /\ y.program[p][k] = 0 /\ \A h \in Kinds : h # k => y.program[p][h] = m.program[p][h]
    <3>1. \A b \in m.live : b \notin y.live => b.owner = p /\ b.kind = k
      BY <2>1, <2>3
    <3>2. WithLive(z, y, y.live) /\ y.live \subseteq m.live
      BY <1>4, <2>2, <2>3
    <3> QED
      BY <1>5, <3>1, <3>2
  <2> QED
    BY <1>2, <2>3, <2>4, <2>5 DEF y, ptr
<1> QED
  BY <1>6, <1>7

\* kzalloc of an object, and the pointer to it.
LEMMA ObjectTaken ==
    ASSUME NonzeroRequests, NEW m, Core(m), NEW p \in Slots, NEW k \in Kinds
    PROVE  LET r == kzalloc(m, p, k, ObjectSize)
               y == [r.mem EXCEPT !.program[p][k] = r.ptr]
           IN  /\ r.ptr \in Nat /\ Core(y) /\ Apart(m, y, p) /\ MallocsOf(y, p) = MallocsOf(m, p)
               /\ y.program[p][k] = r.ptr
<1> DEFINE r == kzalloc(m, p, k, ObjectSize)
           x == r.mem
           g == [x.program[p] EXCEPT ![k] = r.ptr]
           y == SetProgram(x, p, g)
<1>1. m \in MemoryType /\ m.live \subseteq Extents /\ Exact(m.entries, m.live) /\ Points(m, p)
      /\ k \in AllKinds /\ m.program[p] \in [Kinds -> Nat]
  BY DEF Core, MemoryType, AllKinds
<1>2. ObjectSize \in 0 .. WordSize - 1 /\ BlocksOf(ObjectSize) >= 1
  BY SizesAssumption DEF NonzeroRequests
<1>3. /\ r \in [mem : MemoryType, ptr : Nat]
      /\ \/ r.ptr = 0 /\ r.mem = m
         \/ \E a \in Extents :
              /\ a \notin m.live /\ a.blocks = BlocksOf(ObjectSize) /\ a.owner = p /\ a.kind = k
              /\ r.ptr = heap_block_to_address(a.start)
              /\ \A b \in m.live : Extent(a) \cap Extent(b) = {}
              /\ WithLive(m, r.mem, m.live \cup {a})
  BY <1>1, <1>2, KzallocFacts
<1>4. [r.mem EXCEPT !.program[p][k] = r.ptr] = y
  BY Zenon DEF SetProgram
<1> HIDE DEF r
<1>5. /\ x \in MemoryType /\ r.ptr \in Nat /\ Exact(x.entries, x.live) /\ m.live \subseteq x.live
      /\ x.allocations = m.allocations /\ x.directory = m.directory /\ x.program = m.program
      /\ \A a \in x.live : a \notin m.live => a.owner = p /\ a.kind = k
      /\ r.ptr # 0 => \E a \in x.live : a.owner = p /\ a.kind = k /\ heap_block_to_address(a.start) = r.ptr
  <2>1. CASE r.ptr = 0 /\ r.mem = m
    BY <1>1, <1>3, <2>1
  <2>2. CASE \E a \in Extents :
              /\ a \notin m.live /\ a.blocks = BlocksOf(ObjectSize) /\ a.owner = p /\ a.kind = k
              /\ r.ptr = heap_block_to_address(a.start)
              /\ \A b \in m.live : Extent(a) \cap Extent(b) = {}
              /\ WithLive(m, r.mem, m.live \cup {a})
    BY <1>3, <2>2 DEF WithLive
  <2> QED
    BY <1>3, <2>1, <2>2
<1> HIDE DEF x
<1>6. g \in [Kinds -> Nat] /\ g[k] = r.ptr /\ \A h \in Kinds : h # k => g[h] = m.program[p][h]
  BY <1>1, <1>5
<1> HIDE DEF g
<1>7. /\ y \in MemoryType /\ y.entries = x.entries /\ y.live = x.live
      /\ y.directory = x.directory /\ y.allocations = x.allocations
      /\ y.program[p] = g /\ \A q \in Slots \ {p} : y.program[q] = x.program[q]
  BY <1>5, <1>6, SetProgramFacts
<1> HIDE DEF y
<1>8. Points(y, p)
  <2>1. ASSUME NEW h \in Kinds, g[h] # 0
        PROVE  \E b \in x.live : b.owner = p /\ b.kind = h /\ heap_block_to_address(b.start) = g[h]
    <3>1. CASE h = k
      BY <1>5, <1>6, <2>1, <3>1
    <3>2. CASE h # k
      BY <1>1, <1>5, <1>6, <2>1, <3>2 DEF Points
    <3> QED
      BY <3>1, <3>2
  <2> QED
    BY <1>7, <2>1 DEF Points
<1>9. k # "malloc"
  BY DEF Kinds
<1>10. \A a \in Extents : (a.owner # p \/ a.kind = "malloc") => (a \in y.live <=> a \in m.live)
  BY <1>5, <1>7, <1>9
<1>11. \A q \in Slots : q # p => y.directory[q] = m.directory[q] /\ y.program[q] = m.program[q]
  BY <1>5, <1>7
<1>12. Exact(y.entries, y.live) /\ y.allocations = m.allocations
  BY <1>5, <1>7
<1>13. Core(y) /\ Apart(m, y, p) /\ MallocsOf(y, p) = MallocsOf(m, p)
  BY <1>7, <1>8, <1>10, <1>11, <1>12, Reprogram
<1>14. y.program[p][k] = r.ptr
  BY <1>6, <1>7
<1> QED
  BY <1>4, <1>5, <1>13, <1>14 DEF y, g, x, r

-----------------------------------------------------------------------------
\* The object of kind k that p pointed to in m is no longer live in x.
Gone(m, x, p, k) ==
    \A a \in x.live : a.owner = p /\ a.kind = k => heap_block_to_address(a.start) # m.program[p][k]

\* x is m behind some frees of p's objects.
IsFreed(m, x, p) ==
    /\ Core(x) /\ Apart(m, x, p) /\ MallocsOf(x, p) = MallocsOf(m, p) /\ x.live \subseteq m.live
    /\ \A k \in Kinds : \/ x.program[p][k] = m.program[p][k]
                        \/ x.program[p][k] = 0 /\ Gone(m, x, p, k)

\* Pointers of p that are 0 stay 0.
ZerosStay(x, y, p) == \A h \in Kinds : x.program[p][h] = 0 => y.program[p][h] = 0

\* One more free.
LEMMA FreedMore ==
    ASSUME NEW m, NEW p \in Slots, NEW x, IsFreed(m, x, p), NEW k \in Kinds
    PROVE  LET y == FreeObject(x, p, k)
           IN  /\ IsFreed(m, y, p) /\ y.program[p][k] = 0
               /\ ZerosStay(x, y, p)
<1> DEFINE y == FreeObject(x, p, k)
<1>1. /\ Core(x) /\ Apart(m, x, p) /\ MallocsOf(x, p) = MallocsOf(m, p) /\ x.live \subseteq m.live
      /\ \A h \in Kinds : x.program[p][h] = m.program[p][h]
                          \/ (x.program[p][h] = 0 /\ Gone(m, x, p, h))
  BY Zenon DEF IsFreed
<1>2. /\ Core(y) /\ Apart(x, y, p) /\ MallocsOf(y, p) = MallocsOf(x, p)
      /\ y.live \subseteq x.live /\ y.program[p][k] = 0
      /\ \A h \in Kinds : h # k => y.program[p][h] = x.program[p][h]
      /\ \A a \in y.live : a.owner = p /\ a.kind = k
                             => heap_block_to_address(a.start) # x.program[p][k]
  BY <1>1, ObjectFreed
<1> HIDE DEF y
<1>3. Apart(m, y, p)
  BY <1>1, <1>2 DEF Apart, SameFor
<1>4. \A h \in Kinds : Gone(m, x, p, h) => Gone(m, y, p, h)
  BY <1>2 DEF Gone
<1>5. Gone(m, y, p, k)
  <2>1. CASE x.program[p][k] = m.program[p][k]
    BY <1>2, <2>1 DEF Gone
  <2>2. CASE Gone(m, x, p, k)
    BY <1>4, <2>2
  <2> QED
    BY <1>1, <2>1, <2>2
<1>6. \A h \in Kinds : y.program[p][h] = m.program[p][h] \/ (y.program[p][h] = 0 /\ Gone(m, y, p, h))
  BY <1>1, <1>2, <1>4, <1>5
<1>7. y \in MemoryType /\ MallocsOf(y, p) = MallocsOf(m, p) /\ y.live \subseteq m.live
  BY <1>1, <1>2 DEF Core
<1>8. IsFreed(m, y, p)
  BY <1>2, <1>3, <1>6, <1>7 DEF IsFreed
<1>9. ZerosStay(x, y, p)
  BY <1>2 DEF ZerosStay
<1> QED
  BY <1>2, <1>8, <1>9 DEF y

\* All of them.
LEMMA ObjectsFreed ==
    ASSUME NEW m, Core(m), NEW p \in Slots, NEW kinds \in Seq(Kinds)
    PROVE  LET y == FreeObjects(m, p, kinds)
           IN  /\ Core(y) /\ Apart(m, y, p) /\ MallocsOf(y, p) = MallocsOf(m, p)
               /\ y.live \subseteq m.live
               /\ \A i \in 1 .. Len(kinds) : Gone(m, y, p, kinds[i])
<1> DEFINE n == Len(kinds)
           G(i, x) == FreeObject(x, p, kinds[i])
           S == {x \in MemoryType : IsFreed(m, x, p)}
           F(f) == f = [i \in 0 .. n |-> IF i = 0 THEN m ELSE G(i, f[i - 1])]
           g == [i \in 1 .. n |-> [x \in S |-> G(i, x)]]
           b == CHOOSE f : F(f)
<1>1. n \in Nat /\ \A i \in 1 .. n : kinds[i] \in Kinds
  OBVIOUS
<1>2. m \in S
  BY DEF IsFreed, Core, Apart, SameFor
<1>3. ASSUME NEW i \in 1 .. n, NEW x \in S
      PROVE  /\ G(i, x) \in S /\ G(i, x).program[p][kinds[i]] = 0
             /\ ZerosStay(x, G(i, x), p)
  <2>1. kinds[i] \in Kinds
    BY <1>1
  <2>0. IsFreed(m, x, p)
    OBVIOUS
  <2> HIDE DEF S
  <2>2. /\ IsFreed(m, G(i, x), p) /\ G(i, x).program[p][kinds[i]] = 0
        /\ ZerosStay(x, G(i, x), p)
    <3>1. \A k \in Kinds :
            /\ IsFreed(m, FreeObject(x, p, k), p) /\ FreeObject(x, p, k).program[p][k] = 0
            /\ ZerosStay(x, FreeObject(x, p, k), p)
      BY <2>0, FreedMore
    <3> QED
      BY <2>1, <3>1
  <2> HIDE DEF G
  <2> QED
    BY <2>2 DEF IsFreed, Core, S
<1> HIDE DEF n, S
<1>4. g \in [1 .. n -> [S -> S]] /\ \A i \in 1 .. n, x \in S : g[i][x] = G(i, x)
  <2> HIDE DEF G
  <2> QED
    BY <1>3
<1> HIDE DEF g
<1>5. PICK f \in [0 .. n -> S] : f[0] = m /\ \A i \in 1 .. n : f[i] = g[i][f[i - 1]]
  <2>1. n \in Nat
    BY <1>1
  <2>2. g \in [1 .. n -> [S -> S]]
    BY <1>4
  <2>3. Solvable(n, S, m, g)
    BY <1>2, <2>1, <2>2, Recursion
  <2> QED
    BY <2>3 DEF Solvable
<1>6. F(f)
  <2> HIDE DEF G
  <2>1. ASSUME NEW i \in 1 .. n PROVE f[i] = G(i, f[i - 1])
    <3>1. f[i - 1] \in S
      BY <1>1
    <3>2. f[i] = g[i][f[i - 1]]
      BY <1>5
    <3> QED
      BY <1>4, <3>1, <3>2
  <2>2. \A i \in 0 .. n : f[i] = IF i = 0 THEN m ELSE G(i, f[i - 1])
    BY <1>1, <1>5, <2>1
  <2> QED
    BY <2>2
<1>7. F(b)
  <2> HIDE DEF F
  <2> QED
    BY <1>6
<1>8. FreeObjects(m, p, kinds) = b[n]
  BY DEF FreeObjects, FreeObject, n
<1> HIDE DEF b
<1>9. b[0] = m /\ \A i \in 1 .. n : b[i] = G(i, b[i - 1])
  <2> HIDE DEF G
  <2> QED
    BY <1>1, <1>7
<1> HIDE DEF G
<1>10. \A i \in 0 .. n : b[i] \in S
  <2>1. \A i \in 1 .. n : b[i - 1] \in S => b[i] \in S
    BY <1>3, <1>9
  <2>2. b[0] \in S
    BY <1>2, <1>9
  <2> QED
    BY <1>1, <2>1, <2>2, StaysIn
<1> DEFINE P == {i \in 0 .. n : \A j \in 1 .. i : b[i].program[p][kinds[j]] = 0}
<1>11. \A i \in 0 .. n : i \in P
  <2>1. 0 \in P
    BY <1>1
  <2>2. ASSUME NEW i \in 1 .. n, i - 1 \in P PROVE i \in P
    <3> DEFINE x == b[i - 1]
    <3>1. /\ x \in S /\ b[i] = G(i, x) /\ G(i, x).program[p][kinds[i]] = 0
          /\ ZerosStay(x, G(i, x), p)
      BY <1>1, <1>3, <1>9, <1>10
    <3>2. \A j \in 1 .. i - 1 : x.program[p][kinds[j]] = 0
      BY <2>2
    <3> HIDE DEF x
    <3>3. ASSUME NEW j \in 1 .. i PROVE b[i].program[p][kinds[j]] = 0
      <4>1. j \in 1 .. i - 1 \/ j = i
        BY <1>1
      <4>2. j \in 1 .. n
        BY <1>1
      <4> QED
        BY <1>1, <3>1, <3>2, <4>1, <4>2 DEF ZerosStay
    <3> QED
      BY <3>3
  <2> HIDE DEF P
  <2> QED
    BY <1>1, <2>1, <2>2, UpTo
<1>12. IsFreed(m, b[n], p) /\ \A j \in 1 .. n : b[n].program[p][kinds[j]] = 0
  BY <1>1, <1>10, <1>11 DEF S
<1>13. /\ Core(b[n]) /\ Apart(m, b[n], p) /\ MallocsOf(b[n], p) = MallocsOf(m, p)
       /\ b[n].live \subseteq m.live
       /\ \A k \in Kinds : b[n].program[p][k] = m.program[p][k]
                           \/ (b[n].program[p][k] = 0 /\ Gone(m, b[n], p, k))
  BY <1>12, Zenon DEF IsFreed
<1>14. \A a \in b[n].live : heap_block_to_address(a.start) # 0
  BY <1>13, AddressFacts DEF Core, MemoryType, Extents
<1>15. ASSUME NEW i \in 1 .. n PROVE Gone(m, b[n], p, kinds[i])
  <2>1. kinds[i] \in Kinds /\ b[n].program[p][kinds[i]] = 0
    BY <1>1, <1>12
  <2>2. CASE m.program[p][kinds[i]] = 0
    BY <1>14, <2>2 DEF Gone
  <2>3. CASE m.program[p][kinds[i]] # 0
    BY <1>13, <2>1, <2>3
  <2> QED
    BY <2>2, <2>3
<1> QED
  BY <1>8, <1>13, <1>15 DEF n

-----------------------------------------------------------------------------
\* A step of slot p that leaves p right keeps the invariant.
LEMMA ApartInv ==
    ASSUME NEW m, MInv(m), NEW y, Core(y), NEW p \in Slots, Apart(m, y, p), SlotRight(y, p)
    PROVE  MInv(y)
<1>1. m \in MemoryType /\ y \in MemoryType /\ \A q \in Slots : SlotRight(m, q)
  BY DEF MInv, Core
<1>2. \A q \in Slots : q # p => SlotRight(y, q)
  BY <1>1, SameSlot DEF Apart
<1> QED
  BY <1>2 DEF MInv

\* The process is unloaded: it points to nothing and holds nothing by malloc.
LEMMA Unload ==
    ASSUME NEW m, MInv(m), NEW x, Core(x), NEW p \in Slots, Apart(m, x, p), MallocsOf(x, p) = {}
    PROVE  LET y == SetProgram(x, p, NoProgram)
           IN  /\ MInv(y) /\ y.program[p] = NoProgram /\ y.live = x.live
               /\ \A q \in Slots : q # p => y.program[q] = m.program[q]
<1> DEFINE y == SetProgram(x, p, NoProgram)
<1>1. NoProgram \in [Kinds -> Nat] /\ \A k \in Kinds : NoProgram[k] = 0
  BY DEF NoProgram
<1>2. x \in MemoryType /\ Exact(x.entries, x.live)
  BY DEF Core
<1>3. /\ y \in MemoryType /\ y.entries = x.entries /\ y.live = x.live
      /\ y.directory = x.directory /\ y.allocations = x.allocations
      /\ y.program[p] = NoProgram /\ \A q \in Slots \ {p} : y.program[q] = x.program[q]
  BY <1>1, <1>2, SetProgramFacts
<1> HIDE DEF y
<1>4. Points(y, p)
  BY <1>1, <1>3 DEF Points
<1>5. \A q \in Slots : q # p => y.directory[q] = x.directory[q] /\ y.program[q] = x.program[q]
  BY <1>3
<1>6. Core(y) /\ Apart(x, y, p) /\ MallocsOf(y, p) = {}
  BY <1>2, <1>3, <1>4, <1>5, Reprogram
<1>7. Apart(m, y, p)
  BY <1>6 DEF Apart, SameFor
<1>8. SlotRight(y, p)
  BY <1>3, <1>6 DEF SlotRight, Loaded
<1>9. MInv(y)
  BY <1>6, <1>7, <1>8, ApartInv
<1>10. \A q \in Slots : q # p => y.program[q] = m.program[q]
  BY <1>7 DEF Apart, SameFor
<1> QED
  BY <1>3, <1>9, <1>10 DEF y

\* An unloaded slot may get a new directory and an empty table.
LEMMA Reset ==
    ASSUME NEW m, MInv(m), NEW p \in Slots, ~Loaded(m, p), NEW t, t = [i \in Indices |-> NoAllocation]
    PROVE  LET y == SetAllocations(SetDirectory(m, p, NewDirectory), p, t)
           IN  MInv(y) /\ y.program = m.program /\ y.live = m.live
<1> DEFINE z == SetDirectory(m, p, NewDirectory)
           y == SetAllocations(z, p, t)
<1>1. m \in MemoryType /\ Core(m) /\ MallocsOf(m, p) = {}
  BY DEF MInv, Core, SlotRight
<1>2. NewDirectory \in [Blocks -> Flags] /\ t \in [Indices -> Entries]
      /\ \A i \in Indices : t[i] = NoAllocation
  BY DEF NewDirectory, Flags, Entries, NoAllocation
<1>3. /\ z \in MemoryType /\ z.entries = m.entries /\ z.live = m.live
      /\ z.allocations = m.allocations /\ z.program = m.program
      /\ z.directory[p] = NewDirectory /\ \A q \in Slots \ {p} : z.directory[q] = m.directory[q]
  BY <1>1, <1>2, SetDirectoryFacts
<1> HIDE DEF z
<1>4. /\ y \in MemoryType /\ y.entries = z.entries /\ y.live = z.live
      /\ y.directory = z.directory /\ y.program = z.program /\ y.allocations[p] = t
      /\ \A q \in Slots \ {p} : y.allocations[q] = z.allocations[q]
  BY <1>2, <1>3, SetAllocationsFacts
<1> HIDE DEF y
<1>5. Apart(m, y, p)
  BY <1>3, <1>4 DEF Apart, SameFor
<1>6. MallocsOf(y, p) = {}
  BY <1>1, <1>3, <1>4 DEF MallocsOf
<1>7. Listed(y, p)
  BY <1>2, <1>4, <1>6 DEF Listed, EntryRight, NoAllocation
<1>8. Points(y, p)
  BY <1>1, <1>3, <1>4 DEF Core, Points
<1>9. \A q \in Slots : q # p => Listed(y, q) /\ Points(y, q)
  BY <1>1, <1>4, <1>5, SameSlot DEF Apart, Core
<1>10. Core(y)
  BY <1>1, <1>3, <1>4, <1>7, <1>8, <1>9 DEF Core
<1>11. SlotRight(y, p)
  BY <1>3, <1>4, <1>6 DEF SlotRight, Loaded
<1>12. MInv(y)
  BY <1>5, <1>10, <1>11, ApartInv
<1> QED
  BY <1>3, <1>4, <1>12 DEF y, z

\* Exit keeps the invariant and frees what the process holds, but for struct process.
LEMMA TerminateInv ==
    ASSUME NEW m, MInv(m), NEW p \in Slots, Loaded(m, p)
    PROVE  LET y == process_terminate(m, p)
           IN  /\ MInv(y) /\ MallocsOf(y, p) = {}
               /\ \A q \in Slots : q # p => y.program[q] = m.program[q]
               /\ \A k \in Kinds : k # "process" => Gone(m, y, p, k)
<1> DEFINE data == IF m.program[p]["ptr"] # 0 THEN <<"ptr">> ELSE <<"elf_memory", "elf_file">>
           kinds == data \o <<"stack", "task">>
           m0 == process_terminate_allocations(m, p)
           x == FreeObjects(m0, p, kinds)
           w == SetProgram(x, p, NoProgram)
           t == [i \in Indices |-> NoAllocation]
           y == SetAllocations(SetDirectory(w, p, NewDirectory), p, t)
<1>1. process_terminate(m, p) = y
  BY Zenon DEF process_terminate, SetAllocations, SetDirectory, SetProgram
<1>2. /\ kinds \in Seq(Kinds)
      /\ m.program[p]["ptr"] # 0 =>
           Len(kinds) = 3 /\ kinds[1] = "ptr" /\ kinds[2] = "stack" /\ kinds[3] = "task"
      /\ m.program[p]["ptr"] = 0 =>
           /\ Len(kinds) = 4 /\ kinds[1] = "elf_memory" /\ kinds[2] = "elf_file"
           /\ kinds[3] = "stack" /\ kinds[4] = "task"
  <2> DEFINE rest == <<"stack", "task">>
  <2>1. rest \in Seq(Kinds) /\ Len(rest) = 2 /\ rest[1] = "stack" /\ rest[2] = "task"
    BY DEF Kinds
  <2>2. /\ data \in Seq(Kinds)
        /\ m.program[p]["ptr"] # 0 => Len(data) = 1 /\ data[1] = "ptr"
        /\ m.program[p]["ptr"] = 0 => Len(data) = 2 /\ data[1] = "elf_memory" /\ data[2] = "elf_file"
    <3>1. <<"ptr">> \in Seq(Kinds) /\ <<"elf_memory", "elf_file">> \in Seq(Kinds)
      BY DEF Kinds
    <3> QED
      BY <3>1
  <2> HIDE DEF rest, data
  <2>3. /\ data \o rest \in Seq(Kinds) /\ Len(data \o rest) = Len(data) + 2
        /\ \A i \in 1 .. Len(data) + 2 : (data \o rest)[i] = IF i <= Len(data) THEN data[i]
                                                            ELSE rest[i - Len(data)]
    BY <2>1, <2>2, ConcatProperties
  <2>4. kinds = data \o rest
    BY DEF rest
  <2> HIDE DEF kinds
  <2> QED
    BY <2>1, <2>2, <2>3, <2>4
<1>3. /\ MInv(m0) /\ m0.program = m.program /\ m0.live \subseteq m.live
      /\ MallocsOf(m0, p) = {}
  BY TerminateAllocations
<1>4. Core(m0)
  BY <1>3 DEF MInv
<1> HIDE DEF m0, kinds
<1>5. /\ Core(x) /\ Apart(m0, x, p) /\ MallocsOf(x, p) = {} /\ x.live \subseteq m0.live
      /\ \A i \in 1 .. Len(kinds) : Gone(m0, x, p, kinds[i])
  BY <1>2, <1>3, <1>4, ObjectsFreed
<1> HIDE DEF x
<1>6. /\ MInv(w) /\ w.program[p] = NoProgram /\ w.live = x.live
      /\ \A q \in Slots : q # p => w.program[q] = m0.program[q]
  BY <1>3, <1>5, Unload
<1> HIDE DEF w
<1>7. ~Loaded(w, p)
  BY <1>6 DEF Loaded
<1>8. t = [i \in Indices |-> NoAllocation]
  OBVIOUS
<1> HIDE DEF t
<1>9. MInv(y) /\ y.program = w.program /\ y.live = w.live
  BY <1>6, <1>7, <1>8, Reset
<1> HIDE DEF y
<1>10. MallocsOf(y, p) = {}
  BY <1>6, <1>7, <1>9 DEF MInv, SlotRight, Loaded
<1>11. \A k \in Kinds : Gone(m0, x, p, k) => Gone(m, y, p, k)
  BY <1>3, <1>6, <1>9 DEF Gone
<1>12. \A k \in Kinds : m.program[p][k] = 0 => Gone(m, y, p, k)
  <2>1. \A a \in y.live : heap_block_to_address(a.start) # 0
    BY <1>9, AddressFacts DEF MInv, Core, MemoryType, Extents
  <2> QED
    BY <2>1 DEF Gone
<1>13. ASSUME NEW k \in Kinds, k # "process" PROVE Gone(m, y, p, k)
  <2>1. CASE m.program[p]["ptr"] # 0
    <3>1. m.program[p]["elf_file"] = 0 /\ m.program[p]["elf_memory"] = 0
      BY <2>1 DEF MInv, SlotRight, Mapped
    <3>2. Gone(m0, x, p, "ptr") /\ Gone(m0, x, p, "stack") /\ Gone(m0, x, p, "task")
      <4>1. Len(kinds) = 3 /\ kinds[1] = "ptr" /\ kinds[2] = "stack" /\ kinds[3] = "task"
        BY <1>2, <2>1
      <4> QED
        BY <1>5, <4>1
    <3> QED
      BY <1>11, <1>12, <1>13, <3>1, <3>2 DEF Kinds
  <2>2. CASE m.program[p]["ptr"] = 0
    <3>1. /\ Gone(m0, x, p, "elf_memory") /\ Gone(m0, x, p, "elf_file")
          /\ Gone(m0, x, p, "stack") /\ Gone(m0, x, p, "task")
      <4>1. /\ Len(kinds) = 4 /\ kinds[1] = "elf_memory" /\ kinds[2] = "elf_file"
            /\ kinds[3] = "stack" /\ kinds[4] = "task"
        BY <1>2, <2>2
      <4> QED
        BY <1>5, <4>1
    <3> QED
      BY <1>11, <1>12, <1>13, <2>2, <3>1 DEF Kinds
  <2> QED
    BY <2>1, <2>2
<1>14. \A q \in Slots : q # p => y.program[q] = m.program[q]
  BY <1>3, <1>6, <1>9
<1> QED
  BY <1>1, <1>9, <1>10, <1>13, <1>14

-----------------------------------------------------------------------------
\* What a load takes, and that a load which can succeed takes struct task last.
LEMMA TakesFacts ==
    ASSUME NEW how \in Loads
    PROVE  /\ Takes(how) \in Seq(Kinds) /\ GivesBack(how) \in Seq(Kinds)
           /\ how \in {"elf", "binary"} => Len(Takes(how)) >= 1 /\ Takes(how)[Len(Takes(how))] = "task"
<1>1. how \in {"elf", "binary", "elf unmappable", "no file", "unreadable", "binary unreadable"}
  BY LoadsAssumption
<1>2. <<>> \in Seq(Kinds) /\ <<"ptr">> \in Seq(Kinds) /\ <<"task">> \in Seq(Kinds)
  BY DEF Kinds
<1>3. CASE how = "no file"
  <2> DEFINE t == <<"process", "elf_file">>
  <2>1. Takes(how) = t
    BY <1>3 DEF Takes
  <2>2. GivesBack(how) = <<>>
    BY <1>3 DEF GivesBack
  <2>3. t \in Seq(Kinds)
    BY DEF Kinds
  <2> HIDE DEF t
  <2> QED
    BY <1>2, <1>3, <2>1, <2>2, <2>3
<1>4. CASE how = "unreadable"
  <2> DEFINE t == <<"process", "elf_file", "elf_memory">>
  <2>1. Takes(how) = t
    BY <1>4 DEF Takes
  <2>2. GivesBack(how) = <<>>
    BY <1>4 DEF GivesBack
  <2>3. t \in Seq(Kinds)
    BY DEF Kinds
  <2> HIDE DEF t
  <2> QED
    BY <1>2, <1>4, <2>1, <2>2, <2>3
<1>5. CASE how = "binary unreadable"
  <2> DEFINE t == <<"process", "elf_file", "elf_memory", "ptr">>
  <2>1. Takes(how) = t
    BY <1>5 DEF Takes
  <2>2. GivesBack(how) = <<"ptr">>
    BY <1>5 DEF GivesBack
  <2>3. t \in Seq(Kinds)
    BY DEF Kinds
  <2> HIDE DEF t
  <2> QED
    BY <1>2, <1>5, <2>1, <2>2, <2>3
<1>6. CASE how = "binary"
  <2> DEFINE t == <<"process", "elf_file", "elf_memory", "ptr", "stack", "task">>
  <2>1. Takes(how) = t
    BY <1>6 DEF Takes
  <2>2. GivesBack(how) = <<>>
    BY <1>6 DEF GivesBack
  <2>3. t \in Seq(Kinds) /\ Len(t) = 6 /\ t[6] = "task"
    BY DEF Kinds
  <2> HIDE DEF t
  <2> QED
    <3>1. Takes(how) \in Seq(Kinds) /\ Len(Takes(how)) = 6 /\ Takes(how)[6] = "task"
      BY <2>1, <2>3, Zenon
    <3>2. GivesBack(how) \in Seq(Kinds)
      BY <1>2, <2>2
    <3>3. Len(Takes(how)) >= 1 /\ Takes(how)[Len(Takes(how))] = "task"
      BY <3>1
    <3> QED
      BY <3>1, <3>2, <3>3
<1>7. CASE how = "elf"
  <2> DEFINE t == <<"process", "elf_file", "elf_memory", "stack", "task">>
  <2>1. Takes(how) = t
    BY <1>7 DEF Takes
  <2>2. GivesBack(how) = <<>>
    BY <1>7 DEF GivesBack
  <2>3. t \in Seq(Kinds) /\ Len(t) = 5 /\ t[5] = "task"
    BY DEF Kinds
  <2> HIDE DEF t
  <2> QED
    <3>1. Takes(how) \in Seq(Kinds) /\ Len(Takes(how)) = 5 /\ Takes(how)[5] = "task"
      BY <2>1, <2>3, Zenon
    <3>2. GivesBack(how) \in Seq(Kinds)
      BY <1>2, <2>2
    <3>3. Len(Takes(how)) >= 1 /\ Takes(how)[Len(Takes(how))] = "task"
      BY <3>1
    <3> QED
      BY <3>1, <3>2, <3>3
<1>8. CASE how = "elf unmappable"
  <2> DEFINE t == <<"process", "elf_file", "elf_memory", "stack", "task">>
  <2>1. Takes(how) = t
    BY <1>8 DEF Takes
  <2>2. GivesBack(how) = <<"task">>
    BY <1>8 DEF GivesBack
  <2>3. t \in Seq(Kinds)
    BY DEF Kinds
  <2> HIDE DEF t
  <2> QED
    BY <1>2, <1>8, <2>1, <2>2, <2>3
<1> QED
  BY <1>1, <1>3, <1>4, <1>5, <1>6, <1>7, <1>8

\* One more object, as process_load_for_slot takes it.
TakeObject(m, p, k) ==
    LET a == kzalloc(m, p, k, ObjectSize)
    IN  [mem |-> [a.mem EXCEPT !.program[p][k] = a.ptr],
         missing |-> IF a.ptr = 0 THEN {k} ELSE {}]

\* r is m behind some kzallocs of p's objects.
IsTaken(m, r, p) ==
    /\ r \in [mem : MemoryType, missing : SUBSET Kinds]
    /\ Core(r.mem) /\ Apart(m, r.mem, p) /\ MallocsOf(r.mem, p) = MallocsOf(m, p)

\* One more kzalloc; when the last one succeeds its pointer is not 0.
LEMMA TakenMore ==
    ASSUME NonzeroRequests, NEW m, NEW p \in Slots, NEW r, IsTaken(m, r, p), NEW k \in Kinds
    PROVE  LET y == TakeObject(r.mem, p, k)
           IN  IsTaken(m, y, p) /\ (y.missing = {} => y.mem.program[p][k] # 0)
<1> DEFINE a == kzalloc(r.mem, p, k, ObjectSize)
           x == [a.mem EXCEPT !.program[p][k] = a.ptr]
           y == TakeObject(r.mem, p, k)
<1>1. /\ r \in [mem : MemoryType, missing : SUBSET Kinds]
      /\ Core(r.mem) /\ Apart(m, r.mem, p) /\ MallocsOf(r.mem, p) = MallocsOf(m, p)
  BY DEF IsTaken
<1>2. /\ a.ptr \in Nat /\ Core(x) /\ Apart(r.mem, x, p) /\ MallocsOf(x, p) = MallocsOf(r.mem, p)
      /\ x.program[p][k] = a.ptr
  BY <1>1, ObjectTaken
<1>3. y = [mem |-> x, missing |-> IF a.ptr = 0 THEN {k} ELSE {}]
  BY DEF TakeObject
<1> HIDE DEF a, x, y
<1>4. Apart(m, x, p)
  BY <1>1, <1>2 DEF Apart, SameFor
<1>5. y.mem = x /\ y.missing = (IF a.ptr = 0 THEN {k} ELSE {}) /\ x \in MemoryType
  BY <1>2, <1>3 DEF Core
<1>6. y \in [mem : MemoryType, missing : SUBSET Kinds]
  BY <1>3, <1>5
<1>7. IsTaken(m, y, p)
  BY <1>1, <1>2, <1>4, <1>5, <1>6 DEF IsTaken
<1>8. y.missing = {} => y.mem.program[p][k] # 0
  BY <1>2, <1>5
<1> QED
  BY <1>7, <1>8 DEF y

\* The process is loaded: it has a new directory and points to what it keeps.
LEMMA LoadDone ==
    ASSUME NEW m, MInv(m), NEW x, Core(x), NEW p \in Slots, Apart(m, x, p), MallocsOf(x, p) = {},
           x.program[p]["task"] # 0
    PROVE  LET y == SetProgram(SetDirectory(x, p, NewDirectory), p, Keeps(x.program[p]))
           IN  /\ MInv(y) /\ Loaded(y, p)
               /\ \A q \in Slots : q # p => y.program[q] = m.program[q]
<1> DEFINE z == SetDirectory(x, p, NewDirectory)
           g == Keeps(x.program[p])
           y == SetProgram(z, p, g)
<1>1. x \in MemoryType /\ Exact(x.entries, x.live) /\ x.program[p] \in [Kinds -> Nat] /\ Points(x, p)
  BY DEF Core, MemoryType
<1>2. NewDirectory \in [Blocks -> Flags] /\ \A j \in Blocks : NewDirectory[j] = "read-only"
  BY DEF NewDirectory, Flags
<1>3. /\ g \in [Kinds -> Nat] /\ g["task"] = x.program[p]["task"]
      /\ \A k \in Kinds : g[k] \in {0, x.program[p][k]}
      /\ g["ptr"] # 0 => g["elf_file"] = 0 /\ g["elf_memory"] = 0
  <2>1. CASE x.program[p]["ptr"] = 0
    BY <1>1, <2>1 DEF Keeps
  <2>2. CASE x.program[p]["ptr"] # 0
    BY <1>1, <2>2 DEF Keeps, Kinds
  <2> QED
    BY <2>1, <2>2
<1> HIDE DEF g
<1>4. /\ z \in MemoryType /\ z.entries = x.entries /\ z.live = x.live
      /\ z.allocations = x.allocations /\ z.program = x.program
      /\ z.directory[p] = NewDirectory /\ \A q \in Slots \ {p} : z.directory[q] = x.directory[q]
  BY <1>1, <1>2, SetDirectoryFacts
<1> HIDE DEF z
<1>5. /\ y \in MemoryType /\ y.entries = z.entries /\ y.live = z.live
      /\ y.directory = z.directory /\ y.allocations = z.allocations
      /\ y.program[p] = g /\ \A q \in Slots \ {p} : y.program[q] = z.program[q]
  BY <1>3, <1>4, SetProgramFacts
<1> HIDE DEF y
<1>6. /\ y.live = x.live /\ Exact(y.entries, y.live) /\ y.allocations = x.allocations
      /\ y.directory[p] = NewDirectory
      /\ \A q \in Slots : q # p => y.directory[q] = x.directory[q] /\ y.program[q] = x.program[q]
  BY <1>1, <1>4, <1>5
<1>7. Points(y, p)
  <2>1. \A k \in Kinds : g[k] # 0 => g[k] = x.program[p][k]
    BY <1>3
  <2> QED
    BY <1>1, <1>5, <1>6, <2>1 DEF Points
<1>8. \A a \in Extents : (a.owner # p \/ a.kind = "malloc") => (a \in y.live <=> a \in x.live)
  BY <1>6
<1>9. Core(y) /\ Apart(x, y, p) /\ MallocsOf(y, p) = {}
  BY <1>5, <1>6, <1>7, <1>8, Reprogram
<1>10. Apart(m, y, p)
  BY <1>9 DEF Apart, SameFor
<1>11. y.program[p]["task"] # 0
  BY <1>3, <1>5
<1>12. Loaded(y, p)
  BY <1>11 DEF Loaded, NoProgram, Kinds
<1>13. heap_address_to_block(y.program[p]["task"]) \in Blocks
  BY <1>9, <1>11, TaskBlock
<1>14. Mapped(y, p)
  <2>1. \A j \in Blocks : y.directory[p][j] = "writeable" <=> \E a \in MallocsOf(y, p) : j \in Extent(a)
    BY <1>2, <1>6, <1>9
  <2>2. y.directory[p][heap_address_to_block(y.program[p]["task"])] = "read-only"
    BY <1>2, <1>6, <1>13
  <2>3. y.program[p]["ptr"] # 0 => y.program[p]["elf_file"] = 0 /\ y.program[p]["elf_memory"] = 0
    BY <1>3, <1>5
  <2> QED
    BY <1>11, <2>1, <2>2, <2>3 DEF Mapped
<1>15. SlotRight(y, p)
  BY <1>12, <1>14 DEF SlotRight
<1>16. MInv(y)
  BY <1>9, <1>10, <1>15, ApartInv
<1>17. \A q \in Slots : q # p => y.program[q] = m.program[q]
  BY <1>10 DEF Apart, SameFor
<1> QED
  BY <1>12, <1>16, <1>17 DEF y, g, z

-----------------------------------------------------------------------------
\* A load keeps the invariant, however it goes; when it succeeds the process is loaded.
LEMMA LoadInv ==
    ASSUME NonzeroRequests, NEW m, MInv(m), NEW p \in Slots, ~Loaded(m, p), NEW how \in Loads
    PROVE  LET r == process_load_for_slot(m, p, how)
           IN  /\ MInv(r.mem) /\ (r.res = "ok" => Loaded(r.mem, p))
               /\ \A q \in Slots : q # p => r.mem.program[q] = m.program[q]
<1> DEFINE kinds == Takes(how)
           n == Len(kinds)
           start == [mem |-> m, missing |-> {}]
           G(i, r) == IF r.missing # {} THEN r ELSE TakeObject(r.mem, p, kinds[i])
           S == {r \in [mem : MemoryType, missing : SUBSET Kinds] : IsTaken(m, r, p)}
           F(f) == f = [i \in 0 .. n |-> IF i = 0 THEN start ELSE G(i, f[i - 1])]
           g == [i \in 1 .. n |-> [r \in S |-> G(i, r)]]
           b == CHOOSE f : F(f)
           taken == b[n]
           back == FreeObjects(taken.mem, p, GivesBack(how))
           done == SetProgram(SetDirectory(taken.mem, p, NewDirectory), p, Keeps(taken.mem.program[p]))
           res == process_load_for_slot(m, p, how)
<1>1. res = CASE taken.missing \cap Unchecked # {} ->
                   [mem |-> [taken.mem EXCEPT !.program[p] = NoProgram], res |-> "wild"]
              [] taken.missing \ Unchecked # {} ->
                   [mem |-> [taken.mem EXCEPT !.program[p] = NoProgram], res |-> "error"]
              [] taken.missing = {} /\ how \notin {"elf", "binary"} ->
                   [mem |-> [back EXCEPT !.program[p] = NoProgram], res |-> "error"]
              [] OTHER ->
                   [mem |-> [taken.mem EXCEPT !.directory[p] = NewDirectory, !.program[p] = Keeps(@)],
                    res |-> "ok"]
  BY DEF process_load_for_slot, TakeObject
<1> HIDE DEF res
<1>2. /\ kinds \in Seq(Kinds) /\ GivesBack(how) \in Seq(Kinds)
      /\ how \in {"elf", "binary"} => Len(kinds) >= 1 /\ kinds[Len(kinds)] = "task"
  BY TakesFacts
<1> HIDE DEF kinds
<1>3. n \in Nat /\ \A i \in 1 .. n : kinds[i] \in Kinds
  BY <1>2
<1>4. Core(m) /\ m \in MemoryType /\ MallocsOf(m, p) = {}
  BY DEF MInv, Core, SlotRight
<1>5. start \in S
  <2>1. start \in [mem : MemoryType, missing : SUBSET Kinds] /\ start.mem = m
    BY <1>4
  <2> HIDE DEF start
  <2> QED
    BY <1>4, <2>1 DEF IsTaken, Apart, SameFor
<1> HIDE DEF start
<1>6. ASSUME NEW i \in 1 .. n, NEW r \in S
      PROVE  G(i, r) \in S /\ (G(i, r).missing = {} => G(i, r).mem.program[p][kinds[i]] # 0)
  <2>1. kinds[i] \in Kinds /\ IsTaken(m, r, p)
    BY <1>3
  <2>2. CASE r.missing # {}
    BY <2>2
  <2>3. CASE r.missing = {}
    <3>1. \A k \in Kinds : /\ IsTaken(m, TakeObject(r.mem, p, k), p)
                           /\ TakeObject(r.mem, p, k).missing = {}
                                => TakeObject(r.mem, p, k).mem.program[p][k] # 0
      BY <2>1, TakenMore
    <3>2. G(i, r) = TakeObject(r.mem, p, kinds[i])
      BY <2>3
    <3> HIDE DEF G, S
    <3> QED
      BY <2>1, <3>1, <3>2 DEF S, IsTaken
  <2> QED
    BY <2>2, <2>3
<1> HIDE DEF n, S
<1>7. g \in [1 .. n -> [S -> S]] /\ \A i \in 1 .. n, r \in S : g[i][r] = G(i, r)
  <2> HIDE DEF G
  <2> QED
    BY <1>6
<1> HIDE DEF g
<1>8. PICK f \in [0 .. n -> S] : f[0] = start /\ \A i \in 1 .. n : f[i] = g[i][f[i - 1]]
  <2>1. n \in Nat
    BY <1>3
  <2>2. g \in [1 .. n -> [S -> S]]
    BY <1>7
  <2>3. Solvable(n, S, start, g)
    BY <1>5, <2>1, <2>2, Recursion
  <2> QED
    BY <2>3 DEF Solvable
<1>9. F(f)
  <2> HIDE DEF G
  <2>1. ASSUME NEW i \in 1 .. n PROVE f[i] = G(i, f[i - 1])
    <3>1. f[i - 1] \in S
      BY <1>3
    <3>2. f[i] = g[i][f[i - 1]]
      BY <1>8
    <3> QED
      BY <1>7, <3>1, <3>2
  <2>2. \A i \in 0 .. n : f[i] = IF i = 0 THEN start ELSE G(i, f[i - 1])
    BY <1>3, <1>8, <2>1
  <2> QED
    BY <2>2
<1>10. F(b)
  <2> HIDE DEF F
  <2> QED
    BY <1>9
<1> HIDE DEF b
<1>11. b[0] = start /\ \A i \in 1 .. n : b[i] = G(i, b[i - 1])
  <2> HIDE DEF G
  <2> QED
    BY <1>3, <1>10
<1> HIDE DEF G
<1>12. \A i \in 0 .. n : b[i] \in S
  <2>1. \A i \in 1 .. n : b[i - 1] \in S => b[i] \in S
    BY <1>6, <1>11
  <2>2. b[0] \in S
    BY <1>5, <1>11
  <2>3. n \in Nat
    BY <1>3
  <2> QED
    BY <2>1, <2>2, <2>3, StaysIn
<1>13. /\ taken.mem \in MemoryType /\ Core(taken.mem) /\ Apart(m, taken.mem, p)
       /\ MallocsOf(taken.mem, p) = {}
  <2>1. taken \in S
    BY <1>3, <1>12
  <2> HIDE DEF taken
  <2> QED
    BY <1>4, <2>1 DEF S, IsTaken
<1>14. how \in {"elf", "binary"} /\ taken.missing = {} => taken.mem.program[p]["task"] # 0
  <2> SUFFICES ASSUME how \in {"elf", "binary"}, taken.missing = {}
               PROVE  taken.mem.program[p]["task"] # 0
    OBVIOUS
  <2>1. n \in 1 .. n /\ n - 1 \in 0 .. n /\ kinds[n] = "task"
    BY <1>2, <1>3 DEF n
  <2>2. b[n - 1] \in S /\ taken = G(n, b[n - 1])
    BY <1>11, <1>12, <2>1
  <2> HIDE DEF taken
  <2> QED
    BY <1>6, <2>1, <2>2
<1> HIDE DEF taken
<1>15. ASSUME NEW x, Core(x), Apart(m, x, p), MallocsOf(x, p) = {}
       PROVE  /\ MInv([x EXCEPT !.program[p] = NoProgram])
              /\ \A q \in Slots : q # p => [x EXCEPT !.program[p] = NoProgram].program[q] = m.program[q]
  <2> DEFINE y == SetProgram(x, p, NoProgram)
  <2>1. MInv(y) /\ \A q \in Slots : q # p => y.program[q] = m.program[q]
    BY <1>15, Unload
  <2> QED
    BY <2>1 DEF SetProgram
<1>16. CASE taken.missing \cap Unchecked # {}
  <2>1. res.mem = [taken.mem EXCEPT !.program[p] = NoProgram] /\ res.res # "ok"
    BY <1>1, <1>16
  <2> QED
    BY <1>13, <1>15, <2>1 DEF res
<1>17. CASE taken.missing \cap Unchecked = {} /\ taken.missing \ Unchecked # {}
  <2>1. res.mem = [taken.mem EXCEPT !.program[p] = NoProgram] /\ res.res # "ok"
    BY <1>1, <1>17
  <2> QED
    BY <1>13, <1>15, <2>1 DEF res
<1>18. CASE taken.missing = {} /\ how \notin {"elf", "binary"}
  <2>1. res.mem = [back EXCEPT !.program[p] = NoProgram] /\ res.res # "ok"
    BY <1>1, <1>18
  <2>2. Core(back) /\ Apart(taken.mem, back, p) /\ MallocsOf(back, p) = {}
    BY <1>2, <1>13, ObjectsFreed
  <2> HIDE DEF back
  <2>3. Apart(m, back, p)
    BY <1>13, <2>2 DEF Apart, SameFor
  <2> QED
    BY <1>15, <2>1, <2>2, <2>3 DEF res
<1>19. CASE taken.missing = {} /\ how \in {"elf", "binary"}
  <2>1. res.mem = [taken.mem EXCEPT !.directory[p] = NewDirectory, !.program[p] = Keeps(@)]
    BY <1>1, <1>19
  <2> DEFINE x == taken.mem
  <2>2. [x EXCEPT !.directory[p] = NewDirectory, !.program[p] = Keeps(@)] = done
    <3>1. [x EXCEPT !.directory[p] = NewDirectory, !.program[p] = Keeps(@)]
            = [[x EXCEPT !.directory[p] = NewDirectory] EXCEPT
                 !.program[p] = Keeps([x EXCEPT !.directory[p] = NewDirectory].program[p])]
      BY Zenon
    <3>2. [x EXCEPT !.directory[p] = NewDirectory].program = x.program
      BY <1>13 DEF MemoryType
    <3> QED
      BY <3>1, <3>2, Zenon DEF SetProgram, SetDirectory
  <2>3. /\ MInv(done) /\ Loaded(done, p)
        /\ \A q \in Slots : q # p => done.program[q] = m.program[q]
    BY <1>13, <1>14, <1>19, LoadDone
  <2>4. res.mem = done
    BY <2>1, <2>2, Zenon
  <2> HIDE DEF done
  <2> QED
    BY <2>3, <2>4 DEF res
<1> QED
  BY <1>16, <1>17, <1>18, <1>19

-----------------------------------------------------------------------------
\* So does handing a loaded process its arguments.
LEMMA InjectInv ==
    ASSUME NonzeroRequests, NEW m, MInv(m), NEW p \in Slots, Loaded(m, p), NEW argc \in Nat
    PROVE  LET y == process_inject_arguments(m, p, argc)
           IN  MInv(y) /\ y.program = m.program
<1> DEFINE n == argc + 1
           start == [mem |-> m, ptr |-> saddr]
           G(i, r) == IF r.ptr = 0 THEN r ELSE process_malloc(r.mem, p, ObjectSize)
           S == {r \in [mem : MemoryType, ptr : Nat] : MInv(r.mem) /\ r.mem.program = m.program}
           F(f) == f = [i \in 0 .. n |-> IF i = 0 THEN start ELSE G(i, f[i - 1])]
           g == [i \in 1 .. n |-> [r \in S |-> G(i, r)]]
           b == CHOOSE f : F(f)
<1>1. process_inject_arguments(m, p, argc) = b[n].mem
  BY DEF process_inject_arguments
<1>2. n \in Nat /\ ObjectSize \in 0 .. WordSize - 1 /\ BlocksOf(ObjectSize) >= 1
  BY SizesAssumption DEF NonzeroRequests
<1>3. start \in S
  <2>1. m \in MemoryType /\ saddr \in Nat
    BY HeapAssumption DEF MInv, Core, saddr
  <2>2. start \in [mem : MemoryType, ptr : Nat] /\ start.mem = m
    BY <2>1
  <2> HIDE DEF start
  <2> QED
    BY <2>2
<1> HIDE DEF start
<1>4. ASSUME NEW i \in 1 .. n, NEW r \in S PROVE G(i, r) \in S
  <2>1. MInv(r.mem) /\ r.mem.program = m.program
    OBVIOUS
  <2>2. Loaded(r.mem, p)
    BY <2>1 DEF Loaded
  <2> DEFINE y == process_malloc(r.mem, p, ObjectSize)
  <2>3. y \in [mem : MemoryType, ptr : Nat] /\ MInv(y.mem) /\ y.mem.program = r.mem.program
    BY <1>2, <2>1, <2>2, MallocInv
  <2> HIDE DEF y
  <2>4. G(i, r) = IF r.ptr = 0 THEN r ELSE y
    BY DEF y
  <2>5. y \in S
    BY <2>1, <2>3
  <2> HIDE DEF G, S
  <2> QED
    BY <2>4, <2>5
<1> HIDE DEF n, S
<1>5. g \in [1 .. n -> [S -> S]] /\ \A i \in 1 .. n, r \in S : g[i][r] = G(i, r)
  <2> HIDE DEF G
  <2> QED
    BY <1>4
<1> HIDE DEF g
<1>6. PICK f \in [0 .. n -> S] : f[0] = start /\ \A i \in 1 .. n : f[i] = g[i][f[i - 1]]
  <2>1. n \in Nat
    BY <1>2
  <2>2. g \in [1 .. n -> [S -> S]]
    BY <1>5
  <2>3. Solvable(n, S, start, g)
    BY <1>3, <2>1, <2>2, Recursion
  <2> QED
    BY <2>3 DEF Solvable
<1>7. F(f)
  <2> HIDE DEF G
  <2>1. ASSUME NEW i \in 1 .. n PROVE f[i] = G(i, f[i - 1])
    <3>1. f[i - 1] \in S
      BY <1>2
    <3>2. f[i] = g[i][f[i - 1]]
      BY <1>6
    <3> QED
      BY <1>5, <3>1, <3>2
  <2>2. \A i \in 0 .. n : f[i] = IF i = 0 THEN start ELSE G(i, f[i - 1])
    BY <1>2, <1>6, <2>1
  <2> QED
    BY <2>2
<1>8. F(b)
  <2> HIDE DEF F
  <2> QED
    BY <1>7
<1> HIDE DEF b
<1>9. b[0] = start /\ \A i \in 1 .. n : b[i] = G(i, b[i - 1])
  <2> HIDE DEF G
  <2> QED
    BY <1>2, <1>8
<1> HIDE DEF G
<1>10. \A i \in 0 .. n : b[i] \in S
  <2>1. \A i \in 1 .. n : b[i - 1] \in S => b[i] \in S
    BY <1>4, <1>9
  <2>2. b[0] \in S
    BY <1>3, <1>9
  <2>3. n \in Nat
    BY <1>2
  <2> QED
    BY <2>1, <2>2, <2>3, StaysIn
<1>11. b[n] \in S
  BY <1>2, <1>10
<1> QED
  BY <1>1, <1>11 DEF S

\* A load, with its arguments when it succeeds.
LEMMA StartInv ==
    ASSUME NonzeroRequests, NEW m, MInv(m), NEW p \in Slots, ~Loaded(m, p), NEW how \in Loads,
           NEW argc \in Nat, NEW y,
           y = LET load == process_load_for_slot(m, p, how)
               IN  IF load.res = "ok" THEN process_inject_arguments(load.mem, p, argc) ELSE load.mem
    PROVE  MInv(y) /\ \A q \in Slots : q # p => y.program[q] = m.program[q]
<1> DEFINE load == process_load_for_slot(m, p, how)
           z == process_inject_arguments(load.mem, p, argc)
<1>1. /\ MInv(load.mem) /\ (load.res = "ok" => Loaded(load.mem, p))
      /\ \A q \in Slots : q # p => load.mem.program[q] = m.program[q]
  BY LoadInv
<1>2. y = IF load.res = "ok" THEN z ELSE load.mem
  OBVIOUS
<1> HIDE DEF load
<1>3. CASE load.res = "ok"
  <2>1. MInv(z) /\ z.program = load.mem.program
    BY <1>1, <1>3, InjectInv
  <2> HIDE DEF z
  <2> QED
    BY <1>1, <1>2, <1>3, <2>1
<1>4. CASE load.res # "ok"
  BY <1>1, <1>2, <1>4
<1> QED
  BY <1>3, <1>4

-----------------------------------------------------------------------------
\* Every loaded process keeps what it points to.
Kept == \A q \in Slots : Loaded(memory, q) => memory'.program[q] = memory.program[q]

\* The slot that a load takes is free.
LEMMA SlotFound ==
    ASSUME FreeSlots # {}
    PROVE  process_get_free_slot \in Slots /\ ~Loaded(memory, process_get_free_slot)
<1>1. FreeSlots \subseteq Nat
  BY SlotsAssumption DEF FreeSlots
<1>2. process_get_free_slot \in FreeSlots
  BY <1>1, LowestIn DEF process_get_free_slot
<1> QED
  BY <1>2 DEF FreeSlots

\* A process ends: in memory as it is, or with the buffer of a copy lost in it.
Ended(p, x) ==
    /\ Loaded(memory, p) /\ MInv(x) /\ x.program = memory.program
    /\ memory' = process_terminate(x, p)

\* Every step keeps the invariant, and only the end of a process takes a program away.
LEMMA MemoryStep ==
    ASSUME NonzeroRequests, MInv(memory), [Next]_vars
    PROVE  /\ MInv(memory')
           /\ Kept \/ \E p \in Slots : \E x : Ended(p, x)
<1>1. CASE UNCHANGED vars
  BY <1>1 DEF vars, Kept
<1>2. ASSUME NEW how \in Loads, BootLoad(how) PROVE MInv(memory') /\ Kept
  <2> DEFINE p == process_get_free_slot
  <2>1. p \in Slots /\ ~Loaded(memory, p)
    BY <1>2, SlotFound DEF BootLoad
  <2>2. memory' = LET load == process_load_for_slot(memory, p, how)
                  IN  IF load.res = "ok" THEN process_inject_arguments(load.mem, p, 1) ELSE load.mem
    BY <1>2 DEF BootLoad
  <2> HIDE DEF p
  <2>3. MInv(memory') /\ \A q \in Slots : q # p => memory'.program[q] = memory.program[q]
    BY <2>1, <2>2, StartInv
  <2> QED
    BY <2>1, <2>3 DEF Kept
<1>3. ASSUME NEW c \in Slots, NEW how \in Loads, isr80h_command6_process_load_start(c, how)
      PROVE  MInv(memory') /\ Kept
  <2> DEFINE p == process_get_free_slot
             m == copy_string_from_task(memory, c)
             load == process_load_for_slot(m, p, how)
  <2>1. p \in Slots /\ ~Loaded(memory, p)
    BY <1>3, SlotFound DEF isr80h_command6_process_load_start
  <2>2. memory' = load.mem
    BY <1>3 DEF isr80h_command6_process_load_start
  <2>3. MInv(m) /\ m.program = memory.program
    BY CopyInv
  <2> HIDE DEF p, m
  <2>4. ~Loaded(m, p)
    BY <2>1, <2>3 DEF Loaded
  <2>5. MInv(load.mem) /\ \A q \in Slots : q # p => load.mem.program[q] = m.program[q]
    BY <2>1, <2>3, <2>4, LoadInv
  <2> HIDE DEF load
  <2> QED
    BY <2>1, <2>2, <2>3, <2>5 DEF Kept
<1>4. ASSUME NEW argc \in Args, NEW how \in Loads, isr80h_command7_invoke_system_command(argc, how)
      PROVE  MInv(memory') /\ Kept
  <2> DEFINE p == process_get_free_slot
  <2>1. p \in Slots /\ ~Loaded(memory, p) /\ argc \in Nat
    BY <1>4, SlotFound, ArgsAssumption DEF isr80h_command7_invoke_system_command
  <2>2. memory' = LET load == process_load_for_slot(memory, p, how)
                  IN  IF load.res = "ok" THEN process_inject_arguments(load.mem, p, argc) ELSE load.mem
    BY <1>4 DEF isr80h_command7_invoke_system_command
  <2> HIDE DEF p
  <2>3. MInv(memory') /\ \A q \in Slots : q # p => memory'.program[q] = memory.program[q]
    BY <2>1, <2>2, StartInv
  <2> QED
    BY <2>1, <2>3 DEF Kept
<1>5. ASSUME NEW p \in Slots, isr80h_command1_print(p) PROVE MInv(memory') /\ Kept
  <2>1. memory' = copy_string_from_task(memory, p)
    BY <1>5 DEF isr80h_command1_print
  <2>2. MInv(memory') /\ memory'.program = memory.program
    BY <2>1, CopyInv
  <2> QED
    BY <2>2 DEF Kept
<1>6. ASSUME NEW p \in Slots, NEW size \in Sizes, isr80h_command4_malloc(p, size)
      PROVE  MInv(memory') /\ Kept
  <2>0. CASE UNCHANGED memory
    BY <2>0 DEF Kept
  <2>1. CASE memory' = process_malloc(memory, p, size).mem
    <3>1. Loaded(memory, p)
      BY <1>6 DEF isr80h_command4_malloc
    <3>2. size \in 0 .. WordSize - 1 /\ BlocksOf(size) >= 1
      BY SizesAssumption DEF NonzeroRequests
    <3>3. MInv(memory') /\ memory'.program = memory.program
      BY <2>1, <3>1, <3>2, MallocInv
    <3> QED
      BY <3>3 DEF Kept
  <2> QED
    BY <1>6, <2>0, <2>1 DEF isr80h_command4_malloc
<1>7. ASSUME NEW p \in Slots, NEW ptr \in Pointers, isr80h_command5_free(p, ptr)
      PROVE  MInv(memory') /\ Kept
  <2>1. memory' = process_free(memory, p, ptr) /\ Loaded(memory, p)
    BY <1>7 DEF isr80h_command5_free
  <2>2. ptr \in Nat
    <3>1. memory \in MemoryType
      BY DEF MInv, Core
    <3> QED
      BY <3>1 DEF Pointers, MemoryType, Entries
  <2>3. MInv(memory') /\ Cleared(memory, memory', p, ptr)
    BY <2>1, <2>2, FreeInv
  <2> QED
    BY <2>3 DEF Kept, Cleared
<1>8. ASSUME NEW p \in Slots, isr80h_command9_exit(p) PROVE MInv(memory') /\ Ended(p, memory)
  <2>1. memory' = process_terminate(memory, p) /\ Loaded(memory, p)
    BY <1>8 DEF isr80h_command9_exit, Ends
  <2>2. MInv(process_terminate(memory, p))
    BY <2>1, TerminateInv
  <2> QED
    BY <2>1, <2>2 DEF Ended
<1>9. ASSUME NEW p \in Slots, copy_string_faults(p)
      PROVE  MInv(memory') /\ \E x : Ended(p, x)
  <2> DEFINE x == kzalloc(memory, p, "tmp", ObjectSize).mem
  <2>1. memory' = process_terminate(x, p) /\ Loaded(memory, p)
    BY <1>9 DEF copy_string_faults, Ends
  <2>2. MInv(x) /\ x.program = memory.program
    BY BufferInv
  <2> HIDE DEF x
  <2>3. Loaded(x, p)
    BY <2>1, <2>2 DEF Loaded
  <2>4. MInv(process_terminate(x, p))
    BY <2>2, <2>3, TerminateInv
  <2>5. Ended(p, x)
    BY <2>1, <2>2 DEF Ended
  <2> QED
    BY <2>1, <2>4, <2>5
<1>10. CASE Halted
  BY <1>1, <1>10 DEF Halted
<1> QED
  BY <1>1, <1>2, <1>3, <1>4, <1>5, <1>6, <1>7, <1>8, <1>9, <1>10 DEF Next

-----------------------------------------------------------------------------
\* Init establishes the invariant.
LEMMA MemoryInit ==
    ASSUME Init
    PROVE  MInv(memory)
<1> DEFINE e == [i \in Indexes |-> HEAP_BLOCK_TABLE_ENTRY_FREE]
           t == [p \in Slots |-> [i \in Indices |-> NoAllocation]]
           d == [p \in Slots |-> NewDirectory]
           g == [p \in Slots |-> NoProgram]
<1>1. memory = [entries |-> e, live |-> {}, allocations |-> t, directory |-> d, program |-> g]
  BY DEF Init
<1>2. /\ e \in [Indexes -> Byte] /\ \A i \in Indexes : e[i] = HEAP_BLOCK_TABLE_ENTRY_FREE
  BY DEF HEAP_BLOCK_TABLE_ENTRY_FREE, Byte
<1>3. /\ t \in [Slots -> [Indices -> Entries]]
      /\ \A p \in Slots, i \in Indices : t[p][i] = NoAllocation
  <2>1. NoAllocation \in Entries
    BY DEF NoAllocation, Entries
  <2> QED
    BY <2>1
<1>4. d \in [Slots -> [Blocks -> Flags]]
  BY DEF NewDirectory, Flags
<1>5. g \in [Slots -> [Kinds -> Nat]] /\ \A p \in Slots : g[p] = NoProgram
  BY DEF NoProgram
<1>6. {} \in SUBSET Extents
  OBVIOUS
<1> HIDE DEF e, t, d, g
<1>7. /\ memory \in MemoryType /\ memory.entries = e /\ memory.live = {}
      /\ memory.allocations = t /\ memory.program = g
  BY <1>1, <1>2, <1>3, <1>4, <1>5, <1>6 DEF MemoryType
<1>8. Exact(e, {})
  <2>1. \A j \in Blocks : j \in Indexes
    BY HeapAssumption DEF Blocks, Indexes
  <2>2. -1 \in LowBytes /\ -1 \in Indexes
    BY HeapAssumption DEF LowBytes, Indexes
  <2>3. ~HasNext(e[-1])
    BY <1>2, <2>2 DEF HasNext, HEAP_BLOCK_TABLE_ENTRY_FREE, HEAP_BLOCK_HAS_NEXT
  <2> QED
    BY <1>2, <2>1, <2>2, <2>3 DEF Exact
<1>9. ASSUME NEW p \in Slots PROVE Listed(memory, p) /\ Points(memory, p) /\ SlotRight(memory, p)
  <2>1. MallocsOf(memory, p) = {}
    BY <1>7 DEF MallocsOf
  <2>2. ~Loaded(memory, p)
    BY <1>5, <1>7 DEF Loaded
  <2>3. Listed(memory, p)
    BY <1>3, <1>7, <2>1 DEF Listed, EntryRight, NoAllocation
  <2>4. Points(memory, p)
    BY <1>5, <1>7 DEF Points, NoProgram
  <2> QED
    BY <2>1, <2>2, <2>3, <2>4 DEF SlotRight
<1> QED
  BY <1>7, <1>8, <1>9 DEF MInv, Core

\* The inductive invariant of the memory of the processes (process.c, paging.c, heap.c).
THEOREM MemoryInvariant ==
    ASSUME NonzeroRequests
    PROVE  Spec => []MInv(memory)
<1>1. Init => MInv(memory)
  BY MemoryInit
<1>2. MInv(memory) /\ [Next]_vars => MInv(memory)'
  BY MemoryStep
<1> QED
  BY <1>1, <1>2, PTL DEF Spec

\* No two heap extents share a block, whatever is loaded, allocated, freed and ended, as
\* long as no request has reached the kernel and no NULL pointer was followed (heap_malloc
\* under process_malloc, elf_load and task_new).
THEOREM MemoryDisjoint ==
    ASSUME NonzeroRequests
    PROVE  Spec => []ExtentsDisjoint
<1>1. MInv(memory) => ExtentsDisjoint
  BY DEF MInv, Core, Exact, ExtentsDisjoint
<1> QED
  BY <1>1, MemoryInvariant, PTL

\* A loaded process can write the pages that it holds by malloc and no others
\* (process_malloc, process_free, copy_string_from_task).
THEOREM WritesOnlyOwn ==
    ASSUME NonzeroRequests
    PROVE  Spec => []WritesOwnPagesOnly
<1>1. MInv(memory) => WritesOwnPagesOnly
  <2> SUFFICES ASSUME MInv(memory), NEW p \in Slots, Loaded(memory, p)
               PROVE  {j \in Blocks : memory.directory[p][j] = "writeable"}
                         = UNION {Extent(a) : a \in Mallocs(p)}
    BY DEF WritesOwnPagesOnly
  <2>1. \A j \in Blocks : memory.directory[p][j] = "writeable"
                            <=> \E a \in Mallocs(p) : j \in Extent(a)
    BY DEF MInv, SlotRight, Mapped, MallocsOf, Mallocs
  <2>2. \A a \in Mallocs(p) : Extent(a) \subseteq Blocks
    BY DEF Extent
  <2> QED
    BY <2>1, <2>2
<1> QED
  BY <1>1, MemoryInvariant, PTL

\* The page of struct task stays readable under the directory of the task, whatever the
\* process frees (task_return, process_free).
THEOREM TaskReadable ==
    ASSUME NonzeroRequests
    PROVE  Spec => []TaskStaysPresent
<1>1. MInv(memory) => TaskStaysPresent
  BY DEF MInv, SlotRight, Mapped, TaskStaysPresent
<1> QED
  BY <1>1, MemoryInvariant, PTL

\* The table of a process lists its allocations, each once, and nothing else
\* (process_malloc, process_allocation_unjoin).
THEOREM TableExactlyMallocs ==
    ASSUME NonzeroRequests
    PROVE  Spec => []TableListsMallocs
<1>1. ASSUME MInv(memory), NEW p \in Slots
      PROVE  LET used == {i \in Indices : memory.allocations[p][i].ptr # 0}
             IN  /\ {[ptr |-> heap_block_to_address(a.start), blocks |-> a.blocks] : a \in Mallocs(p)}
                      = {[ptr |-> memory.allocations[p][i].ptr,
                          blocks |-> BlocksOf(memory.allocations[p][i].size)] : i \in used}
                 /\ Cardinality(used) = Cardinality(Mallocs(p))
  <2> DEFINE used == {i \in Indices : memory.allocations[p][i].ptr # 0}
             tab == memory.allocations[p]
             f == [i \in used |-> CHOOSE a \in Mallocs(p) : heap_block_to_address(a.start) = tab[i].ptr]
  <2>1. Core(memory) /\ Listed(memory, p) /\ MallocsOf(memory, p) = Mallocs(p) /\ memory \in MemoryType
    BY <1>1 DEF MInv, Core, MallocsOf, Mallocs
  <2>2. \A a \in Mallocs(p) : heap_block_to_address(a.start) # 0
    BY <2>1, AddressFacts DEF MallocsOf, MemoryType, Extents
  <2>3. \A a, b \in Mallocs(p) : heap_block_to_address(a.start) = heap_block_to_address(b.start) => a = b
    <3>1. \A a \in Mallocs(p) : a \in memory.live
      BY DEF Mallocs
    <3> QED
      BY <2>1, <3>1, ExtentByAddress
  <2>4. \A i \in used : \E a \in Mallocs(p) : heap_block_to_address(a.start) = tab[i].ptr
                                              /\ a.blocks = BlocksOf(tab[i].size)
    BY <2>1, EntryFound
  <2>5. \A a \in Mallocs(p) : \E i \in used : tab[i].ptr = heap_block_to_address(a.start)
    BY <2>1, <2>2 DEF Listed
  <2>6. \A i, j \in used : tab[i].ptr = tab[j].ptr => i = j
    BY <2>1 DEF Listed
  <2>7. \A a \in Mallocs(p) : \E i \in used : tab[i].ptr = heap_block_to_address(a.start)
                                              /\ BlocksOf(tab[i].size) = a.blocks
    BY <2>3, <2>4, <2>5
  <2>8. IsFiniteSet(used)
    <3>1. IsFiniteSet(Indices)
      BY FS_Interval, MaxAllocsAssumption DEF Indices
    <3>2. used \in SUBSET Indices
      OBVIOUS
    <3> HIDE DEF used
    <3> QED
      BY <3>1, <3>2, FS_Subset
  <2> HIDE DEF used, tab
  <2>9. {[ptr |-> heap_block_to_address(a.start), blocks |-> a.blocks] : a \in Mallocs(p)}
          = {[ptr |-> tab[i].ptr, blocks |-> BlocksOf(tab[i].size)] : i \in used}
    <3> DEFINE A(a) == [ptr |-> heap_block_to_address(a.start), blocks |-> a.blocks]
               E(i) == [ptr |-> tab[i].ptr, blocks |-> BlocksOf(tab[i].size)]
    <3>1. \A a \in Mallocs(p) : \E i \in used : A(a) = E(i)
      BY <2>7, Zenon
    <3>2. \A i \in used : \E a \in Mallocs(p) : A(a) = E(i)
      BY <2>4, Zenon
    <3> HIDE DEF A, E
    <3>3. {A(a) : a \in Mallocs(p)} = {E(i) : i \in used}
      BY <3>1, <3>2
    <3> QED
      BY <3>3, Zenon DEF A, E
  <2>10. Cardinality(used) = Cardinality(Mallocs(p))
    <3>1. \A i \in used : f[i] \in Mallocs(p) /\ heap_block_to_address(f[i].start) = tab[i].ptr
      BY <2>4
    <3>2. f \in [used -> Mallocs(p)]
      BY <3>1
    <3> HIDE DEF f
    <3>3. \A i, j \in used : f[i] = f[j] => i = j
      BY <2>6, <3>1
    <3>4. \A a \in Mallocs(p) : \E i \in used : f[i] = a
      BY <2>3, <2>5, <3>1
    <3>5. f \in Bijection(used, Mallocs(p))
      BY <3>2, <3>3, <3>4 DEF Bijection, Injection, Surjection, IsInjective
    <3>6. ExistsBijection(used, Mallocs(p))
      BY <3>5 DEF ExistsBijection
    <3> QED
      BY <2>8, <3>6, FS_Bijection
  <2> QED
    BY <2>9, <2>10 DEF used, tab
<1>2. MInv(memory) => TableListsMallocs
  BY <1>1 DEF TableListsMallocs
<1> QED
  BY <1>2, MemoryInvariant, PTL

\* A step that ends a process gives the heap back everything it held, but for struct
\* process (process_terminate).
LEMMA ExitStep ==
    ASSUME NonzeroRequests, MInv(memory), [Next]_vars, NEW p \in Slots,
           Loaded(memory, p), ~Loaded(memory', p), NEW a \in Held(memory, p) \cap memory'.live
    PROVE  a.kind = "process"
<1>1. ~Kept
  BY DEF Kept, Loaded
<1>2. PICK q \in Slots : \E y : Ended(q, y)
  BY <1>1, MemoryStep
<1>3. PICK x : Ended(q, x)
  BY <1>2
<1>4. Loaded(x, q) /\ MInv(x) /\ x.program = memory.program /\ memory' = process_terminate(x, q)
  BY <1>3 DEF Ended, Loaded
<1>5. /\ MInv(memory') /\ MallocsOf(memory', q) = {}
      /\ \A s \in Slots : s # q => memory'.program[s] = memory.program[s]
      /\ \A k \in Kinds : k # "process" => Gone(memory, memory', q, k)
  BY <1>4, TerminateInv DEF Gone
<1>6. p = q
  BY <1>5 DEF Loaded
<1>7. /\ a \in memory'.live /\ a.owner = p
      /\ \/ a.kind = "malloc"
         \/ a.kind \in Kinds /\ memory.program[p][a.kind] = heap_block_to_address(a.start)
  BY DEF Held
<1>8. a.kind # "malloc"
  BY <1>5, <1>6, <1>7 DEF MallocsOf
<1> QED
  BY <1>5, <1>6, <1>7, <1>8 DEF Gone

\* When a process ends the heap gets back everything that it held, but for struct
\* process: allocations, arguments and reused addresses included (process_terminate).
THEOREM ExitGivesBack ==
    ASSUME NonzeroRequests
    PROVE  Spec => ExitFreesAll
<1>1. MInv(memory) /\ [Next]_vars =>
        [\A p \in Slots : Loaded(memory, p) /\ ~Loaded(memory', p) =>
            \A a \in Held(memory, p) \cap memory'.live : a.kind = "process"]_vars
  BY ExitStep
<1> QED
  BY <1>1, MemoryInvariant, PTL DEF Spec, ExitFreesAll

=============================================================================
