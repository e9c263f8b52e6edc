------------------------------- MODULE Program ------------------------------
(***************************************************************************)
(* Programs in memory: page directories (src/memory/paging/paging.c), ELF  *)
(* headers (src/loader/formats/elfloader.c, elf.h) and how a loaded        *)
(* program is mapped (src/task/process.c), as operators.                   *)
(*                                                                         *)
(* A directory is a function from directory index to table, a table one    *)
(* from table index to entry: the frame and whether user code may write    *)
(* it.  Every entry that is set here is present and open to user code.     *)
(* Addresses are numbers below WordSize, and wrap.                         *)
(***************************************************************************)
EXTENDS Integers, Sequences, FiniteSets

CONSTANTS
    PageSize,            \* PAGING_PAGE_SIZE: 4096
    EntriesPerTable,     \* PAGING_TOTAL_ENTRIES_PER_TABLE: 1024
    ProgramAddress,      \* MAEROS_PROGRAM_VIRTUAL_ADDRESS
    StackEnd,            \* MAEROS_PROGRAM_VIRTUAL_STACK_ADDRESS_END, the lowest address
    StackSize            \* MAEROS_USER_PROGRAM_STACK_SIZE

ASSUME PagingAssumption == PageSize \in Nat \ {0} /\ EntriesPerTable \in Nat \ {0}

WordSize == EntriesPerTable * EntriesPerTable * PageSize
Indexes == 0 .. EntriesPerTable - 1
Addresses == 0 .. WordSize - 1

-----------------------------------------------------------------------------
paging_is_aligned(addr) == addr % PageSize = 0

ASSUME LayoutAssumption ==
    /\ \A a \in {ProgramAddress, StackEnd, StackSize} : a \in Addresses /\ paging_is_aligned(a)
    /\ StackEnd + StackSize <= WordSize

directory_index(virt) == virt \div (EntriesPerTable * PageSize)

table_index(virt) == (virt % (EntriesPerTable * PageSize)) \div PageSize

\* Every page maps to itself, present and read-only.
paging_new_4gb ==
    [d \in Indexes |-> [t \in Indexes |->
        [frame |-> d * EntriesPerTable * PageSize + t * PageSize, writeable |-> FALSE]]]

paging_align_address(ptr) ==
    IF ptr % PageSize # 0 THEN (ptr + PageSize - (ptr % PageSize)) % WordSize ELSE ptr

paging_align_to_lower_page(addr) == addr - (addr % PageSize)

paging_set(dir, virt, entry) == [dir EXCEPT ![directory_index(virt)][table_index(virt)] = entry]

\* Page after page from virt and phys on.
paging_map_range(dir, virt, phys, count, writeable) ==
    LET behind[i \in 0 .. count] ==
          IF i = 0 THEN dir
          ELSE LET d == behind[i - 1]
                   k == (i - 1) * PageSize
               IN  paging_set(d, (virt + k) % WordSize,
                              [frame |-> (phys + k) % WordSize, writeable |-> writeable])
    IN  behind[count]

Refused(virt, phys, phys_end) ==
    ~paging_is_aligned(virt) \/ ~paging_is_aligned(phys) \/ ~paging_is_aligned(phys_end)
      \/ phys_end < phys

\* Nothing is mapped if an address is not aligned or the end lies before the start.
paging_map_to(dir, virt, phys, phys_end, writeable) ==
    IF Refused(virt, phys, phys_end) THEN dir
    ELSE paging_map_range(dir, virt, phys, (phys_end - phys) \div PageSize, writeable)

paging_get(dir, virt) == dir[directory_index(virt)][table_index(virt)]

\* The frame of the page and the offset in it.
paging_get_physical_address(dir, virt) ==
    paging_get(dir, paging_align_to_lower_page(virt)).frame
      + (virt - paging_align_to_lower_page(virt))

-----------------------------------------------------------------------------
\* A file: its size, what elf.h's elf_header says of it, and the program headers.
\* class: ELFCLASSNONE 0, ELFCLASS32 1, ELFCLASS64 2; encoding likewise.
elf_validate_loaded(file) ==
    /\ file.signature
    /\ file.class \in {0, 1}
    /\ file.encoding \in {0, 1}
    /\ file.e_phoff # 0

\* A program header of elf.h: the types it names, and words.
elf32_phdr ==
    [p_type : {"PT_NULL", "PT_LOAD", "PT_DYNAMIC", "PT_INTERP", "PT_NOTE", "PT_SHLIB", "PT_PHDR"},
     p_offset : Addresses, p_vaddr : Addresses, p_filesz : Addresses, p_memsz : Addresses,
     PF_W : BOOLEAN]

NoExtent == [base |-> 0, end |-> 0, physical_base |-> 0, physical_end |-> 0]

\* Mutant: the end of the last header counts, whether or not it is the greatest.
PtLoadLastEnd(x, memory, phdr) ==
    LET low == x.base >= phdr.p_vaddr \/ x.base = 0
    IN  [base |-> IF low THEN phdr.p_vaddr ELSE x.base,
         end |-> (phdr.p_vaddr + phdr.p_filesz) % WordSize,
         physical_base |-> IF low THEN memory + phdr.p_offset ELSE x.physical_base,
         physical_end |-> memory + phdr.p_offset + phdr.p_filesz]

\* The extent of a file is widened by one loadable segment; 0 stands for none yet.
elf_process_phdr_pt_load(x, memory, phdr) ==
    LET low == x.base >= phdr.p_vaddr \/ x.base = 0
        last == (phdr.p_vaddr + phdr.p_filesz) % WordSize
        high == x.end <= last \/ x.end = 0
    IN  [base |-> IF low THEN phdr.p_vaddr ELSE x.base,
         end |-> IF high THEN last ELSE x.end,
         physical_base |-> IF low THEN memory + phdr.p_offset ELSE x.physical_base,
         physical_end |-> IF high THEN memory + phdr.p_offset + phdr.p_filesz
                          ELSE x.physical_end]

\* Only PT_LOAD headers count.
elf_process_pheaders(memory, phdrs) ==
    LET behind[i \in 0 .. Len(phdrs)] ==
          IF i = 0 THEN NoExtent
          ELSE LET x == behind[i - 1]
               IN  IF phdrs[i].p_type = "PT_LOAD"
                   THEN elf_process_phdr_pt_load(x, memory, phdrs[i]) ELSE x
    IN  behind[Len(phdrs)]

-----------------------------------------------------------------------------
process_map_binary(dir, ptr, size) ==
    paging_map_to(dir, ProgramAddress, ptr, paging_align_address((ptr + size) % WordSize), TRUE)

\* The pages that a header asks for.
PhysOf(memory, phdr) == (memory + phdr.p_offset) % WordSize

\* Mutant: a page more than the segment needs.
EndOnePageOn(memory, phdr) ==
    paging_align_address((PhysOf(memory, phdr) + phdr.p_memsz + PageSize) % WordSize)

EndOf(memory, phdr) ==
    paging_align_address((PhysOf(memory, phdr) + phdr.p_memsz) % WordSize)

HeaderRefused(memory, phdr) ==
    Refused(paging_align_to_lower_page(phdr.p_vaddr),
            paging_align_to_lower_page(PhysOf(memory, phdr)), EndOf(memory, phdr))

\* Mutant: the page of the segment's offset in the file is forgotten.
MapFromFirstPage(dir, memory, phdr) ==
    paging_map_to(dir, paging_align_to_lower_page(phdr.p_vaddr),
                  memory, EndOf(memory, phdr), phdr.PF_W)

\* A header of any type; a segment without PF_W is read-only.
MapHeader(dir, memory, phdr) ==
    paging_map_to(dir, paging_align_to_lower_page(phdr.p_vaddr),
                  paging_align_to_lower_page(PhysOf(memory, phdr)),
                  EndOf(memory, phdr), phdr.PF_W)

\* The headers in turn; the first that is refused ends it.
process_map_elf(dir, memory, phdrs) ==
    LET behind[i \in 0 .. Len(phdrs)] ==
          IF i = 0 THEN [ok |-> TRUE, dir |-> dir]
          ELSE LET b == behind[i - 1]
               IN  IF ~b.ok THEN b
                   ELSE [ok |-> ~HeaderRefused(memory, phdrs[i]),
                         dir |-> MapHeader(b.dir, memory, phdrs[i])]
    IN  behind[Len(phdrs)]

\* process_map_binary is called for every program: ptr and elf_file share a union, and
\* size is 0 for an ELF file, so that no page is mapped.  Then by type, then the stack.
process_map_memory(kind, ptr, size, memory, phdrs, stack) ==
    LET first == process_map_binary(paging_new_4gb, ptr, size)
        typed == IF kind = "elf" THEN process_map_elf(first, memory, phdrs)
                 ELSE [ok |-> TRUE, dir |-> process_map_binary(first, ptr, size)]
    IN  IF ~typed.ok THEN typed
        ELSE [typed EXCEPT !.dir =
                paging_map_to(@, StackEnd, stack, paging_align_address(stack + StackSize), TRUE)]
=============================================================================
