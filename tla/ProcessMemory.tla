--------------------------- MODULE ProcessMemory ----------------------------
(***************************************************************************)
(* The memory of the processes: what loading, malloc, free and exit do to  *)
(* the kernel heap, to the allocation table of the process and to its page *)
(* directory (src/task/process.c, src/task/task.c,                         *)
(* src/memory/paging/paging.c, src/isr80h/heap.c, process.c).              *)
(*                                                                         *)
(* A page is a block of the heap: both are 4096 bytes, and a directory     *)
(* maps every page of the pool to itself.  Pages outside the pool are left *)
(* out, so are the blocks that the file system takes while a file is open. *)
(* Programs are linked below the pool, at 0x400000 (programs' linker.ld), *)
(* so that mapping their segments changes no page of it; Loader has        *)
(* segments at any address.                                                *)
(*                                                                         *)
(* The handlers run to their end with interrupts off.  Each one is a       *)
(* function from memory to memory:                                         *)
(*   entries      the block table of the heap                              *)
(*   live         history: the extents handed out, with their owners       *)
(*   allocations  process->allocations, per slot                           *)
(*   directory    what a process may do with each page of the pool         *)
(*   program      the heap objects of a loaded process, by kind; 0: none   *)
(***************************************************************************)
EXTENDS HeapTable, FiniteSets, Sequences

CONSTANTS
    Slots,       \* MAEROS_MAX_PROCESSES: 12
    MaxAllocs,   \* MAEROS_MAX_PROGRAM_ALLOCATIONS: 1024
    Sizes,       \* sizes that programs ask for
    Loads,       \* the ways a load can go: see Takes
    Args,        \* numbers of command arguments
    ObjectSize   \* size of a kernel object

ASSUME SlotsAssumption == Slots \subseteq Nat
ASSUME MaxAllocsAssumption == MaxAllocs \in Nat \ {0}
ASSUME AddressesFit == saddr + TotalBlocks * BlockSize < WordSize /\ WordSize % BlockSize = 0
ASSUME KernelAssumption == TotalBlocks + BlocksOf(ObjectSize) <= KernelIndex
ASSUME SizesAssumption == Sizes \cup {ObjectSize} \subseteq 0 .. WordSize - 1
ASSUME ArgsAssumption == Args \subseteq Nat
ASSUME LoadsAssumption ==
    Loads \subseteq {"elf", "binary", "elf unmappable", "no file", "unreadable", "binary unreadable"}

VARIABLES memory, stage

vars == <<memory, stage>>

Indices == 0 .. MaxAllocs - 1

\* Heap objects of a process: struct process, struct elf_file, the image of the file,
\* the program of a raw binary, the stack, and struct task with its page directory and
\* the 1024 tables of that.
Kinds == {"process", "elf_file", "elf_memory", "ptr", "stack", "task"}

NoAllocation == [ptr |-> 0, size |-> 0]
NoProgram == [k \in Kinds |-> 0]

\* paging_new_4gb maps the whole address space to itself, present and read-only.
NewDirectory == [j \in Blocks |-> "read-only"]

Init ==
    /\ memory = [entries |-> [i \in Indexes |-> HEAP_BLOCK_TABLE_ENTRY_FREE],
                 live |-> {},
                 allocations |-> [p \in Slots |-> [i \in Indices |-> NoAllocation]],
                 directory |-> [p \in Slots |-> NewDirectory],
                 program |-> [p \in Slots |-> NoProgram]]
    /\ stage = "blank"

Loaded(m, p) == m.program[p] # NoProgram

-----------------------------------------------------------------------------
\* The request, from the block where it would start, takes the kernel with it: its marks
\* go on behind the table as far as the kernel, or kzalloc's zeros go on over the end of
\* the address space and over everything from address 0 up.
ReachesKernel(m, size) ==
    \E s \in heap_get_start_block(m.entries, BlocksOf(size)) :
        s >= 0 /\ (\/ s + BlocksOf(size) > KernelIndex
                  \/ heap_block_to_address(s) + size > WordSize)

\* kzalloc of a request that does not reach the kernel, as the memory behind it and the
\* pointer it returns: 0 when there is none.
kzalloc(m, p, kind, size) ==
    LET n == BlocksOf(size)
        s == CHOOSE b \in heap_get_start_block(m.entries, n) : TRUE
    IN  IF s < 0
        THEN [mem |-> m, ptr |-> 0]
        ELSE [mem |-> [m EXCEPT
                        !.entries = heap_mark_blocks_taken(@, s, n),
                        !.live = @ \cup {[start |-> s, blocks |-> n, owner |-> p, kind |-> kind]}],
              ptr |-> heap_block_to_address(s)]

kfree(m, p, kind, ptr) ==
    LET s == heap_address_to_block(ptr)
    IN  [m EXCEPT !.entries = heap_mark_blocks_free(@, s),
                  !.live = {a \in @ : a.start # s \/ a.owner # p \/ a.kind # kind}]

\* Upwards to a page, in 32 bits.
paging_align_address(ptr) == heap_align_value_to_upper(ptr % WordSize)

\* paging_map_to refuses an end before the start; both are aligned in every call.
MapFails(ptr, end) == end < ptr

paging_map_to(dir, ptr, end, flags) ==
    [j \in Blocks |-> IF ptr <= heap_block_to_address(j) /\ heap_block_to_address(j) < end
                      THEN flags ELSE dir[j]]

-----------------------------------------------------------------------------
FreeIndices(m, p) == {i \in Indices : m.allocations[p][i].ptr = 0}
Lowest(S) == CHOOSE i \in S : \A j \in S : i <= j

\* The memory behind process_malloc and its result; an allocation that cannot be
\* entered in the table or mapped is given back.
process_malloc(m, p, size) ==
    LET a == kzalloc(m, p, "malloc", size)
        end == paging_align_address(a.ptr + size)
    IN  CASE a.ptr = 0 -> a
          [] a.ptr # 0 /\ (FreeIndices(m, p) = {} \/ MapFails(a.ptr, end)) ->
               [mem |-> kfree(a.mem, p, "malloc", a.ptr), ptr |-> 0]
          [] OTHER ->
               [mem |-> [a.mem EXCEPT
                          !.directory[p] = paging_map_to(@, a.ptr, end, "writeable"),
                          !.allocations[p][Lowest(FreeIndices(m, p))] =
                              [ptr |-> a.ptr, size |-> size]],
                ptr |-> a.ptr]

\* Mutant: the entry stays in the table.
AllocationStays(allocations, ptr) == allocations

\* Every entry with the pointer is cleared.
process_allocation_unjoin(allocations, ptr) ==
    [i \in Indices |-> IF allocations[i].ptr = ptr THEN NoAllocation ELSE allocations[i]]

\* Mutant: one page too many is taken from the process.
ProcessFreeExtraPage(m, p, ptr) ==
    LET found == {i \in Indices : m.allocations[p][i].ptr = ptr}
        end == paging_align_address(ptr + m.allocations[p][Lowest(found)].size + BlockSize)
    IN  IF found = {} \/ MapFails(ptr, end)
        THEN m
        ELSE kfree([m EXCEPT !.directory[p] = paging_map_to(@, ptr, end, "absent"),
                             !.allocations[p] = process_allocation_unjoin(@, ptr)],
                   p, "malloc", ptr)

\* A pointer that is not in the table is ignored.  0 is in it as long as an entry is
\* unused: no page is mapped, and kfree(0) is called.
process_free(m, p, ptr) ==
    LET found == {i \in Indices : m.allocations[p][i].ptr = ptr}
        end == paging_align_address(ptr + m.allocations[p][Lowest(found)].size)
    IN  IF found = {} \/ MapFails(ptr, end)
        THEN m
        ELSE kfree([m EXCEPT !.directory[p] = paging_map_to(@, ptr, end, "absent"),
                             !.allocations[p] = process_allocation_unjoin(@, ptr)],
                   p, "malloc", ptr)

\* process_free of every entry in turn, used or not.
process_terminate_allocations(m, p) ==
    LET behind[i \in 0 .. MaxAllocs] ==
          IF i = 0 THEN m
          ELSE LET prev == behind[i - 1]
               IN  process_free(prev, p, prev.allocations[p][i - 1].ptr)
    IN  behind[MaxAllocs]

-----------------------------------------------------------------------------
\* The heap objects that a load takes, in order.  Every load tries ELF first: a raw
\* binary has been read as an ELF image before.
Takes(how) ==
    CASE how = "no file" -> <<"process", "elf_file">>
      [] how = "unreadable" -> <<"process", "elf_file", "elf_memory">>
      [] how = "binary unreadable" -> <<"process", "elf_file", "elf_memory", "ptr">>
      [] how = "binary" ->
           <<"process", "elf_file", "elf_memory", "ptr", "stack", "task">>
      [] how \in {"elf", "elf unmappable"} ->
           <<"process", "elf_file", "elf_memory", "stack", "task">>

\* The objects that the same load gives back before it returns its error.
GivesBack(how) ==
    CASE how = "binary unreadable" -> <<"ptr">>
      [] how = "elf unmappable" -> <<"task">>
      [] OTHER -> <<>>

\* The objects whose kzalloc is used without a test for NULL (for task, the test lets
\* the error through).
Unchecked == {"elf_file", "elf_memory", "task"}

\* kfree of the objects of p named in kinds, in order.
FreeObjects(m, p, kinds) ==
    LET behind[i \in 0 .. Len(kinds)] ==
          IF i = 0 THEN m
          ELSE LET prev == behind[i - 1]
               IN  kfree([prev EXCEPT !.program[p][kinds[i]] = 0],
                          p, kinds[i], prev.program[p][kinds[i]])
    IN  behind[Len(kinds)]

\* What struct process points to: ptr and elf_file share their place, and the ELF image
\* that a raw binary was read into first is forgotten.
Keeps(program) ==
    IF program["ptr"] = 0 THEN program
    ELSE [program EXCEPT !["elf_file"] = 0, !["elf_memory"] = 0]

\* The memory behind process_load_for_slot, and its result: "ok", an "error", or "wild"
\* when the kernel has gone on with a NULL pointer.
process_load_for_slot(m, p, how) ==
    LET kinds == Takes(how)
        behind[i \in 0 .. Len(kinds)] ==
          IF i = 0 THEN [mem |-> m, missing |-> {}]
          ELSE LET prev == behind[i - 1]
                   a == kzalloc(prev.mem, p, kinds[i], ObjectSize)
               IN  IF prev.missing # {} THEN prev
                   ELSE [mem |-> [a.mem EXCEPT !.program[p][kinds[i]] = a.ptr],
                         missing |-> IF a.ptr = 0 THEN {kinds[i]} ELSE {}]
        taken == behind[Len(kinds)]
        failed(mem) == [mem EXCEPT !.program[p] = NoProgram]
    IN  CASE taken.missing \cap Unchecked # {} -> [mem |-> failed(taken.mem), res |-> "wild"]
          [] taken.missing \ Unchecked # {} -> [mem |-> failed(taken.mem), res |-> "error"]
          [] taken.missing = {} /\ how \notin {"elf", "binary"} ->
               [mem |-> failed(FreeObjects(taken.mem, p, GivesBack(how))), res |-> "error"]
          [] OTHER ->
               [mem |-> [taken.mem EXCEPT !.directory[p] = NewDirectory,
                                          !.program[p] = Keeps(@)], res |-> "ok"]

\* argv, then one buffer of 512 bytes for each argument; the first that fails ends it
\* and leaves the others in the table.
process_inject_arguments(m, p, argc) ==
    LET behind[i \in 0 .. argc + 1] ==
          IF i = 0 THEN [mem |-> m, ptr |-> saddr]
          ELSE LET prev == behind[i - 1]
               IN  IF prev.ptr = 0 THEN prev ELSE process_malloc(prev.mem, p, ObjectSize)
    IN  behind[argc + 1].mem

\* Mutant: the stack is not given back.
TerminateKeepsStack(m, p) ==
    LET data == IF m.program[p]["ptr"] # 0 THEN <<"ptr">> ELSE <<"elf_memory", "elf_file">>
        m1 == FreeObjects(process_terminate_allocations(m, p), p,
                          data \o <<"task">>)
    IN  [m1 EXCEPT !.program[p] = NoProgram, !.directory[p] = NewDirectory,
                   !.allocations[p] = [i \in Indices |-> NoAllocation]]

\* The program's data is what its file type says: ptr, or the ELF file.  struct process
\* itself is not freed, nor is the ELF image of a raw binary.
process_terminate(m, p) ==
    LET data == IF m.program[p]["ptr"] # 0 THEN <<"ptr">> ELSE <<"elf_memory", "elf_file">>
        m1 == FreeObjects(process_terminate_allocations(m, p), p,
                          data \o <<"stack", "task">>)
    IN  [m1 EXCEPT !.program[p] = NoProgram, !.directory[p] = NewDirectory,
                   !.allocations[p] = [i \in Indices |-> NoAllocation]]

\* Mutant: the entry of the page directory is not put back.
CopyNoRestore(m, p) ==
    LET tmp == kzalloc(m, p, "tmp", ObjectSize)
        dir == paging_map_to(m.directory[p], tmp.ptr, tmp.ptr + BlockSize, "writeable")
    IN  IF tmp.ptr = 0 THEN m
        ELSE kfree([tmp.mem EXCEPT !.directory[p] = dir], p, "tmp", tmp.ptr)

\* A buffer of the kernel is lent to the task for the copy and its page directory is
\* put back behind it.  The string can be read: see copy_string_faults.
copy_string_from_task(m, p) ==
    LET tmp == kzalloc(m, p, "tmp", ObjectSize)
        dir == paging_map_to(m.directory[p], tmp.ptr, tmp.ptr + BlockSize, "writeable")
        back == [dir EXCEPT ![heap_address_to_block(tmp.ptr)] =
                              m.directory[p][heap_address_to_block(tmp.ptr)]]
    IN  IF tmp.ptr = 0 THEN m
        ELSE kfree([tmp.mem EXCEPT !.directory[p] = back], p, "tmp", tmp.ptr)

-----------------------------------------------------------------------------
FreeSlots == {p \in Slots : ~Loaded(memory, p)}
process_get_free_slot == Lowest(FreeSlots)

\* kernel_main loads blank.elf and shell.elf, each with one argument; a load that fails
\* is a panic, arguments that do not fit are nobody's concern.
BootLoad(how) ==
    /\ stage \in {"blank", "shell"} /\ FreeSlots # {}
    /\ LET p == process_get_free_slot
           load == process_load_for_slot(memory, p, how)
       IN  /\ memory' = IF load.res = "ok" THEN process_inject_arguments(load.mem, p, 1)
                                           ELSE load.mem
           /\ stage' = CASE load.res = "ok" /\ stage = "blank" -> "shell"
                         [] load.res = "ok" /\ stage = "shell" -> "user"
                         [] load.res = "error" -> "panic"
                         [] load.res = "wild" -> "wild"

\* The stage behind a load by a system call.
StageBehind(load) == IF load.res = "wild" THEN "wild" ELSE "user"

\* A process starts another one; the file's name comes from its memory.
isr80h_command6_process_load_start(caller, how) ==
    /\ stage = "user" /\ Loaded(memory, caller) /\ FreeSlots # {}
    /\ LET load == process_load_for_slot(copy_string_from_task(memory, caller),
                                         process_get_free_slot, how)
       IN  memory' = load.mem /\ stage' = StageBehind(load)

\* A process starts another one with arguments.
isr80h_command7_invoke_system_command(argc, how) ==
    /\ stage = "user" /\ FreeSlots # {}
    /\ LET p == process_get_free_slot
           load == process_load_for_slot(memory, p, how)
       IN  /\ memory' = IF load.res = "ok" THEN process_inject_arguments(load.mem, p, argc)
                                           ELSE load.mem
           /\ stage' = StageBehind(load)

\* print: the string is copied from the task.
isr80h_command1_print(p) ==
    /\ stage = "user" /\ Loaded(memory, p)
    /\ memory' = copy_string_from_task(memory, p)
    /\ UNCHANGED stage

\* A request that reaches the kernel destroys it; what the memory is then is not followed.
isr80h_command4_malloc(p, size) ==
    /\ stage = "user" /\ Loaded(memory, p)
    /\ IF ReachesKernel(memory, size)
       THEN stage' = "wild" /\ UNCHANGED memory
       ELSE memory' = process_malloc(memory, p, size).mem /\ UNCHANGED stage

\* A program may pass any pointer: one of its own, one of another process (any pointer
\* that is not in its table is as good) or 0.
isr80h_command5_free(p, ptr) ==
    /\ stage = "user" /\ Loaded(memory, p)
    /\ memory' = process_free(memory, p, ptr)
    /\ UNCHANGED stage

\* p ends, with m in memory; when no process is left the kernel panics.
Ends(m, p) ==
    /\ memory' = process_terminate(m, p)
    /\ stage' = IF \E q \in Slots \ {p} : Loaded(memory, q) THEN "user" ELSE "panic"

\* Exit, or an exception: in the program, or in the kernel when task_get_stack_item reads
\* a stack that is not there.
isr80h_command9_exit(p) ==
    /\ stage = "user" /\ Loaded(memory, p)
    /\ Ends(memory, p)

\* print or a load of a string on a page that the process has freed: the copy faults in
\* the kernel, the process is ended as for any exception, and nobody gives the buffer
\* back.  The page of the buffer itself is mapped at that time.
copy_string_faults(p) ==
    LET tmp == kzalloc(memory, p, "tmp", ObjectSize)
    IN  /\ stage = "user" /\ Loaded(memory, p)
        /\ tmp.ptr # 0
        /\ \E j \in Blocks \ {heap_address_to_block(tmp.ptr)} : memory.directory[p][j] = "absent"
        /\ Ends(tmp.mem, p)

\* The kernel has stopped, runs on what a NULL pointer gave it, or is overwritten.
Halted == stage \in {"panic", "wild"} /\ UNCHANGED vars

Pointers == {0} \cup {memory.allocations[q][i].ptr : q \in Slots, i \in Indices}

Next ==
    \/ \E how \in Loads : BootLoad(how)
    \/ \E p \in Slots, how \in Loads : isr80h_command6_process_load_start(p, how)
    \/ \E argc \in Args, how \in Loads : isr80h_command7_invoke_system_command(argc, how)
    \/ \E p \in Slots : isr80h_command1_print(p)
    \/ \E p \in Slots, size \in Sizes : isr80h_command4_malloc(p, size)
    \/ \E p \in Slots, ptr \in Pointers : isr80h_command5_free(p, ptr)
    \/ \E p \in Slots : isr80h_command9_exit(p)
    \/ \E p \in Slots : copy_string_faults(p)
    \/ Halted

Spec == Init /\ [][Next]_vars

-----------------------------------------------------------------------------
\* The blocks of the pool that an extent covers.
Extent(a) == {j \in Blocks : a.start <= j /\ j < a.start + a.blocks}

\* What process p holds by malloc.
Mallocs(p) == {a \in memory.live : a.owner = p /\ a.kind = "malloc"}

\* process.c:320 on process_free: "that just prevents the process from being able to
\* access that memory".  A loaded process can write exactly the pages of the pool that
\* it holds by malloc: none that it has freed, none of another process or of the
\* kernel, whatever was freed, reused and loaded in between.
WritesOwnPagesOnly ==
    stage = "user" =>
        \A p \in Slots : Loaded(memory, p) =>
            {j \in Blocks : memory.directory[p][j] = "writeable"}
                = UNION {Extent(a) : a \in Mallocs(p)}

\* The allocation table of a process lists its live allocations, each once, and nothing
\* else: what exit walks is what there is to free.
TableListsMallocs ==
    stage = "user" => \A p \in Slots :
        LET used == {i \in Indices : memory.allocations[p][i].ptr # 0}
        IN  /\ {[ptr |-> heap_block_to_address(a.start), blocks |-> a.blocks] : a \in Mallocs(p)}
                 = {[ptr |-> memory.allocations[p][i].ptr,
                     blocks |-> BlocksOf(memory.allocations[p][i].size)] : i \in used}
            /\ Cardinality(used) = Cardinality(Mallocs(p))

\* The kernel reads struct task under the directory of that task when it resumes it
\* (task_return): no free by the process takes the page away.
TaskStaysPresent ==
    stage = "user" => \A p \in Slots : Loaded(memory, p) =>
        memory.directory[p][heap_address_to_block(memory.program[p]["task"])] = "read-only"

\* No two heap extents share a block, across processes and kernel objects, as long as
\* the kernel has not gone on with a NULL pointer or destroyed itself.
ExtentsDisjoint ==
    stage # "wild" =>
        \A a, b \in memory.live : a # b => Extent(a) \cap Extent(b) = {}

\* What a loaded process holds: its allocations and the objects it points to.
Held(m, p) ==
    {a \in m.live : a.owner = p /\ (\/ a.kind = "malloc"
                                   \/ /\ a.kind \in Kinds
                                      /\ m.program[p][a.kind] = heap_block_to_address(a.start))}

\* process.h:48-49 on allocations: "When process is killed, free the memory previously
\* allocated".  Of what a process holds when it ends, the heap gets everything back but
\* struct process, arguments and reused addresses included.
ExitFreesAll ==
    [][\A p \in Slots : Loaded(memory, p) /\ ~Loaded(memory', p) =>
          \A a \in Held(memory, p) \cap memory'.live : a.kind = "process"]_vars
=============================================================================
